--------------------------- MODULE YAMLWalkerProofs ---------------------------
(***************************************************************************)
(* What the walk of a YAML document keeps, for every document, cyclic or   *)
(* not: the count and the set of the anchors being expanded are those of   *)
(* the aliases on the stack, on the way in, on the way out and after an    *)
(* error; the stack is no deeper than MaxDepth allows; what a walk ends    *)
(* with is the document with its aliases expanded, or an error; how much   *)
(* is walked is bounded by the size of the document; and what was walked   *)
(* is written back.                                                        *)
(*                                                                         *)
(* ExpansionsBalanced is nearly inductive.  What it lacks is that a frame  *)
(* is as deep as it lies in the stack (StackInv), which bounds the stack,  *)
(* and that anchors tell the aliases on the stack apart (Balanced): that   *)
(* is what the test for cycles keeps, and what lets the removal of an      *)
(* anchor be the removal of one alias.                                     *)
(*                                                                         *)
(* ExpandsOrRefuses speaks of the end of a walk only.  What leads there    *)
(* (Reads) is that the stack is a path in the document (OnPath), that the  *)
(* tokens put out are what its frames put out before the children they     *)
(* are at, one frame after the other (Prior), and that the nodes that are  *)
(* through can be ranked so that what is below a node ranks lower          *)
(* (Ranked): with the root among them there is no cycle.  The other way    *)
(* round, an anchor that is met while it is being expanded is found below  *)
(* itself, since the stack is a path.                                      *)
(*                                                                         *)
(* WorkBounded follows from the last counts that the walker accepted,      *)
(* once the nodes walked outside of any alias are known to be no more than *)
(* the document has.  Their places are met one by one (Seen), and none     *)
(* twice: a container lies at one place, so it could only be walked again  *)
(* if that place had been met again (Placed).                              *)
(*                                                                         *)
(* WritesWhatItWalked compares two recursions.  Of a node that was read at *)
(* depth d, json2yaml makes what it stands for at d or at any depth above  *)
(* (Agrees), since the walk was the deeper of the two at every alias; so   *)
(* much is known of all the children that the stack is past (Written).     *)
(* The other way round, the stack that is too deep is itself, without      *)
(* aliases, the path along which json2yaml is refused (TooDeepRefused).    *)
(*                                                                         *)
(* What a document stands for, what lies below a node and what is written  *)
(* of it are recursive functions of a number.  That those have a solution  *)
(* at all, and obey their equations, is proved by induction on the least   *)
(* number for which they do not (Iterated, ExpansionIs, DownToIs, JsonIs); *)
(* that what lies below a node is closed, by counting (UnderClosed).       *)
(***************************************************************************)
EXTENDS YAMLWriter, TLAPS, FiniteSetTheorems, SequenceTheorems, WellFoundedInduction

\* The places of the aliases on stack fs.
Opened(fs) == {i \in 1 .. Len(fs) : fs[i].routine = "alias"}

\* depth and anchors are the number and the anchors of the aliases on stack fs.
Balanced(fs, depth, anchors) ==
  /\ depth = Cardinality(Opened(fs))
  /\ anchors = {Anchor(fs[i].node) : i \in Opened(fs)}
  /\ \A i, j \in Opened(fs) : Anchor(fs[i].node) = Anchor(fs[j].node) => i = j

\* A frame is as deep as it lies in the stack.
Framed(fs) ==
  /\ fs \in Seq({fs[i] : i \in DOMAIN fs})
  /\ \A i \in 1 .. Len(fs) : fs[i] = [node |-> fs[i].node, routine |-> fs[i].routine,
                                      at |-> fs[i].at, depth |-> i - 1]
  /\ Len(fs) <= MaxDepth + 1

StackInv ==
  /\ Framed(frames)
  /\ visit # Nowhere => visit.depth = Len(frames)

WalkInv == StackInv /\ Balanced(frames, aliasDepth, aliases)

\* Nothing is walked after an error.
Stopped == err # "none" => visit = Nowhere

-----------------------------------------------------------------------------
(* Stacks *)

\* A sequence is one of its own elements.
LEMMA OwnSeq ==
  ASSUME NEW S, NEW s \in Seq(S)
  PROVE  s \in Seq({s[i] : i \in DOMAIN s})
  <1>1. Len(s) \in Nat /\ DOMAIN s = 1 .. Len(s) /\ s \in [1 .. Len(s) -> S]
    BY LenProperties
  <1>2. s \in [1 .. Len(s) -> {s[i] : i \in DOMAIN s}]
    BY <1>1
  <1>3. QED
    BY <1>1, <1>2, SeqDef

LEMMA FunctionSeq ==
  ASSUME NEW S, NEW n \in Nat, NEW g \in [1 .. n -> S]
  PROVE  g \in Seq(S) /\ Len(g) = n
  OBVIOUS

LEMMA AllButOne ==
  ASSUME NEW n \in Nat, n >= 1
  PROVE  /\ (IF 1 <= n - 1 THEN n - 1 - 1 + 1 ELSE 0) = n - 1
         /\ \A i \in 1 .. n - 1 : i \in 1 .. n - 1 - 1 + 1 /\ 1 + i - 1 = i /\ i \in 1 .. n
  <1>1. (IF 1 <= n - 1 THEN n - 1 - 1 + 1 ELSE 0) = n - 1
    OBVIOUS
  <1>2. \A i \in 1 .. n - 1 : i \in 1 .. n - 1 - 1 + 1 /\ 1 + i - 1 = i /\ i \in 1 .. n
    OBVIOUS
  <1>3. QED
    BY <1>1, <1>2

LEMMA OpenedFinite ==
  ASSUME NEW fs, Framed(fs)
  PROVE  IsFiniteSet(Opened(fs)) /\ Len(fs) \in Nat
  <1>1. Len(fs) \in Nat
    BY LenProperties DEF Framed
  <1>2. IsFiniteSet(1 .. Len(fs))
    BY <1>1, FS_Interval
  <1>3. Opened(fs) \in SUBSET (1 .. Len(fs))
    BY DEF Opened
  <1>4. QED
    BY <1>1, <1>2, <1>3, FS_Subset

\* A frame more.
Pushed(fs, gs, n, routine) == gs = Append(fs, Frame(n, routine, Len(fs)))

LEMMA PushFramed ==
  ASSUME NEW fs, Framed(fs), NEW n, NEW routine, NEW gs, Pushed(fs, gs, n, routine),
         Len(fs) <= MaxDepth
  PROVE  /\ Framed(gs) /\ Len(gs) = Len(fs) + 1
         /\ gs[Len(fs) + 1] = Frame(n, routine, Len(fs))
         /\ \A i \in 1 .. Len(fs) : gs[i] = fs[i]
  <1> DEFINE f == Frame(n, routine, Len(fs))
             S == {fs[i] : i \in DOMAIN fs} \cup {f}
  <1>1. fs \in Seq({fs[i] : i \in DOMAIN fs}) /\ Len(fs) \in Nat /\ MaxDepth \in Nat
    BY LenProperties, YAMLWalkerAssumption DEF Framed
  <1>2. {fs[i] : i \in DOMAIN fs} \subseteq S /\ f \in S
    OBVIOUS
  <1> HIDE DEF S
  <1>3. fs \in Seq(S)
    BY <1>1, <1>2, SeqMonotonic
  <1> HIDE DEF f
  <1>4. gs = Append(fs, f)
    BY DEF f, Pushed
  <1>5. /\ gs \in Seq(S) /\ Len(gs) = Len(fs) + 1 /\ (\A i \in 1 .. Len(fs) : gs[i] = fs[i])
        /\ gs[Len(fs) + 1] = f
    BY <1>2, <1>3, <1>4, AppendProperties
  <1>6. gs \in Seq({gs[i] : i \in DOMAIN gs})
    BY <1>5, OwnSeq
  <1>7. ASSUME NEW i \in 1 .. Len(gs)
        PROVE  gs[i] = [node |-> gs[i].node, routine |-> gs[i].routine, at |-> gs[i].at, depth |-> i - 1]
    <2>1. CASE i \in 1 .. Len(fs)
      BY <1>5, <2>1 DEF Framed
    <2>2. CASE i = Len(fs) + 1
      <3>1. gs[i] = f /\ i - 1 = Len(fs)
        BY <1>1, <1>5, <2>2
      <3>2. f = [node |-> n, routine |-> routine, at |-> 0, depth |-> Len(fs)]
        BY DEF f, Frame
      <3>3. QED
        BY <3>1, <3>2
    <2>3. QED
      BY <1>1, <1>5, <2>1, <2>2
  <1>8. Len(gs) <= MaxDepth + 1
    BY <1>1, <1>5
  <1>9. QED
    BY <1>5, <1>6, <1>7, <1>8 DEF Framed, f

\* A frame less.
LEMMA PopFramed ==
  ASSUME NEW fs, Framed(fs), fs # <<>>, NEW gs, gs = Front(fs)
  PROVE  /\ Framed(gs) /\ Len(gs) = Len(fs) - 1
         /\ \A i \in 1 .. Len(fs) - 1 : gs[i] = fs[i]
  <1> DEFINE S == {fs[i] : i \in DOMAIN fs}
  <1>1. fs \in Seq(S)
    BY DEF Framed
  <1> HIDE DEF S
  <1>2. Len(fs) \in Nat /\ Len(fs) >= 1 /\ Len(fs) - 1 \in Nat /\ MaxDepth \in Nat
    BY <1>1, YAMLWalkerAssumption
  <1>3. \A i \in 1 .. Len(fs) - 1 : fs[i] \in S
    BY <1>1
  <1>4. gs = SubSeq(fs, 1, Len(fs) - 1)
    BY DEF Front
  <1>5. /\ gs \in Seq(S) /\ Len(gs) = (IF 1 <= Len(fs) - 1 THEN Len(fs) - 1 - 1 + 1 ELSE 0)
        /\ \A i \in 1 .. Len(fs) - 1 - 1 + 1 : gs[i] = fs[1 + i - 1]
    BY <1>2, <1>3, <1>4, SubSeqProperties
  <1>6. /\ (IF 1 <= Len(fs) - 1 THEN Len(fs) - 1 - 1 + 1 ELSE 0) = Len(fs) - 1
        /\ \A i \in 1 .. Len(fs) - 1 : i \in 1 .. Len(fs) - 1 - 1 + 1 /\ 1 + i - 1 = i /\ i \in 1 .. Len(fs)
    BY <1>2, AllButOne
  <1>7. Len(gs) = Len(fs) - 1 /\ \A i \in 1 .. Len(fs) - 1 : gs[i] = fs[i]
    BY <1>5, <1>6
  <1>8. gs \in Seq({gs[i] : i \in DOMAIN gs})
    BY <1>5, OwnSeq
  <1>9. \A i \in 1 .. Len(gs) :
          gs[i] = [node |-> gs[i].node, routine |-> gs[i].routine, at |-> gs[i].at, depth |-> i - 1]
    BY <1>6, <1>7 DEF Framed
  <1>10. Len(fs) <= MaxDepth + 1
    BY DEF Framed
  <1>11. Len(gs) <= MaxDepth + 1
    BY <1>2, <1>7, <1>10
  <1>12. QED
    BY <1>7, <1>8, <1>9, <1>11 DEF Framed

\* The same stack, but for how far its last container was read.
Advanced(fs, gs, step) == gs = [fs EXCEPT ![Len(fs)].at = @ + step]

LEMMA ReadFramed ==
  ASSUME NEW fs, Framed(fs), fs # <<>>, NEW step, NEW gs, Advanced(fs, gs, step)
  PROVE  /\ Framed(gs) /\ Len(gs) = Len(fs)
         /\ \A i \in 1 .. Len(fs) : gs[i].routine = fs[i].routine /\ gs[i].node = fs[i].node
  <1>1. Len(fs) \in Nat /\ DOMAIN fs = 1 .. Len(fs)
    BY LenProperties DEF Framed
  <1> DEFINE n == Len(fs)
  <1>2. /\ gs = [i \in 1 .. n |-> IF i = n THEN [fs[n] EXCEPT !.at = @ + step] ELSE fs[i]]
    BY <1>1 DEF Advanced
  <1> HIDE DEF n
  <1>3. /\ DOMAIN gs = 1 .. n
        /\ \A i \in 1 .. n : i # n => gs[i] = fs[i]
        /\ n \in 1 .. n => gs[n] = [fs[n] EXCEPT !.at = @ + step]
    BY <1>2
  <1> DEFINE S == {gs[i] : i \in 1 .. n}
  <1>4. n \in Nat /\ gs \in [1 .. n -> S]
    BY <1>1, <1>2 DEF n
  <1> HIDE DEF S
  <1>5. gs \in Seq(S) /\ Len(gs) = n
    BY <1>4, FunctionSeq
  <1>6. \A i \in 1 .. n : fs[i] = [node |-> fs[i].node, routine |-> fs[i].routine,
                                   at |-> fs[i].at, depth |-> i - 1]
    BY DEF Framed, n
  <1>7. ASSUME NEW i \in 1 .. n
        PROVE  /\ gs[i] = [node |-> gs[i].node, routine |-> gs[i].routine, at |-> gs[i].at, depth |-> i - 1]
               /\ gs[i].routine = fs[i].routine /\ gs[i].node = fs[i].node
    <2>1. CASE i # n
      BY <1>3, <1>6, <2>1
    <2>2. CASE i = n
      <3>1. gs[i] = [fs[i] EXCEPT !.at = @ + step]
        BY <1>3, <2>2
      <3>2. fs[i] = [node |-> fs[i].node, routine |-> fs[i].routine, at |-> fs[i].at, depth |-> i - 1]
        BY <1>6
      <3>3. gs[i] = [node |-> fs[i].node, routine |-> fs[i].routine, at |-> fs[i].at + step, depth |-> i - 1]
        BY <3>1, <3>2
      <3>4. QED
        BY <3>3
    <2>3. QED
      BY <2>1, <2>2
  <1>8. n <= MaxDepth + 1
    BY DEF Framed, n
  <1>9. QED
    BY <1>3, <1>5, <1>7, <1>8 DEF Framed, n, S

-----------------------------------------------------------------------------
(* Aliases *)

\* What does not touch aliases keeps the balance.
LEMMA BalancedSame ==
  ASSUME NEW fs, NEW gs, NEW depth, NEW anchors, Balanced(fs, depth, anchors),
         Opened(gs) = Opened(fs), \A i \in Opened(fs) : gs[i].node = fs[i].node
  PROVE  Balanced(gs, depth, anchors)
  BY DEF Balanced

\* An alias whose anchor is not being expanded.
LEMMA BalancedMore ==
  ASSUME NEW fs, Framed(fs), NEW gs, NEW depth, NEW anchors, Balanced(fs, depth, anchors), NEW n,
         Anchor(n) \notin anchors,
         Opened(gs) = Opened(fs) \cup {Len(fs) + 1}, gs[Len(fs) + 1].node = n,
         \A i \in Opened(fs) : gs[i].node = fs[i].node
  PROVE  Balanced(gs, depth + 1, anchors \cup {Anchor(n)})
  <1> DEFINE top == Len(fs) + 1
  <1>1. IsFiniteSet(Opened(fs)) /\ Len(fs) \in Nat
    BY OpenedFinite
  <1>2. top \notin Opened(fs)
    BY <1>1 DEF Opened
  <1> HIDE DEF top
  <1>3. Opened(gs) = Opened(fs) \cup {top} /\ gs[top].node = n
    BY DEF top
  <1>4. depth + 1 = Cardinality(Opened(gs))
    BY <1>1, <1>2, <1>3, FS_AddElement DEF Balanced
  <1>5. /\ anchors = {Anchor(fs[i].node) : i \in Opened(fs)}
        /\ \A i, j \in Opened(fs) : Anchor(fs[i].node) = Anchor(fs[j].node) => i = j
    BY DEF Balanced
  <1>6. anchors \cup {Anchor(n)} = {Anchor(gs[i].node) : i \in Opened(gs)}
    BY <1>3, <1>5
  <1>7. \A i, j \in Opened(gs) : Anchor(gs[i].node) = Anchor(gs[j].node) => i = j
    <2>1. \A i \in Opened(fs) : gs[i].node = fs[i].node /\ Anchor(gs[i].node) # Anchor(n)
      BY <1>5
    <2>2. \A i \in Opened(gs) : i \in Opened(fs) \/ (i = top /\ gs[i].node = n)
      BY <1>3
    <2>3. QED
      BY <1>5, <2>1, <2>2
  <1>8. QED
    BY <1>4, <1>6, <1>7 DEF Balanced

\* The alias on top is left.
LEMMA BalancedLess ==
  ASSUME NEW fs, Framed(fs), NEW gs, NEW depth, NEW anchors, Balanced(fs, depth, anchors),
         NEW top \in Opened(fs),
         Opened(gs) = Opened(fs) \ {top}, \A i \in Opened(gs) : gs[i].node = fs[i].node
  PROVE  Balanced(gs, depth - 1, anchors \ {Anchor(fs[top].node)})
  <1>1. IsFiniteSet(Opened(fs))
    BY OpenedFinite
  <1>2. Cardinality(Opened(gs)) = Cardinality(Opened(fs)) - 1
    BY <1>1, FS_RemoveElement
  <1>3. /\ depth = Cardinality(Opened(fs)) /\ anchors = {Anchor(fs[i].node) : i \in Opened(fs)}
        /\ \A i, j \in Opened(fs) : Anchor(fs[i].node) = Anchor(fs[j].node) => i = j
    BY DEF Balanced
  <1>4. anchors \ {Anchor(fs[top].node)} = {Anchor(gs[i].node) : i \in Opened(gs)}
    BY <1>3
  <1>5. \A i, j \in Opened(gs) : Anchor(gs[i].node) = Anchor(gs[j].node) => i = j
    BY <1>3
  <1>6. QED
    BY <1>2, <1>3, <1>4, <1>5 DEF Balanced

\* A container is pushed, or an alias.
Opening(routine, n) == IF routine = "alias" THEN {n} ELSE {}

LEMMA PushOpens ==
  ASSUME NEW fs, Framed(fs), NEW n, NEW routine, NEW gs, Pushed(fs, gs, n, routine),
         Len(fs) <= MaxDepth
  PROVE  /\ Opened(gs) = Opened(fs) \cup Opening(routine, Len(fs) + 1)
         /\ gs[Len(fs) + 1].node = n
         /\ \A i \in Opened(fs) : gs[i].node = fs[i].node
  <1>1. /\ Len(gs) = Len(fs) + 1 /\ gs[Len(fs) + 1] = Frame(n, routine, Len(fs))
        /\ \A i \in 1 .. Len(fs) : gs[i] = fs[i]
    BY PushFramed
  <1>2. Len(fs) \in Nat
    BY OpenedFinite
  <1>3. gs[Len(fs) + 1].node = n /\ gs[Len(fs) + 1].routine = routine
    BY <1>1 DEF Frame
  <1>4. \A i : i \in 1 .. Len(gs) <=> i \in 1 .. Len(fs) \/ i = Len(fs) + 1
    BY <1>1, <1>2
  <1>5. \A i : i \in Opened(gs) <=> i \in Opened(fs) \/ (i = Len(fs) + 1 /\ routine = "alias")
    BY <1>1, <1>3, <1>4 DEF Opened
  <1>6. \A i \in Opened(fs) : gs[i].node = fs[i].node
    BY <1>1 DEF Opened
  <1>7. Opened(gs) = Opened(fs) \cup Opening(routine, Len(fs) + 1)
    <2>1. CASE routine = "alias"
      BY <1>5, <2>1 DEF Opening
    <2>2. CASE routine # "alias"
      BY <1>5, <2>2 DEF Opening
    <2>3. QED
      BY <2>1, <2>2
  <1>8. QED
    BY <1>3, <1>6, <1>7

\* A frame is popped.
LEMMA PopOpens ==
  ASSUME NEW fs, Framed(fs), fs # <<>>, NEW gs, gs = Front(fs), NEW top, top = Len(fs)
  PROVE  /\ Last(fs) = fs[top]
         /\ Opened(gs) = Opened(fs) \ {top}
         /\ top \in Opened(fs) <=> fs[top].routine = "alias"
         /\ \A i \in Opened(gs) : gs[i].node = fs[i].node
  <1>1. Len(gs) = top - 1 /\ \A i \in 1 .. top - 1 : gs[i] = fs[i]
    BY PopFramed
  <1>2. top \in Nat /\ top >= 1
    <2>1. fs \in Seq({fs[i] : i \in DOMAIN fs})
      BY DEF Framed
    <2>2. QED
      BY <2>1, EmptySeq, LenProperties
  <1>3. Last(fs) = fs[top]
    BY DEF Last
  <1>4. \A i : i \in 1 .. top - 1 <=> i \in 1 .. top /\ i # top
    BY <1>2
  <1>5. \A i : i \in Opened(gs) <=> i \in Opened(fs) /\ i # top
    BY <1>1, <1>4 DEF Opened
  <1>6. \A i \in Opened(gs) : gs[i].node = fs[i].node
    BY <1>1 DEF Opened
  <1>7. top \in Opened(fs) <=> fs[top].routine = "alias"
    BY <1>2 DEF Opened
  <1>8. Opened(gs) = Opened(fs) \ {top}
    BY <1>5
  <1>9. QED
    BY <1>3, <1>6, <1>7, <1>8

-----------------------------------------------------------------------------
(* The steps *)

LEMMA TopFacts ==
  ASSUME Framed(frames), frames # <<>>
  PROVE  /\ Len(frames) \in Nat /\ Len(frames) >= 1 /\ Len(frames) <= MaxDepth + 1
         /\ Top = frames[Len(frames)] /\ Top.depth = Len(frames) - 1
  <1>1. frames \in Seq({frames[i] : i \in DOMAIN frames})
    BY DEF Framed
  <1>2. Len(frames) \in Nat /\ Len(frames) >= 1
    BY <1>1, EmptySeq, LenProperties
  <1>3. Top = frames[Len(frames)]
    BY DEF Top, Last
  <1>4. Len(frames) \in 1 .. Len(frames)
    BY <1>2
  <1>5. frames[Len(frames)] = [node |-> frames[Len(frames)].node, routine |-> frames[Len(frames)].routine,
                               at |-> frames[Len(frames)].at, depth |-> Len(frames) - 1]
    BY <1>4 DEF Framed
  <1>6. QED
    BY <1>2, <1>3, <1>5 DEF Framed

LEMMA NothingKeeps ==
  ASSUME WalkInv, UNCHANGED <<document, frames, expansion>>, visit' = Nowhere \/ visit' = visit
  PROVE  WalkInv'
  <1>1. frames' = frames /\ aliasDepth' = aliasDepth /\ aliases' = aliases /\ document' = document
    BY DEF expansion
  <1>2. StackInv'
    BY <1>1 DEF WalkInv, StackInv, Framed, Nowhere
  <1>3. Balanced(frames, aliasDepth, aliases)'
    BY <1>1 DEF WalkInv, Balanced, Opened, Anchor
  <1>4. QED
    BY <1>2, <1>3 DEF WalkInv

\* A container is entered.
LEMMA PushKeeps ==
  ASSUME WalkInv, visit # Nowhere, ~(visit.depth > MaxDepth), document' = document,
         NEW n, NEW routine \in {"list", "pairs"}, NEW token, Push(n, routine, token)
  PROVE  WalkInv'
  <1>1. /\ Framed(frames) /\ visit.depth = Len(frames) /\ Balanced(frames, aliasDepth, aliases)
    BY DEF WalkInv, StackInv
  <1>2. Len(frames) \in Nat /\ MaxDepth \in Nat
    BY <1>1, OpenedFinite, YAMLWalkerAssumption
  <1>3. Len(frames) <= MaxDepth
    BY <1>1, <1>2
  <1>4. /\ Pushed(frames, frames', n, routine) /\ visit' = Nowhere
        /\ aliasDepth' = aliasDepth /\ aliases' = aliases
    BY <1>1 DEF Push, expansion, Pushed
  <1>5. Framed(frames')
    BY <1>1, <1>3, <1>4, PushFramed
  <1>6. Opened(frames') = Opened(frames) /\ \A i \in Opened(frames) : frames'[i].node = frames[i].node
    <2>1. /\ Opened(frames') = Opened(frames) \cup Opening(routine, Len(frames) + 1)
          /\ \A i \in Opened(frames) : frames'[i].node = frames[i].node
      BY <1>1, <1>3, <1>4, PushOpens
    <2>2. Opening(routine, Len(frames) + 1) = {}
      BY DEF Opening
    <2>3. QED
      BY <2>1, <2>2
  <1>7. Balanced(frames', aliasDepth, aliases)
    BY <1>1, <1>6, BalancedSame
  <1>8. StackInv'
    BY <1>4, <1>5 DEF StackInv, Framed, Nowhere
  <1>9. Balanced(frames, aliasDepth, aliases)'
    BY <1>4, <1>7 DEF Balanced, Opened, Anchor
  <1>10. QED
    BY <1>8, <1>9 DEF WalkInv

\* An anchor is expanded.
LEMMA AliasKeeps ==
  ASSUME WalkInv, visit # Nowhere, ~(visit.depth > MaxDepth), document' = document,
         NEW n, Alias(n)
  PROVE  WalkInv'
  <1>1. CASE Anchor(n) \in aliases
    BY <1>1, NothingKeeps DEF Alias, Fail
  <1>2. CASE Anchor(n) \notin aliases
    <2>1. /\ Framed(frames) /\ visit.depth = Len(frames) /\ Balanced(frames, aliasDepth, aliases)
      BY DEF WalkInv, StackInv
    <2>2. Len(frames) \in Nat /\ MaxDepth \in Nat
      BY <2>1, OpenedFinite, YAMLWalkerAssumption
    <2>3. Len(frames) <= MaxDepth
      BY <2>1, <2>2
    <2>4. /\ Pushed(frames, frames', n, "alias")
          /\ visit' = [node |-> Anchor(n), depth |-> Len(frames) + 1]
          /\ aliasDepth' = aliasDepth + 1 /\ aliases' = aliases \cup {Anchor(n)}
      BY <1>2, <2>1 DEF Alias, Pushed
    <2>5. Framed(frames') /\ Len(frames') = Len(frames) + 1
      BY <2>1, <2>3, <2>4, PushFramed
    <2>6. /\ Opened(frames') = Opened(frames) \cup {Len(frames) + 1}
          /\ frames'[Len(frames) + 1].node = n
          /\ \A i \in Opened(frames) : frames'[i].node = frames[i].node
      <3>1. /\ Opened(frames') = Opened(frames) \cup Opening("alias", Len(frames) + 1)
            /\ frames'[Len(frames) + 1].node = n
            /\ \A i \in Opened(frames) : frames'[i].node = frames[i].node
        BY <2>1, <2>3, <2>4, PushOpens
      <3>2. Opening("alias", Len(frames) + 1) = {Len(frames) + 1}
        BY DEF Opening
      <3>3. QED
        BY <3>1, <3>2
    <2>7. Balanced(frames', aliasDepth', aliases')
      BY <1>2, <2>1, <2>4, <2>6, BalancedMore
    <2>8. visit'.depth = Len(frames')
      BY <2>4, <2>5
    <2>9. StackInv'
      BY <2>5, <2>8 DEF StackInv, Framed
    <2>10. Balanced(frames, aliasDepth, aliases)'
      BY <2>7 DEF Balanced, Opened, Anchor
    <2>11. QED
      BY <2>9, <2>10 DEF WalkInv
  <1>3. QED
    BY <1>1, <1>2

LEMMA NodeKeeps ==
  ASSUME WalkInv, Node
  PROVE  WalkInv'
  <1> DEFINE n == visit.node
  <1>1. visit # Nowhere /\ document' = document
    BY DEF Node, Walking, input
  <1>2. CASE visit.depth > MaxDepth
    <2>1. Fail("depth")
      BY <1>2 DEF Node
    <2>2. QED
      BY <1>1, <2>1, NothingKeeps DEF Fail
  <1>3. CASE ~(visit.depth > MaxDepth) /\ Broke
    <2>1. Fail("aliasing")
      BY <1>3 DEF Node
    <2>2. QED
      BY <1>1, <2>1, NothingKeeps DEF Fail
  <1>4. CASE ~(visit.depth > MaxDepth) /\ ~Broke
    <2>1. CASE Kind(n) = "document"
      <3>1. Push(n, "list", "---")
        BY <1>4, <2>1, Zenon DEF Node
      <3>2. QED
        BY <1>1, <1>4, <3>1, PushKeeps
    <2>2. CASE Kind(n) = "seq"
      <3>1. Push(n, "list", "[")
        BY <1>4, <2>2, Zenon DEF Node
      <3>2. QED
        BY <1>1, <1>4, <3>1, PushKeeps
    <2>3. CASE Kind(n) = "map"
      <3>1. Push(n, "pairs", "{")
        BY <1>4, <2>3, Zenon DEF Node
      <3>2. QED
        BY <1>1, <1>4, <3>1, PushKeeps
    <2>4. CASE Kind(n) = "alias"
      <3>1. Alias(n)
        BY <1>4, <2>4, Zenon DEF Node
      <3>2. QED
        BY <1>1, <1>4, <3>1, AliasKeeps
    <2>5. CASE Kind(n) \notin {"document", "seq", "map", "alias"}
      <3>1. Scalar(n)
        BY <1>4, <2>5, Zenon DEF Node
      <3>2. QED
        BY <1>1, <3>1, NothingKeeps DEF Scalar, Fail
    <2>6. QED
      BY <2>1, <2>2, <2>3, <2>4, <2>5, Zenon
  <1>5. QED
    BY <1>2, <1>3, <1>4

\* A child of the container on top, or the end of it.
LEMMA ChildKeeps ==
  ASSUME WalkInv, frames # <<>>, document' = document, UNCHANGED expansion, NEW step, Child(step)
  PROVE  WalkInv'
  <1>1. Framed(frames) /\ Balanced(frames, aliasDepth, aliases)
    BY DEF WalkInv, StackInv
  <1>2. /\ Advanced(frames, frames', step)
        /\ visit'.depth = Top.depth + 1
        /\ aliasDepth' = aliasDepth /\ aliases' = aliases
    BY DEF Child, expansion, Advanced
  <1>3. /\ Framed(frames') /\ Len(frames') = Len(frames)
        /\ \A i \in 1 .. Len(frames) :
             frames'[i].routine = frames[i].routine /\ frames'[i].node = frames[i].node
    BY <1>1, <1>2, ReadFramed
  <1>4. Opened(frames') = Opened(frames) /\ \A i \in Opened(frames) : frames'[i].node = frames[i].node
    BY <1>3 DEF Opened
  <1>5. Balanced(frames', aliasDepth, aliases)
    BY <1>1, <1>4, BalancedSame
  <1>6. visit'.depth = Len(frames')
    BY <1>1, <1>2, <1>3, TopFacts
  <1>7. StackInv'
    BY <1>3, <1>6 DEF StackInv, Framed
  <1>8. Balanced(frames, aliasDepth, aliases)'
    BY <1>2, <1>5 DEF Balanced, Opened, Anchor
  <1>9. QED
    BY <1>7, <1>8 DEF WalkInv

\* The top is left: a container, or an alias whose anchor is no longer expanded.
LEMMA PopKeeps ==
  ASSUME WalkInv, frames # <<>>, document' = document, frames' = Front(frames),
         visit = Nowhere, visit' = visit,
         IF Top.routine = "alias" THEN Expanded ELSE UNCHANGED expansion
  PROVE  WalkInv'
  <1>1. Framed(frames) /\ Balanced(frames, aliasDepth, aliases)
    BY DEF WalkInv, StackInv
  <1>2. PICK top : top = Len(frames)
    OBVIOUS
  <1>3. Framed(frames')
    BY <1>1, PopFramed
  <1>4. /\ Top = frames[top] /\ Opened(frames') = Opened(frames) \ {top}
        /\ top \in Opened(frames) <=> frames[top].routine = "alias"
        /\ \A i \in Opened(frames') : frames'[i].node = frames[i].node
    BY <1>1, <1>2, PopOpens DEF Top
  <1>5. StackInv'
    BY <1>3 DEF StackInv, Framed
  <1>6. CASE Top.routine = "alias"
    <2>1. aliasDepth' = aliasDepth - 1 /\ aliases' = aliases \ {Anchor(frames[top].node)}
      BY <1>4, <1>6 DEF Expanded
    <2>2. top \in Opened(frames)
      BY <1>4, <1>6
    <2>3. Balanced(frames', aliasDepth', aliases')
      BY <1>1, <1>4, <2>1, <2>2, BalancedLess
    <2>4. Balanced(frames, aliasDepth, aliases)'
      BY <2>3 DEF Balanced, Opened, Anchor
    <2>5. QED
      BY <1>5, <2>4 DEF WalkInv
  <1>7. CASE Top.routine # "alias"
    <2>1. aliasDepth' = aliasDepth /\ aliases' = aliases
      BY <1>7 DEF expansion
    <2>2. Opened(frames') = Opened(frames)
      BY <1>4, <1>7
    <2>3. Balanced(frames', aliasDepth, aliases)
      BY <1>1, <1>4, <2>2, BalancedSame
    <2>4. Balanced(frames, aliasDepth, aliases)'
      BY <2>1, <2>3 DEF Balanced, Opened, Anchor
    <2>5. QED
      BY <1>5, <2>4 DEF WalkInv
  <1>8. QED
    BY <1>6, <1>7

LEMMA NextPairKeeps ==
  ASSUME WalkInv, NextPair
  PROVE  WalkInv'
  <1>1. frames # <<>> /\ document' = document
    BY DEF NextPair, Idle, input
  <1>2. \/ Fail("aliasing") \/ Fail("key") \/ Fail("panic")
        \/ (Child(2) /\ UNCHANGED expansion)
    BY Zenon DEF NextPair
  <1>3. ASSUME NEW e, Fail(e) PROVE WalkInv'
    BY <1>1, <1>3, NothingKeeps DEF Fail
  <1>4. QED
    BY <1>1, <1>2, <1>3, ChildKeeps

LEMMA StoppedStep ==
  ASSUME Stopped, [Next]_vars
  PROVE  Stopped'
  <1>1. CASE Node
    <2>1. err = "none"
      BY <1>1 DEF Node, Walking
    <2>2. visit' = Nowhere \/ err' = err
      BY <1>1, Zenon DEF Node, Fail, Push, Alias, Scalar
    <2>3. QED
      BY <2>1, <2>2 DEF Stopped, Nowhere
  <1>2. CASE NextPair
    <2>1. err = "none"
      BY <1>2 DEF NextPair, Idle
    <2>2. visit' = Nowhere \/ err' = err
      BY <1>2, Zenon DEF NextPair, Fail
    <2>3. QED
      BY <2>1, <2>2 DEF Stopped, Nowhere
  <1>3. CASE NextItem
    BY <1>3 DEF NextItem, Idle, Stopped
  <1>4. CASE Leave \/ LeaveAlias
    BY <1>4 DEF Leave, LeaveAlias, Idle, Stopped, Nowhere
  <1>5. CASE Unwind
    BY <1>5 DEF Unwind, Stopped, Nowhere
  <1>6. CASE UNCHANGED vars
    BY <1>6 DEF vars, Stopped, Nowhere
  <1>7. QED
    BY <1>1, <1>2, <1>3, <1>4, <1>5, <1>6 DEF Next

LEMMA WalkStep ==
  ASSUME WalkInv, Stopped, [Next]_vars
  PROVE  WalkInv'
  <1>1. CASE Node
    BY <1>1, NodeKeeps
  <1>2. CASE NextItem
    <2>1. frames # <<>> /\ document' = document /\ UNCHANGED expansion /\ Child(1)
      BY <1>2 DEF NextItem, Idle, input
    <2>2. QED
      BY <2>1, ChildKeeps
  <1>3. CASE NextPair
    BY <1>3, NextPairKeeps
  <1>4. CASE Leave
    <2>1. /\ frames # <<>> /\ document' = document /\ frames' = Front(frames)
          /\ visit = Nowhere /\ visit' = visit /\ Top.routine # "alias" /\ UNCHANGED expansion
      BY <1>4 DEF Leave, Idle, input
    <2>2. QED
      BY <2>1, PopKeeps
  <1>5. CASE LeaveAlias
    <2>1. /\ frames # <<>> /\ document' = document /\ frames' = Front(frames)
          /\ visit = Nowhere /\ visit' = visit /\ Top.routine = "alias" /\ Expanded
      BY <1>5 DEF LeaveAlias, Idle, input
    <2>2. QED
      BY <2>1, PopKeeps
  <1>6. CASE Unwind
    <2>1. /\ frames # <<>> /\ document' = document /\ frames' = Front(frames) /\ visit' = visit
          /\ IF Top.routine = "alias" THEN Expanded ELSE UNCHANGED expansion
      BY <1>6 DEF Unwind, input
    <2>2. visit = Nowhere
      BY <1>6 DEF Unwind, Stopped
    <2>3. QED
      BY <2>1, <2>2, PopKeeps
  <1>7. CASE UNCHANGED vars
    <2>1. UNCHANGED <<document, frames, expansion>> /\ visit' = visit
      BY <1>7 DEF vars, input
    <2>2. QED
      BY <2>1, NothingKeeps
  <1>8. QED
    BY <1>1, <1>2, <1>3, <1>4, <1>5, <1>6, <1>7 DEF Next

LEMMA WalkStart ==
  ASSUME Init
  PROVE  WalkInv /\ Stopped
  <1>1. aliasDepth = 0 /\ aliases = {} /\ err = "none"
    BY DEF Init, YAMLToJSON, UnmarshalYAML, Start
  <1>2. MaxDepth \in Nat
    BY YAMLWalkerAssumption
  <1>3. CASE YAMLToJSON
    <2>1. frames = <<>> /\ visit.depth = 0
      BY <1>3 DEF YAMLToJSON
    <2>2. Framed(frames)
      BY <1>2, <2>1 DEF Framed
    <2>3. Opened(frames) = {}
      BY <2>1 DEF Opened
    <2>4. Len(frames) = 0
      BY <2>1
    <2>5. QED
      BY <1>1, <2>1, <2>2, <2>3, <2>4, FS_EmptySet DEF WalkInv, StackInv, Balanced, Stopped
  <1>4. CASE UnmarshalYAML
    <2> DEFINE f == Frame(Content(document.root)[1], "pairs", 0)
    <2>1. frames = <<f>> /\ visit = Nowhere
      BY <1>4 DEF UnmarshalYAML
    <2>2. f.routine = "pairs" /\ f = [node |-> f.node, routine |-> f.routine, at |-> f.at, depth |-> 0]
      BY DEF Frame
    <2> HIDE DEF f
    <2>3. Len(frames) = 1 /\ frames[1] = f /\ DOMAIN frames = {1}
      BY <2>1
    <2>4. frames \in Seq({f}) /\ {frames[i] : i \in DOMAIN frames} = {f}
      BY <2>1, <2>3
    <2>5. Framed(frames)
      BY <1>2, <2>2, <2>3, <2>4 DEF Framed
    <2>6. Opened(frames) = {}
      BY <2>2, <2>3 DEF Opened
    <2>7. QED
      BY <1>1, <2>1, <2>5, <2>6, FS_EmptySet DEF WalkInv, StackInv, Balanced, Stopped
  <1>5. QED
    BY <1>3, <1>4 DEF Init

-----------------------------------------------------------------------------
(* Recursion *)

\* A set of numbers has a least one.
LEMMA LeastNumber ==
  ASSUME NEW S, S \subseteq Nat, S # {}
  PROVE  \E i \in S : \A j \in S : i <= j
  <1>1. PICK i \in S : \A j \in S : <<j, i>> \notin OpToRel(<, Nat)
    BY NatLessThanWellFounded, WFMin
  <1>2. \A j \in S : ~(j < i)
    BY <1>1 DEF OpToRel
  <1>3. QED
    BY <1>2

\* What holds of 0 and of the next number holds of all.
LEMMA Induction ==
  ASSUME NEW m \in Nat, NEW S, 0 \in S, \A k \in 1 .. m : k - 1 \in S => k \in S
  PROVE  \A k \in 0 .. m : k \in S
  <1> DEFINE bad == (0 .. m) \ S
  <1>1. SUFFICES ASSUME bad # {} PROVE FALSE
    OBVIOUS
  <1>0. bad \subseteq Nat
    OBVIOUS
  <1>2. PICK k \in bad : \A j \in bad : k <= j
    BY <1>0, <1>1, LeastNumber
  <1>3. k # 0
    BY <1>2
  <1>4. k \in 1 .. m /\ k - 1 \in 0 .. m /\ k - 1 \notin bad
    BY <1>2, <1>3
  <1>5. QED
    BY <1>2, <1>4

\* f starts from z and goes on by the steps g.
Iterates(f, S, z, m, g) ==
  f \in [0 .. m -> S] /\ f[0] = z /\ \A k \in 1 .. m : f[k] = g[k][f[k - 1]]

\* Such an f exists.
LEMMA Iterated ==
  ASSUME NEW S, NEW z \in S, NEW m \in Nat, NEW g \in [1 .. m -> [S -> S]]
  PROVE  \E f : Iterates(f, S, z, m, g)
  <1> DEFINE good == {k \in 0 .. m : \E f : Iterates(f, S, z, k, g)}
  <1>1. 0 \in good
    <2>1. Iterates([k \in 0 .. 0 |-> z], S, z, 0, g)
      BY DEF Iterates
    <2>2. QED
      BY <2>1
  <1>2. ASSUME NEW k \in 1 .. m, k - 1 \in good PROVE k \in good
    <2>1. PICK f : Iterates(f, S, z, k - 1, g)
      BY <1>2
    <2> DEFINE h == [j \in 0 .. k |-> IF j = k THEN g[k][f[k - 1]] ELSE f[j]]
    <2>2. f \in [0 .. k - 1 -> S] /\ f[0] = z /\ \A j \in 1 .. k - 1 : f[j] = g[j][f[j - 1]]
      BY <2>1 DEF Iterates
    <2>3. g[k] \in [S -> S] /\ f[k - 1] \in S /\ g[k][f[k - 1]] \in S
      BY <2>2
    <2>4. h \in [0 .. k -> S] /\ h[0] = z
      BY <2>2, <2>3
    <2>5. \A j \in 1 .. k : h[j] = g[j][h[j - 1]]
      BY <2>2
    <2>6. Iterates(h, S, z, k, g)
      BY <2>4, <2>5 DEF Iterates
    <2>7. QED
      BY <2>6
  <1> HIDE DEF good
  <1>3. m \in good
    <2>1. m \in 0 .. m
      OBVIOUS
    <2>2. QED
      BY <1>1, <1>2, <2>1, Induction
  <1>4. QED
    BY <1>3 DEF good

\* Sequences of sequences, one after the other.
LEMMA Flattened ==
  ASSUME NEW T, NEW n \in Nat, NEW s \in [1 .. n -> Seq(T)], NEW f \in [0 .. n -> Seq(T)],
         f[0] = <<>>, \A k \in 1 .. n : f[k] = f[k - 1] \o s[k]
  PROVE  FlattenSeq(s) = f[n]
  <1>1. s \in Seq(Seq(T)) /\ Len(s) = n
    BY FunctionSeq
  <1>2. CASE n = 0
    <2>1. s = <<>>
      BY <1>1, <1>2, EmptySeq
    <2>2. QED
      BY <1>1, <1>2, <2>1 DEF FlattenSeq
  <1>3. CASE n # 0
    <2> DEFINE F(h) == [i \in 1 .. n |-> IF i = 1 THEN s[i] ELSE h[i - 1] \o s[i]]
               h == [i \in 1 .. n |-> f[i]]
               c == CHOOSE x : x = F(x)
    <2>1. h = F(h)
      <3>1. \A i \in 1 .. n : h[i] = IF i = 1 THEN s[i] ELSE h[i - 1] \o s[i]
        <4>1. f[1] = s[1]
          <5>1. 1 \in 1 .. n /\ 1 - 1 = 0
            BY <1>3
          <5>2. s[1] \in Seq(T) /\ f[1] = f[1 - 1] \o s[1]
            BY <5>1
          <5>3. QED
            BY <5>1, <5>2, ConcatEmptySeq
        <4>2. \A i \in 1 .. n : i # 1 => i - 1 \in 1 .. n /\ h[i - 1] = f[i - 1]
          OBVIOUS
        <4>3. \A i \in 1 .. n : h[i] = f[i] /\ f[i] = f[i - 1] \o s[i]
          OBVIOUS
        <4> HIDE DEF h
        <4>4. QED
          BY <4>1, <4>2, <4>3
      <3>2. QED
        BY <3>1
    <2>2. c = F(c)
      BY <2>1
    <2>3. FlattenSeq(s) = c[n]
      BY <1>1, <1>3 DEF FlattenSeq
    <2> HIDE DEF c
    <2> DEFINE good == {k \in 0 .. n : k = 0 \/ c[k] = f[k]}
    <2>4. ASSUME NEW k \in 1 .. n, k - 1 \in good PROVE k \in good
      <3>1. c[k] = IF k = 1 THEN s[k] ELSE c[k - 1] \o s[k]
        BY <2>2
      <3>2. h[k] = IF k = 1 THEN s[k] ELSE h[k - 1] \o s[k]
        BY <2>1
      <3>3. k = 1 \/ c[k - 1] = f[k - 1]
        BY <2>4
      <3>4. c[k] = h[k]
        <4>1. CASE k = 1
          BY <3>1, <3>2, <4>1
        <4>2. CASE k # 1
          <5>1. h[k - 1] = f[k - 1] /\ k - 1 \in 1 .. n
            BY <4>2
          <5> HIDE DEF h
          <5>2. QED
            BY <3>1, <3>2, <3>3, <4>2, <5>1
        <4>3. QED
          BY <4>1, <4>2
      <3>5. QED
        BY <3>4
    <2>5. 0 \in good
      OBVIOUS
    <2>a. good = {k \in 0 .. n : k = 0 \/ c[k] = f[k]}
      OBVIOUS
    <2> HIDE DEF good
    <2>6. n \in good
      <3>1. n \in 0 .. n
        OBVIOUS
      <3>2. QED
        BY <2>4, <2>5, <3>1, Induction
    <2>7. QED
      BY <1>3, <2>3, <2>6, <2>a
  <1>4. QED
    BY <1>2, <1>3

\* One sequence more.
LEMMA FlattenMore ==
  ASSUME NEW T, NEW n \in Nat, NEW s \in [1 .. n + 1 -> Seq(T)]
  PROVE  /\ FlattenSeq([i \in 1 .. n |-> s[i]]) \in Seq(T)
         /\ FlattenSeq(s) = FlattenSeq([i \in 1 .. n |-> s[i]]) \o s[n + 1]
  <1> DEFINE g == [k \in 1 .. n + 1 |-> [x \in Seq(T) |-> x \o s[k]]]
  <1>1. g \in [1 .. n + 1 -> [Seq(T) -> Seq(T)]]
    BY ConcatProperties
  <1>2. <<>> \in Seq(T)
    BY EmptySeq
  <1>a. \A k \in 1 .. n + 1, x \in Seq(T) : g[k][x] = x \o s[k]
    OBVIOUS
  <1>b. n + 1 \in Nat /\ n + 1 \in 1 .. n + 1
    OBVIOUS
  <1> HIDE DEF g
  <1>3. PICK f : Iterates(f, Seq(T), <<>>, n + 1, g)
    BY <1>1, <1>2, <1>b, Iterated
  <1>4. f \in [0 .. n + 1 -> Seq(T)] /\ f[0] = <<>> /\ \A k \in 1 .. n + 1 : f[k] = g[k][f[k - 1]]
    BY <1>3 DEF Iterates
  <1>5. \A k \in 1 .. n + 1 : f[k] = f[k - 1] \o s[k]
    <2>1. \A k \in 1 .. n + 1 : f[k - 1] \in Seq(T)
      BY <1>4
    <2>2. QED
      BY <1>4, <1>a, <2>1
  <1>6. FlattenSeq(s) = f[n + 1]
    BY <1>4, <1>5, <1>b, Flattened
  <1> DEFINE t == [i \in 1 .. n |-> s[i]]
             e == [k \in 0 .. n |-> f[k]]
  <1>7. t \in [1 .. n -> Seq(T)] /\ e \in [0 .. n -> Seq(T)] /\ e[0] = <<>> /\ e[n] = f[n]
    BY <1>4
  <1>8. \A k \in 1 .. n : e[k] = e[k - 1] \o t[k]
    BY <1>5
  <1> HIDE DEF t, e
  <1>9. FlattenSeq(t) = f[n]
    BY <1>7, <1>8, Flattened
  <1>10. f[n] \in Seq(T) /\ f[n + 1] = f[n] \o s[n + 1]
    <2>1. n + 1 - 1 = n /\ n \in 0 .. n + 1
      OBVIOUS
    <2>2. \A k \in 1 .. n + 1 : k = n + 1 => k - 1 = n
      OBVIOUS
    <2>3. \A k \in 1 .. n + 1 : k = n + 1 => f[k] = f[n] \o s[k]
      BY <1>5, <2>2
    <2>4. QED
      BY <1>4, <1>b, <2>1, <2>3
  <1>11. QED
    BY <1>6, <1>9, <1>10 DEF t

-----------------------------------------------------------------------------
(* Documents *)

LEMMA DocumentFacts ==
  ASSUME IsDocument(document)
  PROVE  /\ IsFiniteSet(Nodes) /\ 0 \notin Nodes /\ document.root \in Nodes
         /\ \A n \in Nodes :
              /\ Kind(n) \in {"document", "seq", "map", "scalar", "bad", "alias"}
              /\ Content(n) \in Seq(Nodes)
              /\ Kind(n) = "alias" => Anchor(n) \in Nodes
              /\ Kind(n) \in {"scalar", "bad", "alias"} => Content(n) = <<>>
              /\ Kind(n) = "map" => Len(Content(n)) % 2 = 0
         /\ Kind(document.root) = "document" /\ Len(Content(document.root)) = 1
         /\ Content(document.root)[1] \in Nodes
  <1>1. /\ IsFiniteSet(Nodes) /\ 0 \notin Nodes /\ document.root \in Nodes
        /\ \A n \in Nodes :
             /\ Kind(n) \in {"document", "seq", "map", "scalar", "bad", "alias"}
             /\ Content(n) \in Seq(Nodes)
             /\ Kind(n) = "alias" => Anchor(n) \in Nodes
             /\ Kind(n) \in {"scalar", "bad", "alias"} => Content(n) = <<>>
             /\ Kind(n) = "map" => Len(Content(n)) % 2 = 0
        /\ Kind(document.root) = "document" /\ Len(Content(document.root)) = 1
    BY DEF IsDocument, Nodes, Kind, Content, Anchor
  <1>2. Content(document.root)[1] \in Nodes
    BY <1>1, ElementOfSeq
  <1>3. QED
    BY <1>1, <1>2

LEMMA ContentFacts ==
  ASSUME IsDocument(document), NEW n \in Nodes
  PROVE  /\ Len(Content(n)) \in Nat /\ DOMAIN Content(n) = 1 .. Len(Content(n))
         /\ \A i \in 1 .. Len(Content(n)) : Content(n)[i] \in Nodes
  <1>1. Content(n) \in Seq(Nodes)
    BY DocumentFacts
  <1>2. QED
    BY <1>1, LenProperties

Tokens == Nodes \cup {"---", "[", "{", "end"}

\* The token a container starts with.
Opens(n) == CASE Kind(n) = "document" -> "---" [] Kind(n) = "seq" -> "[" [] OTHER -> "{"

\* What node n stands for, given what the nodes do one level down.
LevelAt(e, n) ==
  LET items == [i \in DOMAIN Content(n) |-> e[Content(n)[i]]] IN
    CASE Kind(n) \in {"scalar", "bad"} -> <<n>>
      [] Kind(n) = "alias" -> e[Anchor(n)]
      [] Kind(n) = "document" -> <<"---">> \o FlattenSeq(items) \o <<"end">>
      [] Kind(n) = "seq" -> <<"[">> \o FlattenSeq(items) \o <<"end">>
      [] Kind(n) = "map" -> <<"{">> \o FlattenSeq(items) \o <<"end">>

Level(e) == [n \in Nodes |-> LevelAt(e, n)]

LEMMA FlattenTyped ==
  ASSUME NEW T, NEW n \in Nat, NEW s \in [1 .. n -> Seq(T)]
  PROVE  FlattenSeq(s) \in Seq(T)
  <1> DEFINE u == [i \in 1 .. n + 1 |-> IF i = n + 1 THEN <<>> ELSE s[i]]
  <1>1. u \in [1 .. n + 1 -> Seq(T)] /\ s = [i \in 1 .. n |-> u[i]]
    BY EmptySeq
  <1> HIDE DEF u
  <1>2. QED
    BY <1>1, FlattenMore

LEMMA LevelIs ==
  ASSUME IsDocument(document), NEW e \in [Nodes -> Seq(Tokens)], NEW n \in Nodes
  PROVE  /\ LevelAt(e, n) \in Seq(Tokens)
         /\ Kind(n) \in {"scalar", "bad"} => LevelAt(e, n) = <<n>>
         /\ Kind(n) = "alias" => LevelAt(e, n) = e[Anchor(n)]
         /\ Kind(n) \in {"document", "seq", "map"} =>
              LevelAt(e, n) = <<Opens(n)>> \o FlattenSeq([i \in 1 .. Len(Content(n)) |-> e[Content(n)[i]]])
                                           \o <<"end">>
  <1> DEFINE items == [i \in DOMAIN Content(n) |-> e[Content(n)[i]]]
             length == Len(Content(n))
  <1>1. DOMAIN Content(n) = 1 .. length /\ length \in Nat
    BY ContentFacts
  <1>2. items \in [1 .. length -> Seq(Tokens)]
    BY <1>1, ContentFacts
  <1>3. FlattenSeq(items) \in Seq(Tokens)
    <2> HIDE DEF items, length
    <2>1. QED
      BY <1>1, <1>2, FlattenTyped
  <1>4. items = [i \in 1 .. length |-> e[Content(n)[i]]]
    BY <1>1
  <1>5. LevelAt(e, n) = CASE Kind(n) \in {"scalar", "bad"} -> <<n>>
                          [] Kind(n) = "alias" -> e[Anchor(n)]
                          [] Kind(n) = "document" -> <<"---">> \o FlattenSeq(items) \o <<"end">>
                          [] Kind(n) = "seq" -> <<"[">> \o FlattenSeq(items) \o <<"end">>
                          [] Kind(n) = "map" -> <<"{">> \o FlattenSeq(items) \o <<"end">>
    BY DEF LevelAt
  <1> HIDE DEF items
  <1>6. <<Opens(n)>> \in Seq(Tokens) /\ <<"end">> \in Seq(Tokens) /\ <<n>> \in Seq(Tokens)
    <2>1. Opens(n) \in Tokens /\ "end" \in Tokens /\ n \in Tokens
      BY DEF Opens, Tokens
    <2>2. QED
      BY <2>1
  <1>7. <<Opens(n)>> \o FlattenSeq(items) \o <<"end">> \in Seq(Tokens)
    BY <1>3, <1>6, ConcatProperties
  <1>8. Kind(n) \in {"document", "seq", "map"} =>
          LevelAt(e, n) = <<Opens(n)>> \o FlattenSeq(items) \o <<"end">>
    BY <1>5 DEF Opens
  <1>9. Kind(n) = "alias" => e[Anchor(n)] \in Seq(Tokens) /\ LevelAt(e, n) = e[Anchor(n)]
    BY <1>5, DocumentFacts
  <1>10. Kind(n) \in {"scalar", "bad"} => LevelAt(e, n) = <<n>>
    BY <1>5
  <1>11. Kind(n) \in {"document", "seq", "map", "scalar", "bad", "alias"}
    BY DocumentFacts
  <1>12. LevelAt(e, n) \in Seq(Tokens)
    BY <1>6, <1>7, <1>8, <1>9, <1>10, <1>11
  <1>13. QED
    BY <1>4, <1>8, <1>9, <1>10, <1>12

LEMMA LevelTyped ==
  ASSUME IsDocument(document), NEW e \in [Nodes -> Seq(Tokens)]
  PROVE  Level(e) \in [Nodes -> Seq(Tokens)]
  BY LevelIs DEF Level

\* The recursion has a solution, and it is Expansion.
LEMMA ExpansionIs ==
  ASSUME IsDocument(document)
  PROVE  /\ Expansion \in [0 .. MaxDepth + 1 -> [Nodes -> Seq(Tokens)]]
         /\ \A k \in 1 .. MaxDepth + 1 : Expansion[k] = Level(Expansion[k - 1])
  <1> DEFINE S == [Nodes -> Seq(Tokens)]
             z == [n \in Nodes |-> <<>>]
             m == MaxDepth + 1
             g == [k \in 1 .. m |-> [e \in S |-> Level(e)]]
             F(f) == [k \in 0 .. m |-> [n \in Nodes |-> IF k = 0 THEN <<>> ELSE LevelAt(f[k - 1], n)]]
  <1>1. m \in Nat
    BY YAMLWalkerAssumption
  <1>2. z \in S
    BY EmptySeq
  <1>a. \A k \in 1 .. m, e \in S : g[k][e] = Level(e)
    OBVIOUS
  <1>3. g \in [1 .. m -> [S -> S]]
    BY LevelTyped
  <1>6. \A h : \A k \in 0 .. m : F(h)[k] = IF k = 0 THEN z ELSE Level(h[k - 1])
    <2>1. ASSUME NEW h, NEW k \in 0 .. m PROVE F(h)[k] = IF k = 0 THEN z ELSE Level(h[k - 1])
      <3>1. F(h)[k] = [n \in Nodes |-> IF k = 0 THEN <<>> ELSE LevelAt(h[k - 1], n)]
        OBVIOUS
      <3>2. CASE k = 0
        BY <3>1, <3>2
      <3>3. CASE k # 0
        BY <3>1, <3>3 DEF Level
      <3>4. QED
        BY <3>2, <3>3
    <2>2. QED
      BY <2>1
  <1>7. \A h : F(h) = [k \in 0 .. m |-> F(h)[k]]
    OBVIOUS
  <1>8. Expansion = CHOOSE h : h = F(h)
    BY DEF Expansion, LevelAt
  <1> HIDE DEF F, g, S, z, m
  <1>4. PICK f : Iterates(f, S, z, m, g)
    BY <1>1, <1>2, <1>3, Iterated
  <1>b. f \in [0 .. m -> S] /\ f[0] = z /\ \A k \in 1 .. m : f[k] = g[k][f[k - 1]]
    BY <1>1, <1>4 DEF Iterates
  <1>c. \A k \in 1 .. m : k - 1 \in 0 .. m /\ f[k - 1] \in S
    BY <1>1, <1>b
  <1>5. \A k \in 1 .. m : f[k] = Level(f[k - 1])
    BY <1>a, <1>b, <1>c
  <1>9. f = F(f)
    <2>1. f = [k \in 0 .. m |-> f[k]]
      BY <1>b
    <2>2. \A k \in 0 .. m : f[k] = F(f)[k]
      <3>1. \A k \in 0 .. m : k = 0 \/ k \in 1 .. m
        BY <1>1
      <3>2. QED
        BY <1>b, <1>5, <1>6, <3>1
    <2>3. QED
      BY <1>7, <2>1, <2>2
  <1>10. Expansion = F(Expansion)
    BY <1>8, <1>9
  <1>11. \A k \in 0 .. m : Expansion[k] = IF k = 0 THEN z ELSE Level(Expansion[k - 1])
    BY <1>6, <1>10
  <1> DEFINE good == {k \in 0 .. m : Expansion[k] = f[k]}
  <1>12. 0 \in good
    BY <1>1, <1>b, <1>11
  <1>13. ASSUME NEW k \in 1 .. m, k - 1 \in good PROVE k \in good
    <2>1. k \in 0 .. m /\ k # 0 /\ Expansion[k - 1] = f[k - 1]
      BY <1>1, <1>13
    <2>2. QED
      BY <1>5, <1>11, <2>1
  <1>14. \A k \in 0 .. m : k \in good => Expansion[k] = f[k]
    OBVIOUS
  <1> HIDE DEF good
  <1>d. \A k \in 0 .. m : Expansion[k] = f[k]
    BY <1>1, <1>12, <1>13, <1>14, Induction
  <1>15. Expansion = [k \in 0 .. m |-> Expansion[k]]
    BY <1>7, <1>10
  <1>16. Expansion \in [0 .. m -> S]
    BY <1>b, <1>d, <1>15
  <1>17. \A k \in 1 .. m : Expansion[k] = Level(Expansion[k - 1])
    BY <1>1, <1>11
  <1>18. QED
    BY <1>16, <1>17 DEF S, m

-----------------------------------------------------------------------------
(* What lies below a node *)

\* One level further down than e says.
Further(e) == [n \in Nodes |-> Below(n) \cup UNION {e[m] : m \in Below(n)}]

LEMMA BelowTyped ==
  ASSUME IsDocument(document), NEW n \in Nodes
  PROVE  /\ Below(n) \subseteq Nodes
         /\ \A i \in 1 .. Len(Content(n)) : Kind(n) # "alias" => Content(n)[i] \in Below(n)
         /\ Kind(n) # "alias" => \A m \in Below(n) : \E i \in 1 .. Len(Content(n)) : m = Content(n)[i]
  <1>1. /\ DOMAIN Content(n) = 1 .. Len(Content(n))
        /\ \A i \in 1 .. Len(Content(n)) : Content(n)[i] \in Nodes
    BY ContentFacts
  <1>2. Kind(n) = "alias" => Anchor(n) \in Nodes
    BY DocumentFacts
  <1>3. QED
    BY <1>1, <1>2 DEF Below, ToSet

LEMMA DownToIs ==
  ASSUME IsDocument(document), NEW c, c = Cardinality(Nodes)
  PROVE  /\ c \in Nat \ {0}
         /\ DownTo \in [0 .. c -> [Nodes -> SUBSET Nodes]]
         /\ \A n \in Nodes : DownTo[0][n] = {}
         /\ \A k \in 1 .. c : \A n \in Nodes :
              DownTo[k][n] = Below(n) \cup UNION {DownTo[k - 1][m] : m \in Below(n)}
  <1> DEFINE S == [Nodes -> SUBSET Nodes]
             z == [n \in Nodes |-> {}]
             g == [k \in 1 .. c |-> [e \in S |-> Further(e)]]
             F(f) == [k \in 0 .. c |-> [n \in Nodes |->
                        IF k = 0 THEN {} ELSE Below(n) \cup UNION {f[k - 1][m] : m \in Below(n)}]]
  <1>1. c \in Nat \ {0}
    <2>1. IsFiniteSet(Nodes) /\ Nodes # {}
      BY DocumentFacts
    <2>2. QED
      BY <2>1, FS_CardinalityType, FS_EmptySet
  <1>2. z \in S
    OBVIOUS
  <1>3. g \in [1 .. c -> [S -> S]]
    <2>1. ASSUME NEW e \in S PROVE Further(e) \in S
      <3>1. \A n \in Nodes : Below(n) \cup UNION {e[m] : m \in Below(n)} \subseteq Nodes
        BY BelowTyped
      <3>2. QED
        BY <3>1 DEF Further
    <2>2. QED
      BY <2>1
  <1>4. \A k \in 1 .. c, e \in S : g[k][e] = Further(e)
    OBVIOUS
  <1>5. \A h : \A k \in 0 .. c : F(h)[k] = IF k = 0 THEN z ELSE Further(h[k - 1])
    <2>1. ASSUME NEW h, NEW k \in 0 .. c PROVE F(h)[k] = IF k = 0 THEN z ELSE Further(h[k - 1])
      <3>1. F(h)[k] = [n \in Nodes |-> IF k = 0 THEN {} ELSE Below(n) \cup UNION {h[k - 1][m] : m \in Below(n)}]
        OBVIOUS
      <3>2. CASE k = 0
        BY <3>1, <3>2
      <3>3. CASE k # 0
        BY <3>1, <3>3 DEF Further
      <3>4. QED
        BY <3>2, <3>3
    <2>2. QED
      BY <2>1
  <1>6. \A h : F(h) = [k \in 0 .. c |-> F(h)[k]]
    OBVIOUS
  <1>7. DownTo = CHOOSE h : h = F(h)
    BY DEF DownTo
  <1>z. \A n \in Nodes : z[n] = {}
    OBVIOUS
  <1> HIDE DEF F, g, S, z
  <1>8. PICK f : Iterates(f, S, z, c, g)
    BY <1>1, <1>2, <1>3, Iterated
  <1>9. f \in [0 .. c -> S] /\ f[0] = z /\ \A k \in 1 .. c : f[k] = g[k][f[k - 1]]
    BY <1>1, <1>8 DEF Iterates
  <1>10. \A k \in 1 .. c : k - 1 \in 0 .. c /\ f[k - 1] \in S
    BY <1>1, <1>9
  <1>11. \A k \in 1 .. c : f[k] = Further(f[k - 1])
    BY <1>4, <1>9, <1>10
  <1>12. f = F(f)
    <2>1. f = [k \in 0 .. c |-> f[k]]
      BY <1>9
    <2>2. \A k \in 0 .. c : f[k] = F(f)[k]
      <3>1. \A k \in 0 .. c : k = 0 \/ k \in 1 .. c
        BY <1>1
      <3>2. QED
        BY <1>5, <1>9, <1>11, <3>1
    <2>3. QED
      BY <1>6, <2>1, <2>2
  <1>13. DownTo = F(DownTo)
    BY <1>7, <1>12
  <1>14. \A k \in 0 .. c : DownTo[k] = IF k = 0 THEN z ELSE Further(DownTo[k - 1])
    BY <1>5, <1>13
  <1> DEFINE good == {k \in 0 .. c : DownTo[k] = f[k]}
  <1>15. 0 \in good
    BY <1>1, <1>9, <1>14
  <1>16. ASSUME NEW k \in 1 .. c, k - 1 \in good PROVE k \in good
    <2>1. k \in 0 .. c /\ k # 0 /\ DownTo[k - 1] = f[k - 1]
      BY <1>1, <1>16
    <2>2. QED
      BY <1>11, <1>14, <2>1
  <1>17. \A k \in 0 .. c : k \in good => DownTo[k] = f[k]
    OBVIOUS
  <1> HIDE DEF good
  <1>18. \A k \in 0 .. c : DownTo[k] = f[k]
    BY <1>1, <1>15, <1>16, <1>17, Induction
  <1>19. DownTo = [k \in 0 .. c |-> DownTo[k]]
    BY <1>6, <1>13
  <1>20. DownTo \in [0 .. c -> S]
    BY <1>9, <1>18, <1>19
  <1>21. \A k \in 1 .. c : DownTo[k] = Further(DownTo[k - 1])
    BY <1>1, <1>14
  <1>22. \A k \in 1 .. c : \A n \in Nodes :
           DownTo[k][n] = Below(n) \cup UNION {DownTo[k - 1][m] : m \in Below(n)}
    BY <1>21 DEF Further
  <1>23. \A n \in Nodes : DownTo[0][n] = {}
    BY <1>1, <1>14, <1>z
  <1>24. QED
    BY <1>1, <1>20, <1>22, <1>23 DEF S

\* The same from the other end.
LEMMA DownOnce ==
  ASSUME IsDocument(document), NEW c, c = Cardinality(Nodes)
  PROVE  \A k \in 1 .. c : \A n \in Nodes :
           DownTo[k][n] = Below(n) \cup UNION {Below(x) : x \in DownTo[k - 1][n]}
  <1> DEFINE good == {k \in 0 .. c : k = 0 \/ \A n \in Nodes :
                        DownTo[k][n] = Below(n) \cup UNION {Below(x) : x \in DownTo[k - 1][n]}}
  <1>1. /\ c \in Nat \ {0}
        /\ \A n \in Nodes : DownTo[0][n] = {} /\ Below(n) \subseteq Nodes
        /\ \A k \in 1 .. c : \A n \in Nodes :
             DownTo[k][n] = Below(n) \cup UNION {DownTo[k - 1][m] : m \in Below(n)}
    BY DownToIs, BelowTyped
  <1>2. 0 \in good
    BY <1>1
  <1>3. ASSUME NEW k \in 1 .. c, k - 1 \in good PROVE k \in good
    <2>1. CASE k = 1
      <3>1. \A n \in Nodes : DownTo[k][n] = Below(n) \cup UNION {DownTo[k - 1][m] : m \in Below(n)}
        BY <1>1
      <3>2. \A n \in Nodes : DownTo[k - 1][n] = {}
        <4>1. k - 1 = 0
          BY <2>1
        <4>2. QED
          BY <1>1, <4>1
      <3>3. ASSUME NEW n \in Nodes PROVE DownTo[k][n] = Below(n)
        <4>1. \A m \in Below(n) : DownTo[k - 1][m] = {}
          BY <1>1, <3>2
        <4>2. UNION {DownTo[k - 1][m] : m \in Below(n)} = {}
          BY <4>1
        <4>3. QED
          BY <3>1, <4>2
      <3>4. QED
        BY <3>2, <3>3
    <2>2. CASE k # 1
      <3>1. k - 1 \in 1 .. c /\ k - 1 # 0
        BY <1>1, <2>2
      <3>2. \A n \in Nodes : DownTo[k - 1][n] = Below(n) \cup UNION {Below(x) : x \in DownTo[k - 1 - 1][n]}
        BY <1>3, <3>1
      <3>3. \A n \in Nodes : DownTo[k - 1][n] = Below(n) \cup UNION {DownTo[k - 1 - 1][m] : m \in Below(n)}
        BY <1>1, <3>1
      <3>4. \A n \in Nodes : DownTo[k][n] = Below(n) \cup UNION {DownTo[k - 1][m] : m \in Below(n)}
        BY <1>1
      <3>5. ASSUME NEW n \in Nodes, NEW x
            PROVE  x \in DownTo[k][n] <=> x \in Below(n) \cup UNION {Below(y) : y \in DownTo[k - 1][n]}
        <4>1. x \in DownTo[k][n] <=> x \in Below(n) \/ \E m \in Below(n) : x \in DownTo[k - 1][m]
          BY <3>4
        <4>2. \A m \in Below(n) : x \in DownTo[k - 1][m] <=>
                 x \in Below(m) \/ \E y \in DownTo[k - 1 - 1][m] : x \in Below(y)
          BY <1>1, <3>2
        <4>3. \A y : y \in DownTo[k - 1][n] <=> y \in Below(n) \/ \E m \in Below(n) : y \in DownTo[k - 1 - 1][m]
          BY <3>3
        <4>4. QED
          BY <4>1, <4>2, <4>3
      <3>6. \A n \in Nodes : DownTo[k][n] = Below(n) \cup UNION {Below(y) : y \in DownTo[k - 1][n]}
        BY <3>5
      <3>7. QED
        BY <3>6
    <2>3. QED
      BY <2>1, <2>2
  <1>4. \A k \in 1 .. c : k \in 0 .. c /\ k # 0
    BY <1>1
  <1>5. \A k \in 0 .. c : k \in good => k = 0 \/ \A n \in Nodes :
                        DownTo[k][n] = Below(n) \cup UNION {Below(x) : x \in DownTo[k - 1][n]}
    OBVIOUS
  <1> HIDE DEF good
  <1>6. \A k \in 0 .. c : k \in good
    BY <1>1, <1>2, <1>3, Induction
  <1>7. QED
    BY <1>4, <1>5, <1>6

LEMMA DownGrows ==
  ASSUME IsDocument(document), NEW c, c = Cardinality(Nodes)
  PROVE  \A k \in 1 .. c : \A n \in Nodes : DownTo[k - 1][n] \subseteq DownTo[k][n]
  <1> DEFINE good == {k \in 0 .. c : k = 0 \/ \A n \in Nodes : DownTo[k - 1][n] \subseteq DownTo[k][n]}
  <1>1. /\ c \in Nat \ {0}
        /\ \A n \in Nodes : DownTo[0][n] = {} /\ Below(n) \subseteq Nodes
        /\ \A k \in 1 .. c : \A n \in Nodes :
             DownTo[k][n] = Below(n) \cup UNION {DownTo[k - 1][m] : m \in Below(n)}
    BY DownToIs, BelowTyped
  <1>2. 0 \in good
    BY <1>1
  <1>3. ASSUME NEW k \in 1 .. c, k - 1 \in good PROVE k \in good
    <2>1. CASE k = 1
      <3>1. 1 - 1 = 0
        OBVIOUS
      <3>2. \A n \in Nodes : DownTo[k - 1][n] = {}
        BY <1>1, <2>1, <3>1
      <3>3. QED
        BY <3>2
    <2>2. CASE k # 1
      <3>1. k - 1 \in 1 .. c /\ k - 1 # 0
        BY <1>1, <2>2
      <3>2. \A n \in Nodes : DownTo[k - 1 - 1][n] \subseteq DownTo[k - 1][n]
        BY <1>3, <3>1
      <3>3. \A n \in Nodes : DownTo[k - 1][n] = Below(n) \cup UNION {DownTo[k - 1 - 1][m] : m \in Below(n)}
        BY <1>1, <3>1
      <3>4. \A n \in Nodes : DownTo[k][n] = Below(n) \cup UNION {DownTo[k - 1][m] : m \in Below(n)}
        BY <1>1
      <3>5. ASSUME NEW n \in Nodes PROVE DownTo[k - 1][n] \subseteq DownTo[k][n]
        <4>1. \A m \in Below(n) : DownTo[k - 1 - 1][m] \subseteq DownTo[k - 1][m]
          BY <1>1, <3>2
        <4>2. QED
          BY <3>3, <3>4, <4>1
      <3>6. QED
        BY <3>5
    <2>3. QED
      BY <2>1, <2>2
  <1>4. \A k \in 1 .. c : k \in 0 .. c /\ k # 0
    BY <1>1
  <1>5. \A k \in 0 .. c : k \in good => k = 0 \/ \A n \in Nodes : DownTo[k - 1][n] \subseteq DownTo[k][n]
    OBVIOUS
  <1> HIDE DEF good
  <1>6. \A k \in 0 .. c : k \in good
    BY <1>1, <1>2, <1>3, Induction
  <1>7. QED
    BY <1>4, <1>5, <1>6

\* There are no more nodes than that: whatever can be reached is.
LEMMA UnderClosed ==
  ASSUME IsDocument(document), NEW n \in Nodes
  PROVE  /\ Under(n) \subseteq Nodes
         /\ Below(n) \subseteq Under(n)
         /\ \A x \in Under(n) : Below(x) \subseteq Under(n)
  <1> DEFINE c == Cardinality(Nodes)
             under(k) == DownTo[k][n]
             still(k) == k + 1 <= c /\ under(k + 1) = under(k)
             good == {k \in 0 .. c : (\E j \in 0 .. k : still(j) /\ under(k) = under(j)) \/ Cardinality(under(k)) >= k}
  <1>1. /\ c \in Nat \ {0} /\ DownTo \in [0 .. c -> [Nodes -> SUBSET Nodes]]
        /\ under(0) = {}
    BY DownToIs
  <1>2. IsFiniteSet(Nodes)
    BY DocumentFacts
  <1>3. \A k \in 0 .. c : under(k) \subseteq Nodes /\ IsFiniteSet(under(k)) /\ Cardinality(under(k)) \in Nat
                           /\ Cardinality(under(k)) <= c
    BY <1>1, <1>2, FS_Subset, FS_CardinalityType
  <1>4. \A k \in 1 .. c : under(k) = Below(n) \cup UNION {Below(x) : x \in under(k - 1)}
    BY DownOnce
  <1>5. \A k \in 1 .. c : under(k - 1) \subseteq under(k)
    BY DownGrows
  <1>6. Under(n) = under(c)
    BY DEF Under
  <1>x. \A k \in 0 .. c : k \in good <=>
          (\E j \in 0 .. k : still(j) /\ under(k) = under(j)) \/ Cardinality(under(k)) >= k
    OBVIOUS
  <1>y. \A k : still(k) <=> k + 1 <= c /\ under(k + 1) = under(k)
    OBVIOUS
  <1> HIDE DEF under, c, still, good
  <1>7. 0 \in good
    <2>1. Cardinality(under(0)) >= 0
      BY <1>1, <1>3
    <2>2. QED
      BY <1>1, <1>x, <2>1
  <1>8. ASSUME NEW k \in 1 .. c, k - 1 \in good PROVE k \in good
    <2>1. k - 1 \in 0 .. c /\ k \in 0 .. c /\ k - 1 + 1 = k /\ k \in Nat
      BY <1>1
    <2>2. CASE \E j \in 0 .. k - 1 : still(j) /\ under(k - 1) = under(j)
      <3>1. PICK j \in 0 .. k - 1 : still(j) /\ under(k - 1) = under(j)
        BY <2>2
      <3>2. j + 1 \in 1 .. c /\ under(j + 1) = under(j) /\ j + 1 - 1 = j
        BY <1>1, <1>y, <3>1
      <3>3. under(j + 1) = Below(n) \cup UNION {Below(x) : x \in under(j)}
        BY <1>4, <3>2
      <3>4. under(k) = Below(n) \cup UNION {Below(x) : x \in under(k - 1)}
        BY <1>4
      <3>5. under(k) = under(j)
        BY <3>1, <3>2, <3>3, <3>4
      <3>6. j \in 0 .. k
        BY <2>1
      <3>7. QED
        BY <1>x, <2>1, <3>1, <3>5, <3>6
    <2>3. CASE Cardinality(under(k - 1)) >= k - 1
      <3>1. CASE under(k) = under(k - 1)
        <4>1. still(k - 1) /\ k - 1 \in 0 .. k
          BY <1>1, <1>y, <2>1, <3>1
        <4>2. QED
          BY <1>x, <2>1, <3>1, <4>1
      <3>2. CASE under(k) # under(k - 1)
        <4>1. PICK x \in under(k) : x \notin under(k - 1)
          BY <1>5, <3>2
        <4>2. Cardinality(under(k - 1) \cup {x}) = Cardinality(under(k - 1)) + 1
          BY <1>3, <2>1, <4>1, FS_AddElement
        <4>3. under(k - 1) \cup {x} \subseteq under(k)
          BY <1>5, <4>1
        <4>4. Cardinality(under(k - 1) \cup {x}) <= Cardinality(under(k))
          BY <1>3, <2>1, <4>3, FS_Subset
        <4>5. Cardinality(under(k)) >= k
          <5> DEFINE a == Cardinality(under(k - 1))
                     b == Cardinality(under(k))
          <5>1. a \in Nat /\ b \in Nat /\ a >= k - 1 /\ a + 1 <= b
            BY <1>3, <2>1, <2>3, <4>2, <4>4
          <5> HIDE DEF a, b
          <5>2. b >= k
            BY <2>1, <5>1
          <5>3. QED
            BY <5>2 DEF b
        <4>6. QED
          BY <1>x, <2>1, <4>5
      <3>3. QED
        BY <3>1, <3>2
    <2>4. QED
      BY <1>8, <1>x, <2>1, <2>2, <2>3
  <1>9. c \in 0 .. c
    BY <1>1
  <1>10. c \in good
    BY <1>1, <1>7, <1>8, <1>9, Induction
  <1>11. Below(n) \cup UNION {Below(x) : x \in under(c)} \subseteq under(c)
    <2>1. CASE \E j \in 0 .. c : still(j) /\ under(c) = under(j)
      <3>1. PICK j \in 0 .. c : still(j) /\ under(c) = under(j)
        BY <2>1
      <3>2. j + 1 \in 1 .. c /\ under(j + 1) = under(j) /\ j + 1 - 1 = j
        BY <1>1, <1>y, <3>1
      <3>3. under(j + 1) = Below(n) \cup UNION {Below(x) : x \in under(j)}
        BY <1>4, <3>2
      <3>4. QED
        BY <3>1, <3>2, <3>3
    <2>2. CASE Cardinality(under(c)) >= c
      <3>1. Cardinality(under(c)) = Cardinality(Nodes)
        BY <1>1, <1>3, <1>9, <2>2 DEF c
      <3>2. under(c) = Nodes
        BY <1>2, <1>3, <1>9, <3>1, FS_Subset
      <3>3. QED
        BY <3>2, BelowTyped
    <2>3. QED
      BY <1>9, <1>10, <1>x, <2>1, <2>2
  <1>12. QED
    BY <1>3, <1>6, <1>9, <1>11

\* What lies under an alias is its anchor and what lies under that.
LEMMA UnderAlias ==
  ASSUME IsDocument(document), NEW n \in Nodes, NEW a, Below(n) = {a}
  PROVE  a \in Nodes /\ Under(n) \subseteq {a} \cup Under(a)
  <1> DEFINE c == Cardinality(Nodes)
  <1>1. c \in Nat \ {0} /\ \A k \in 1 .. c : \A x \in Nodes :
             DownTo[k][x] = Below(x) \cup UNION {DownTo[k - 1][m] : m \in Below(x)}
    BY DownToIs
  <1>2. a \in Nodes
    BY BelowTyped
  <1>3. \A k \in 1 .. c : DownTo[k - 1][a] \subseteq DownTo[k][a]
    BY <1>2, DownGrows
  <1> HIDE DEF c
  <1>4. c \in 1 .. c
    BY <1>1
  <1>5. DownTo[c][n] = {a} \cup DownTo[c - 1][a]
    BY <1>1, <1>4
  <1>6. QED
    BY <1>2, <1>3, <1>4, <1>5 DEF Under, c

\* Ranks that decrease downwards leave no room for a cycle.
Ranked(D, r, b) ==
  /\ D \subseteq Nodes /\ r \in [D -> Nat] /\ b \in Nat
  /\ \A n \in D : r[n] < b
  /\ \A n \in D : \A m \in Below(n) : m \in D /\ r[m] < r[n]

LEMMA RankedUnder ==
  ASSUME IsDocument(document), NEW D, NEW r, NEW b, Ranked(D, r, b), NEW n \in D
  PROVE  Under(n) \subseteq D /\ n \notin Under(n)
  <1> DEFINE c == Cardinality(Nodes)
             good == {k \in 0 .. c : \A x \in D : \A y \in DownTo[k][x] : y \in D /\ r[y] < r[x]}
  <1>1. /\ c \in Nat \ {0} /\ (\A x \in Nodes : DownTo[0][x] = {})
        /\ \A k \in 1 .. c : \A x \in Nodes :
             DownTo[k][x] = Below(x) \cup UNION {DownTo[k - 1][m] : m \in Below(x)}
    BY DownToIs
  <1>2. /\ D \subseteq Nodes /\ r \in [D -> Nat]
        /\ \A x \in D : \A m \in Below(x) : m \in D /\ r[m] < r[x]
    BY DEF Ranked
  <1>x. \A k \in 0 .. c : k \in good <=> \A x \in D : \A y \in DownTo[k][x] : y \in D /\ r[y] < r[x]
    OBVIOUS
  <1> HIDE DEF c, good
  <1>3. 0 \in good
    BY <1>1, <1>2, <1>x
  <1>4. ASSUME NEW k \in 1 .. c, k - 1 \in good PROVE k \in good
    <2>1. k - 1 \in 0 .. c /\ k \in 0 .. c
      BY <1>1
    <2>2. \A x \in D : \A y \in DownTo[k - 1][x] : y \in D /\ r[y] < r[x]
      BY <1>4, <1>x, <2>1
    <2>3. ASSUME NEW x \in D, NEW y \in DownTo[k][x] PROVE y \in D /\ r[y] < r[x]
      <3>1. y \in Below(x) \/ \E m \in Below(x) : y \in DownTo[k - 1][m]
        BY <1>1, <1>2
      <3>2. CASE y \in Below(x)
        BY <1>2, <3>2
      <3>3. ASSUME NEW m \in Below(x), y \in DownTo[k - 1][m] PROVE y \in D /\ r[y] < r[x]
        <4>1. m \in D /\ r[m] < r[x] /\ y \in D /\ r[y] < r[m]
          BY <1>2, <2>2, <3>3
        <4>2. r[m] \in Nat /\ r[x] \in Nat /\ r[y] \in Nat
          BY <1>2, <4>1
        <4>3. QED
          BY <4>1, <4>2
      <3>4. QED
        BY <3>1, <3>2, <3>3
    <2>4. QED
      BY <1>x, <2>1, <2>3
  <1>5. c \in 0 .. c
    BY <1>1
  <1>6. c \in good
    BY <1>1, <1>3, <1>4, <1>5, Induction
  <1>7. \A y \in Under(n) : y \in D /\ r[y] < r[n]
    BY <1>5, <1>6, <1>x DEF Under, c
  <1>8. r[n] \in Nat
    BY <1>2
  <1>9. QED
    BY <1>7, <1>8

\* A node whose children are ranked can be.
LEMMA RankedMore ==
  ASSUME NEW D, NEW r, NEW b, Ranked(D, r, b), NEW n \in Nodes, Below(n) \subseteq D
  PROVE  \E s, t : Ranked(D \cup {n}, s, t)
  <1>1. CASE n \in D
    <2>1. D \cup {n} = D
      BY <1>1
    <2>2. QED
      BY <2>1
  <1>2. CASE n \notin D
    <2> DEFINE E == D \cup {n}
               s == [x \in E |-> IF x = n THEN b ELSE r[x]]
    <2>1. /\ D \subseteq Nodes /\ r \in [D -> Nat] /\ b \in Nat
          /\ \A x \in D : r[x] < b
          /\ \A x \in D : \A m \in Below(x) : m \in D /\ r[m] < r[x]
      BY DEF Ranked
    <2>2. s \in [E -> Nat] /\ s[n] = b /\ \A x \in D : s[x] = r[x]
      BY <1>2, <2>1
    <2> HIDE DEF s
    <2>3. \A x \in E : s[x] < b + 1
      BY <2>1, <2>2
    <2>4. \A x \in E : \A m \in Below(x) : m \in E /\ s[m] < s[x]
      BY <2>1, <2>2
    <2>5. b + 1 \in Nat
      BY <2>1
    <2>6. Ranked(E, s, b + 1)
      BY <2>1, <2>2, <2>3, <2>4, <2>5 DEF Ranked
    <2>7. QED
      BY <2>6
  <1>3. QED
    BY <1>1, <1>2

-----------------------------------------------------------------------------
(* What a node stands for *)

\* The tokens of node n, at depth d, and of its first j children one deeper.
Stands(d, n) == Expansion[MaxDepth + 1 - d][n]
Inside(d, n, j) == FlattenSeq([i \in 1 .. j |-> Stands(d, Content(n)[i])])

LEMMA StandsIs ==
  ASSUME IsDocument(document), NEW n \in Nodes, NEW d \in 0 .. MaxDepth + 1
  PROVE  /\ Stands(d, n) \in Seq(Tokens)
         /\ d <= MaxDepth =>
              /\ Kind(n) = "scalar" => Stands(d, n) = <<n>>
              /\ Kind(n) = "alias" => Stands(d, n) = Stands(d + 1, Anchor(n))
              /\ Kind(n) \in {"document", "seq", "map"} =>
                   Stands(d, n) = <<Opens(n)>> \o Inside(d + 1, n, Len(Content(n))) \o <<"end">>
  <1> DEFINE k == MaxDepth + 1 - d
             e == Expansion[k - 1]
  <1>1. MaxDepth \in Nat /\ k \in 0 .. MaxDepth + 1
    BY YAMLWalkerAssumption
  <1>2. Expansion[k] \in [Nodes -> Seq(Tokens)]
    BY <1>1, ExpansionIs
  <1>3. Stands(d, n) \in Seq(Tokens)
    BY <1>2 DEF Stands
  <1>4. CASE d <= MaxDepth
    <2>1. k \in 1 .. MaxDepth + 1 /\ k - 1 \in 0 .. MaxDepth + 1 /\ k - 1 = MaxDepth + 1 - (d + 1)
      BY <1>1, <1>4
    <2>2. e \in [Nodes -> Seq(Tokens)] /\ Expansion[k] = Level(e)
      BY <2>1, ExpansionIs
    <2>3. \A m : e[m] = Stands(d + 1, m)
      BY <2>1 DEF Stands
    <2>4. Stands(d, n) = LevelAt(e, n)
      BY <2>2 DEF Stands, Level
    <2> HIDE DEF e
    <2>5. [i \in 1 .. Len(Content(n)) |-> e[Content(n)[i]]]
            = [i \in 1 .. Len(Content(n)) |-> Stands(d + 1, Content(n)[i])]
      BY <2>3
    <2>6. /\ Kind(n) = "scalar" => LevelAt(e, n) = <<n>>
          /\ Kind(n) = "alias" => LevelAt(e, n) = e[Anchor(n)]
          /\ Kind(n) \in {"document", "seq", "map"} =>
               LevelAt(e, n) = <<Opens(n)>> \o FlattenSeq([i \in 1 .. Len(Content(n)) |-> e[Content(n)[i]]])
                                            \o <<"end">>
      BY <2>2, LevelIs
    <2>7. QED
      BY <1>3, <2>3, <2>4, <2>5, <2>6 DEF Inside
  <1>5. QED
    BY <1>3, <1>4

LEMMA InsideIs ==
  ASSUME IsDocument(document), NEW n \in Nodes, NEW d \in 0 .. MaxDepth + 1,
         NEW j \in 0 .. Len(Content(n))
  PROVE  /\ Inside(d, n, j) \in Seq(Tokens)
         /\ j = 0 => Inside(d, n, j) = <<>>
         /\ j >= 1 => Inside(d, n, j) = Inside(d, n, j - 1) \o Stands(d, Content(n)[j])
  <1> DEFINE s == [i \in 1 .. j |-> Stands(d, Content(n)[i])]
  <1>1. /\ Len(Content(n)) \in Nat
        /\ \A i \in 1 .. Len(Content(n)) : Content(n)[i] \in Nodes
    BY ContentFacts
  <1>2. j \in Nat /\ \A i \in 1 .. j : i \in 1 .. Len(Content(n))
    BY <1>1
  <1>3. \A i \in 1 .. j : Stands(d, Content(n)[i]) \in Seq(Tokens)
    BY <1>1, <1>2, StandsIs
  <1>4. s \in [1 .. j -> Seq(Tokens)]
    BY <1>3
  <1>5. Inside(d, n, j) = FlattenSeq(s)
    BY DEF Inside
  <1>6. FlattenSeq(s) \in Seq(Tokens)
    <2> HIDE DEF s
    <2>1. QED
      BY <1>2, <1>4, FlattenTyped
  <1>7. CASE j = 0
    <2>1. s = <<>>
      BY <1>7
    <2>2. FlattenSeq(<<>>) = <<>>
      BY DEF FlattenSeq
    <2>3. QED
      BY <1>5, <1>6, <1>7, <2>1, <2>2
  <1>8. CASE j >= 1
    <2>1. PICK m \in Nat : j = m + 1
      <3>1. j - 1 \in Nat /\ j = j - 1 + 1
        BY <1>2, <1>8
      <3>2. QED
        BY <3>1
    <2>2. s \in [1 .. m + 1 -> Seq(Tokens)]
      BY <1>4, <2>1
    <2>3. [i \in 1 .. m |-> s[i]] = [i \in 1 .. m |-> Stands(d, Content(n)[i])] /\ j - 1 = m
      BY <2>1
    <2>4. s[j] = Stands(d, Content(n)[j])
      BY <1>2, <1>8
    <2> HIDE DEF s
    <2>5. FlattenSeq(s) = FlattenSeq([i \in 1 .. m |-> s[i]]) \o s[m + 1]
      BY <2>2, FlattenMore
    <2>6. Inside(d, n, m) = FlattenSeq([i \in 1 .. m |-> s[i]])
      BY <2>3 DEF Inside
    <2>7. Inside(d, n, j) = Inside(d, n, m) \o s[m + 1]
      BY <1>5, <2>5, <2>6
    <2>8. Inside(d, n, j) \in Seq(Tokens) /\ s[m + 1] = Stands(d, Content(n)[j]) /\ j # 0
      BY <1>5, <1>6, <1>8, <2>1, <2>4
    <2>9. QED
      BY <2>3, <2>7, <2>8
  <1>9. QED
    BY <1>2, <1>7, <1>8

-----------------------------------------------------------------------------
(* The stack against the document *)

\* The tokens a frame put out before the child it is at, and with that child.
Before(f) ==
  IF f.routine = "alias" THEN <<>> ELSE <<Opens(f.node)>> \o Inside(f.depth + 1, f.node, f.at - 1)
Sofar(f) ==
  IF f.routine = "alias" THEN Stands(f.depth + 1, Anchor(f.node))
  ELSE <<Opens(f.node)>> \o Inside(f.depth + 1, f.node, f.at)

\* The children of a frame that are in D: those before the one it is at, and
\* that one too.
Passed(f, D) == f.routine # "alias" => \A c \in 1 .. f.at - 1 : Content(f.node)[c] \in D
Through(f, D) ==
  IF f.routine = "alias" THEN Anchor(f.node) \in D ELSE \A c \in 1 .. f.at : Content(f.node)[c] \in D

\* The child a frame is at.
Current(f) == IF f.routine = "alias" THEN Anchor(f.node) ELSE Content(f.node)[f.at]
Leads(f, n) == (f.routine # "alias" => f.at >= 1) /\ n = Current(f)

\* The routine of a frame is that of its node.
Suits(f) ==
  /\ f.node \in Nodes /\ f.at \in 0 .. Len(Content(f.node))
  /\ \/ f.routine = "alias" /\ Kind(f.node) = "alias"
     \/ f.routine = "list" /\ Kind(f.node) \in {"document", "seq"}
     \/ f.routine = "pairs" /\ Kind(f.node) = "map" /\ f.at % 2 = 0

\* Where node n is met, above stack fs.
Comes(fs, n) == IF fs = <<>> THEN n = Target ELSE Leads(fs[Len(fs)], n)

\* The stack is a path in the document, from what is read to what is visited.
OnPath(fs, v) ==
  /\ \A i \in 1 .. Len(fs) : Suits(fs[i])
  /\ \A i \in 1 .. Len(fs) - 1 : Leads(fs[i], fs[i + 1].node)
  /\ fs # <<>> => fs[1].node = Target
  /\ v # Nowhere => v.node \in Nodes /\ Comes(fs, v.node)
  /\ v # Nowhere /\ fs = <<>> => entry = "YAMLToJSON"

\* w is what the first p frames put out before the children they are at.
Prior(fs, p, w, D) ==
  \E g \in [0 .. p -> Seq(Tokens)] :
    /\ g[0] = <<>> /\ g[p] = w
    /\ \A i \in 1 .. p : g[i] = g[i - 1] \o Before(fs[i]) /\ Passed(fs[i], D)

\* w is what the children that are through stand for, and those can be ranked.
Progress(fs, v, w) ==
  \E D, r, b :
    /\ Ranked(D, r, b)
    /\ IF v # Nowhere THEN v.depth <= MaxDepth => Prior(fs, Len(fs), w, D)
       ELSE IF fs # <<>> THEN
         \E u \in Seq(Tokens) :
           Prior(fs, Len(fs) - 1, u, D) /\ w = u \o Sofar(fs[Len(fs)]) /\ Through(fs[Len(fs)], D)
       ELSE Target \in D /\ w = Stands(0, Target)

LEMMA PriorSame ==
  ASSUME NEW fs, NEW gs, NEW p \in Nat, NEW w, NEW D, NEW E, Prior(fs, p, w, D),
         \A i \in 1 .. p : gs[i] = fs[i], D \subseteq E
  PROVE  Prior(gs, p, w, E) /\ w \in Seq(Tokens)
  <1>1. PICK g \in [0 .. p -> Seq(Tokens)] :
          /\ g[0] = <<>> /\ g[p] = w
          /\ \A i \in 1 .. p : g[i] = g[i - 1] \o Before(fs[i]) /\ Passed(fs[i], D)
    BY DEF Prior
  <1>2. \A i \in 1 .. p : Passed(fs[i], E)
    BY <1>1 DEF Passed
  <1>3. \A i \in 1 .. p : g[i] = g[i - 1] \o Before(gs[i]) /\ Passed(gs[i], E)
    BY <1>1, <1>2
  <1>4. p \in 0 .. p
    OBVIOUS
  <1>5. QED
    BY <1>1, <1>3, <1>4 DEF Prior

LEMMA PriorMore ==
  ASSUME NEW fs, NEW p \in Nat, NEW u, NEW D, Prior(fs, p, u, D), NEW q, q = p + 1,
         Before(fs[q]) \in Seq(Tokens), Passed(fs[q], D)
  PROVE  Prior(fs, q, u \o Before(fs[q]), D)
  <1>1. PICK g \in [0 .. p -> Seq(Tokens)] :
          /\ g[0] = <<>> /\ g[p] = u
          /\ \A i \in 1 .. p : g[i] = g[i - 1] \o Before(fs[i]) /\ Passed(fs[i], D)
    BY DEF Prior
  <1> DEFINE w == u \o Before(fs[q])
             h == [i \in 0 .. q |-> IF i = q THEN w ELSE g[i]]
  <1>2. p \in 0 .. p /\ u \in Seq(Tokens)
    BY <1>1
  <1>3. w \in Seq(Tokens)
    BY <1>2, ConcatProperties
  <1>w. w = u \o Before(fs[q])
    OBVIOUS
  <1> HIDE DEF w
  <1>4. h \in [0 .. q -> Seq(Tokens)] /\ h[0] = <<>> /\ h[q] = w /\ \A i \in 0 .. p : h[i] = g[i]
    BY <1>1, <1>3
  <1> HIDE DEF h
  <1>5. ASSUME NEW i \in 1 .. q PROVE h[i] = h[i - 1] \o Before(fs[i]) /\ Passed(fs[i], D)
    <2>1. CASE i = q
      <3>1. i - 1 = p
        BY <2>1
      <3>2. h[i - 1] = u
        BY <1>1, <1>2, <1>4, <3>1
      <3>3. QED
        BY <1>4, <1>w, <2>1, <3>2
    <2>2. CASE i # q
      <3>1. i \in 1 .. p /\ i \in 0 .. p /\ i - 1 \in 0 .. p
        BY <2>2
      <3>2. QED
        BY <1>1, <1>4, <3>1
    <2>3. QED
      BY <2>1, <2>2
  <1>6. QED
    BY <1>4, <1>5, <1>w DEF Prior

LEMMA PriorLess ==
  ASSUME NEW fs, NEW q \in Nat \ {0}, NEW w, NEW D, Prior(fs, q, w, D)
  PROVE  \E u \in Seq(Tokens) :
           Prior(fs, q - 1, u, D) /\ w = u \o Before(fs[q]) /\ Passed(fs[q], D)
  <1>1. PICK g \in [0 .. q -> Seq(Tokens)] :
          /\ g[0] = <<>> /\ g[q] = w
          /\ \A i \in 1 .. q : g[i] = g[i - 1] \o Before(fs[i]) /\ Passed(fs[i], D)
    BY DEF Prior
  <1> DEFINE p == q - 1
             h == [i \in 0 .. p |-> g[i]]
  <1>2. p \in Nat /\ q \in 1 .. q /\ \A i \in 1 .. p : i \in 1 .. q /\ i - 1 \in 0 .. p /\ i \in 0 .. p
    OBVIOUS
  <1>3. h \in [0 .. p -> Seq(Tokens)] /\ h[0] = <<>> /\ h[p] = g[p] /\ \A i \in 0 .. p : h[i] = g[i]
    BY <1>1
  <1>4. g[p] \in Seq(Tokens) /\ w = g[p] \o Before(fs[q]) /\ Passed(fs[q], D)
    BY <1>1, <1>2
  <1> HIDE DEF p, h
  <1>5. Prior(fs, p, g[p], D)
    BY <1>1, <1>2, <1>3 DEF Prior
  <1>6. QED
    BY <1>4, <1>5 DEF p

LEMMA FramedFacts ==
  ASSUME NEW fs, Framed(fs)
  PROVE  /\ Len(fs) \in Nat /\ Len(fs) <= MaxDepth + 1 /\ MaxDepth \in Nat
         /\ fs # <<>> => Len(fs) >= 1 /\ Len(fs) \in 1 .. Len(fs)
         /\ fs = <<>> => Len(fs) = 0
         /\ \A i \in 1 .. Len(fs) : fs[i].depth = i - 1 /\ fs[i].depth \in 0 .. MaxDepth
  <1>1. fs \in Seq({fs[i] : i \in DOMAIN fs}) /\ Len(fs) <= MaxDepth + 1 /\ MaxDepth \in Nat
    BY YAMLWalkerAssumption DEF Framed
  <1>2. Len(fs) \in Nat /\ (fs # <<>> => Len(fs) >= 1) /\ (fs = <<>> => Len(fs) = 0)
    BY <1>1, EmptySeq, LenProperties
  <1>3. ASSUME NEW i \in 1 .. Len(fs) PROVE fs[i].depth = i - 1
    <2> DEFINE node == fs[i].node
               routine == fs[i].routine
               at == fs[i].at
    <2>1. fs[i] = [node |-> node, routine |-> routine, at |-> at, depth |-> i - 1]
      BY DEF Framed
    <2> HIDE DEF node, routine, at
    <2>2. QED
      BY <2>1
  <1>4. \A i \in 1 .. Len(fs) : i - 1 \in 0 .. MaxDepth
    BY <1>1, <1>2
  <1>5. QED
    BY <1>1, <1>2, <1>3, <1>4

\* The child a frame is at is one more.
LEMMA OneMore ==
  ASSUME IsDocument(document), NEW f, Suits(f), f.depth \in 0 .. MaxDepth, NEW x, Leads(f, x)
  PROVE  /\ x \in Nodes /\ x \in Below(f.node)
         /\ Before(f) \in Seq(Tokens)
         /\ Sofar(f) = Before(f) \o Stands(f.depth + 1, x)
  <1> DEFINE n == f.node
             d == f.depth + 1
  <1>1. n \in Nodes /\ d \in 0 .. MaxDepth + 1
    BY YAMLWalkerAssumption DEF Suits
  <1>2. Len(Content(n)) \in Nat /\ \A i \in 1 .. Len(Content(n)) : Content(n)[i] \in Nodes
    BY <1>1, ContentFacts
  <1>3. CASE f.routine = "alias"
    <2>1. Kind(n) = "alias" /\ x = Anchor(n)
      BY <1>3 DEF Suits, Leads, Current
    <2>2. x \in Nodes /\ Before(f) = <<>> /\ Sofar(f) = Stands(d, x)
      BY <1>1, <1>3, <2>1, DocumentFacts DEF Before, Sofar
    <2>3. x \in Below(n)
      BY <2>1 DEF Below
    <2>4. Stands(d, x) \in Seq(Tokens)
      BY <1>1, <2>2, StandsIs
    <2>5. <<>> \o Stands(d, x) = Stands(d, x) /\ <<>> \in Seq(Tokens)
      BY <2>4, ConcatEmptySeq, EmptySeq
    <2>6. QED
      BY <2>2, <2>3, <2>5
  <1>4. CASE f.routine # "alias"
    <2> DEFINE a == f.at
    <2>1. a \in 1 .. Len(Content(n)) /\ x = Content(n)[a] /\ Kind(n) # "alias"
      BY <1>2, <1>4 DEF Suits, Leads, Current
    <2>2. x \in Nodes /\ a - 1 \in 0 .. Len(Content(n)) /\ a \in 0 .. Len(Content(n)) /\ a >= 1
      BY <1>2, <2>1
    <2>3. x \in Below(n)
      BY <1>1, <2>1, BelowTyped
    <2>4. /\ Inside(d, n, a - 1) \in Seq(Tokens)
          /\ Inside(d, n, a) = Inside(d, n, a - 1) \o Stands(d, x)
      BY <1>1, <2>1, <2>2, InsideIs
    <2>5. Stands(d, x) \in Seq(Tokens)
      BY <1>1, <2>2, StandsIs
    <2>6. <<Opens(n)>> \in Seq(Tokens)
      <3>1. Opens(n) \in Tokens
        BY DEF Opens, Tokens
      <3>2. QED
        BY <3>1
    <2>7. Before(f) = <<Opens(n)>> \o Inside(d, n, a - 1) /\ Sofar(f) = <<Opens(n)>> \o Inside(d, n, a)
      BY <1>4 DEF Before, Sofar
    <2>8. Before(f) \in Seq(Tokens)
      BY <2>4, <2>6, <2>7, ConcatProperties
    <2>9. <<Opens(n)>> \o (Inside(d, n, a - 1) \o Stands(d, x)) = (<<Opens(n)>> \o Inside(d, n, a - 1)) \o Stands(d, x)
      BY <2>4, <2>5, <2>6, ConcatAssociative
    <2>10. QED
      BY <2>2, <2>3, <2>4, <2>7, <2>8, <2>9
  <1>5. QED
    BY <1>3, <1>4

\* Node x, above stack fs, is through.
LEMMA Completed ==
  ASSUME IsDocument(document), NEW fs, Framed(fs), \A i \in 1 .. Len(fs) : Suits(fs[i]),
         NEW x, Comes(fs, x), NEW D, NEW r, NEW b, Ranked(D, r, b), x \in D,
         NEW u, Prior(fs, Len(fs), u, D)
  PROVE  Progress(fs, Nowhere, u \o Stands(Len(fs), x))
  <1> DEFINE k == Len(fs)
  <1>1. k \in Nat /\ k <= MaxDepth + 1 /\ MaxDepth \in Nat
    BY FramedFacts
  <1>2. u \in Seq(Tokens)
    BY <1>1, PriorSame
  <1>3. x \in Nodes
    BY DEF Ranked
  <1>4. Stands(k, x) \in Seq(Tokens)
    <2>1. k \in 0 .. MaxDepth + 1
      BY <1>1
    <2>2. QED
      BY <1>3, <2>1, StandsIs
  <1>5. CASE fs = <<>>
    <2>1. k = 0 /\ x = Target
      BY <1>5, FramedFacts DEF Comes
    <2>2. u = <<>>
      BY <2>1 DEF Prior
    <2>3. u \o Stands(k, x) = Stands(0, Target)
      BY <1>4, <2>1, <2>2, ConcatEmptySeq
    <2>4. QED
      BY <1>5, <2>1, <2>3 DEF Progress
  <1>6. CASE fs # <<>>
    <2> DEFINE f == fs[k]
    <2>1. k \in Nat \ {0} /\ k \in 1 .. k /\ f.depth = k - 1 /\ f.depth \in 0 .. MaxDepth
      BY <1>1, <1>6, FramedFacts
    <2>2. Suits(f) /\ Leads(f, x)
      BY <1>6, <2>1 DEF Comes
    <2>3. PICK t \in Seq(Tokens) : Prior(fs, k - 1, t, D) /\ u = t \o Before(f) /\ Passed(f, D)
      BY <2>1, PriorLess
    <2>4. Before(f) \in Seq(Tokens) /\ Sofar(f) = Before(f) \o Stands(f.depth + 1, x)
      BY <2>1, <2>2, OneMore
    <2>5. f.depth + 1 = k
      BY <1>1, <2>1
    <2>6. u \o Stands(k, x) = t \o Sofar(f)
      <3>1. (t \o Before(f)) \o Stands(k, x) = t \o (Before(f) \o Stands(k, x))
        BY <1>4, <2>3, <2>4, ConcatAssociative
      <3>2. Sofar(f) = Before(f) \o Stands(k, x)
        BY <2>4, <2>5
      <3> HIDE DEF f, k
      <3>3. QED
        BY <2>3, <3>1, <3>2
    <2>7. Through(f, D)
      <3>1. CASE f.routine = "alias"
        BY <2>2, <3>1 DEF Through, Leads, Current
      <3>2. CASE f.routine # "alias"
        <4>1. f.at \in Nat /\ f.at >= 1 /\ x = Content(f.node)[f.at]
          <5>1. Len(Content(f.node)) \in Nat
            BY <2>2, ContentFacts DEF Suits
          <5>2. QED
            BY <2>2, <3>2, <5>1 DEF Suits, Leads, Current
        <4>2. \A c \in 1 .. f.at : c \in 1 .. f.at - 1 \/ c = f.at
          BY <4>1
        <4>3. \A c \in 1 .. f.at - 1 : Content(f.node)[c] \in D
          BY <2>3, <3>2 DEF Passed
        <4>4. QED
          BY <3>2, <4>1, <4>2, <4>3 DEF Through
      <3>3. QED
        BY <3>1, <3>2
    <2> HIDE DEF f
    <2>8. \E t1 \in Seq(Tokens) :
            Prior(fs, k - 1, t1, D) /\ u \o Stands(k, x) = t1 \o Sofar(f) /\ Through(f, D)
      BY <2>3, <2>6, <2>7
    <2>9. QED
      BY <1>6, <2>8 DEF Progress, f
  <1>7. QED
    BY <1>5, <1>6

\* Where a step leaves a stack.
Walked(fs, v, w) == OnPath(fs, v) /\ Progress(fs, v, w)

\* Before a node is visited, that is not too deep.
LEMMA VisitFacts ==
  ASSUME NEW fs, NEW v, NEW w, Walked(fs, v, w), v # Nowhere, v.depth <= MaxDepth
  PROVE  /\ v.node \in Nodes /\ Comes(fs, v.node) /\ (\A i \in 1 .. Len(fs) : Suits(fs[i]))
         /\ \E D, r, b : Ranked(D, r, b) /\ Prior(fs, Len(fs), w, D)
  BY DEF Walked, OnPath, Progress

LEMMA ScalarWalks ==
  ASSUME IsDocument(document), NEW fs, Framed(fs), NEW v, NEW w, Walked(fs, v, w), v # Nowhere,
         v.depth = Len(fs), v.depth <= MaxDepth, Kind(v.node) = "scalar"
  PROVE  Walked(fs, Nowhere, Append(w, v.node))
  <1> DEFINE n == v.node
  <1>1. PICK D, r, b : Ranked(D, r, b) /\ Prior(fs, Len(fs), w, D)
    BY VisitFacts
  <1>2. n \in Nodes /\ Comes(fs, n) /\ \A i \in 1 .. Len(fs) : Suits(fs[i])
    BY VisitFacts
  <1>3. Len(fs) \in Nat /\ Len(fs) \in 0 .. MaxDepth + 1 /\ Len(fs) <= MaxDepth
    BY FramedFacts
  <1>4. Below(n) \subseteq D
    <2>1. Content(n) = <<>>
      BY <1>2, DocumentFacts
    <2>2. Below(n) = {}
      BY <2>1 DEF Below, ToSet
    <2>3. QED
      BY <2>2
  <1> HIDE DEF n
  <1>5. PICK s, t : Ranked(D \cup {n}, s, t)
    BY <1>1, <1>2, <1>4, RankedMore
  <1>6. Prior(fs, Len(fs), w, D \cup {n}) /\ w \in Seq(Tokens)
    BY <1>1, <1>3, PriorSame
  <1>7. Progress(fs, Nowhere, w \o Stands(Len(fs), n))
    BY <1>2, <1>5, <1>6, Completed
  <1>8. Stands(Len(fs), n) = <<n>>
    BY <1>2, <1>3, StandsIs DEF n
  <1>9. Append(w, n) = w \o <<n>>
    <2>1. n \in Tokens
      BY <1>2 DEF Tokens
    <2>2. QED
      BY <1>6, <2>1, AppendIsConcat
  <1>10. OnPath(fs, Nowhere)
    BY DEF Walked, OnPath
  <1>11. QED
    BY <1>7, <1>8, <1>9, <1>10 DEF Walked, n

\* A frame more, of a node and a routine that go together.
LEMMA PushPath ==
  ASSUME NEW fs, Framed(fs), NEW v, OnPath(fs, v), v # Nowhere, Len(fs) <= MaxDepth,
         NEW routine, NEW gs, Pushed(fs, gs, v.node, routine),
         Suits(Frame(v.node, routine, Len(fs))), NEW z,
         z = Nowhere \/ (z.node \in Nodes /\ Leads(Frame(v.node, routine, Len(fs)), z.node))
  PROVE  OnPath(gs, z)
  <1> DEFINE k == Len(fs)
             f == Frame(v.node, routine, k)
  <1>1. /\ Framed(gs) /\ Len(gs) = k + 1 /\ gs[k + 1] = f
        /\ \A i \in 1 .. k : gs[i] = fs[i]
    BY PushFramed
  <1>2. k \in Nat /\ (fs = <<>> => k = 0) /\ (fs # <<>> => k \in 1 .. k) /\ gs # <<>>
    <2>1. Len(<<>>) = 0
      OBVIOUS
    <2>2. QED
      BY <1>1, <2>1, FramedFacts
  <1>3. /\ \A i \in 1 .. k : Suits(fs[i])
        /\ \A i \in 1 .. k - 1 : Leads(fs[i], fs[i + 1].node)
        /\ fs # <<>> => fs[1].node = Target
        /\ Comes(fs, v.node)
    BY DEF OnPath
  <1>4. f.node = v.node /\ Suits(f)
    BY DEF Frame
  <1>y. z # Nowhere => z.node \in Nodes /\ Leads(f, z.node)
    OBVIOUS
  <1> HIDE DEF k, f
  <1>5. \A i \in 1 .. k + 1 : Suits(gs[i])
    <2>1. \A i \in 1 .. k + 1 : i \in 1 .. k \/ i = k + 1
      BY <1>2
    <2>2. QED
      BY <1>1, <1>3, <1>4, <2>1
  <1>6. ASSUME NEW i \in 1 .. k + 1 - 1 PROVE Leads(gs[i], gs[i + 1].node)
    <2>1. i \in 1 .. k /\ gs[i] = fs[i]
      BY <1>1, <1>2
    <2>2. CASE i = k
      <3>1. fs # <<>> /\ gs[i + 1].node = v.node
        BY <1>1, <1>2, <1>4, <2>1, <2>2
      <3>2. QED
        BY <1>3, <2>1, <2>2, <3>1 DEF Comes, k
    <2>3. CASE i # k
      <3>1. i \in 1 .. k - 1 /\ i + 1 \in 1 .. k
        BY <1>2, <2>1, <2>3
      <3>2. QED
        BY <1>1, <1>3, <2>1, <3>1
    <2>4. QED
      BY <2>2, <2>3
  <1>7. gs[1].node = Target
    <2>1. CASE fs = <<>>
      BY <1>1, <1>2, <1>3, <1>4, <2>1 DEF Comes
    <2>2. CASE fs # <<>>
      <3>1. 1 \in 1 .. k
        BY <1>2, <2>2
      <3>2. QED
        BY <1>1, <1>3, <2>2, <3>1
    <2>3. QED
      BY <2>1, <2>2
  <1>8. z # Nowhere => z.node \in Nodes /\ Comes(gs, z.node)
    BY <1>1, <1>2, <1>y DEF Comes
  <1>9. QED
    BY <1>1, <1>2, <1>5, <1>6, <1>7, <1>8 DEF OnPath

LEMMA PushWalks ==
  ASSUME IsDocument(document), NEW fs, Framed(fs), NEW v, NEW w, Walked(fs, v, w), v # Nowhere,
         v.depth = Len(fs), v.depth <= MaxDepth, NEW routine, NEW token,
         \/ Kind(v.node) \in {"document", "seq"} /\ routine = "list"
         \/ Kind(v.node) = "map" /\ routine = "pairs",
         token = Opens(v.node), NEW gs, Pushed(fs, gs, v.node, routine)
  PROVE  Walked(gs, Nowhere, Append(w, token))
  <1> DEFINE n == v.node
             k == Len(fs)
             f == Frame(n, routine, k)
  <1>1. PICK D, r, b : Ranked(D, r, b) /\ Prior(fs, k, w, D)
    BY VisitFacts
  <1>2. n \in Nodes
    BY VisitFacts
  <1>3. k \in Nat /\ k <= MaxDepth /\ MaxDepth \in Nat /\ k + 1 \in 0 .. MaxDepth + 1
    BY FramedFacts
  <1>4. /\ Framed(gs) /\ Len(gs) = k + 1 /\ gs[k + 1] = f
        /\ \A i \in 1 .. k : gs[i] = fs[i]
    BY <1>3, PushFramed
  <1>5. Len(Content(n)) \in Nat
    BY <1>2, ContentFacts
  <1>6. f.node = n /\ f.routine = routine /\ f.at = 0 /\ f.depth = k
    BY DEF Frame
  <1>7. Suits(f)
    BY <1>2, <1>5, <1>6 DEF Suits
  <1>8. OnPath(gs, Nowhere)
    <2>1. OnPath(fs, v)
      BY DEF Walked
    <2>2. QED
      BY <1>3, <1>7, <2>1, PushPath
  <1>9. Inside(k + 1, n, 0) = <<>>
    BY <1>2, <1>3, <1>5, InsideIs
  <1>10. Sofar(f) = <<token>> \o <<>>
    BY <1>6, <1>9 DEF Sofar
  <1>11. token \in Tokens
    BY DEF Opens, Tokens
  <1>12. Prior(gs, k, w, D) /\ w \in Seq(Tokens)
    BY <1>1, <1>3, <1>4, PriorSame
  <1>13. Append(w, token) = w \o Sofar(f)
    <2>1. <<token>> \in Seq(Tokens)
      BY <1>11
    <2>2. <<token>> \o <<>> = <<token>>
      BY <2>1, ConcatEmptySeq
    <2>3. QED
      BY <1>10, <1>11, <1>12, <2>2, AppendIsConcat
  <1>14. Through(f, D)
    BY <1>6 DEF Through
  <1>15. gs # <<>> /\ Len(gs) - 1 = k
    <2>1. Len(<<>>) = 0
      OBVIOUS
    <2>2. QED
      BY <1>3, <1>4, <2>1
  <1> HIDE DEF k, f
  <1>16. \E u \in Seq(Tokens) :
           /\ Prior(gs, Len(gs) - 1, u, D) /\ Append(w, token) = u \o Sofar(gs[Len(gs)])
           /\ Through(gs[Len(gs)], D)
    BY <1>4, <1>12, <1>13, <1>14, <1>15
  <1>17. Progress(gs, Nowhere, Append(w, token))
    BY <1>1, <1>15, <1>16 DEF Progress
  <1>18. QED
    BY <1>8, <1>17 DEF Walked

LEMMA AliasWalks ==
  ASSUME IsDocument(document), NEW fs, Framed(fs), NEW v, NEW w, Walked(fs, v, w), v # Nowhere,
         v.depth = Len(fs), v.depth <= MaxDepth, Kind(v.node) = "alias",
         NEW gs, Pushed(fs, gs, v.node, "alias"), NEW z, z.node = Anchor(v.node)
  PROVE  Walked(gs, z, w)
  <1> DEFINE n == v.node
             k == Len(fs)
             f == Frame(n, "alias", k)
  <1>1. PICK D, r, b : Ranked(D, r, b) /\ Prior(fs, k, w, D)
    BY VisitFacts
  <1>2. n \in Nodes /\ Anchor(n) \in Nodes
    BY VisitFacts, DocumentFacts
  <1>3. k \in Nat /\ k <= MaxDepth /\ MaxDepth \in Nat
    BY FramedFacts
  <1>4. /\ Framed(gs) /\ Len(gs) = k + 1 /\ gs[k + 1] = f
        /\ \A i \in 1 .. k : gs[i] = fs[i]
    BY <1>3, PushFramed
  <1>5. Len(Content(n)) \in Nat
    BY <1>2, ContentFacts
  <1>6. f.node = n /\ f.routine = "alias" /\ f.at = 0
    BY DEF Frame
  <1>7. Suits(f) /\ Leads(f, z.node)
    BY <1>2, <1>5, <1>6 DEF Suits, Leads, Current
  <1>8. OnPath(gs, z)
    <2>1. OnPath(fs, v)
      BY DEF Walked
    <2>2. QED
      BY <1>2, <1>3, <1>7, <2>1, PushPath
  <1>9. Before(f) = <<>> /\ Passed(f, D)
    BY <1>6 DEF Before, Passed
  <1>10. Prior(gs, k, w, D) /\ w \in Seq(Tokens)
    BY <1>1, <1>3, <1>4, PriorSame
  <1>11. <<>> \in Seq(Tokens) /\ w \o <<>> = w
    BY <1>10, EmptySeq, ConcatEmptySeq
  <1> HIDE DEF k, f
  <1>12. Prior(gs, k + 1, w \o Before(gs[k + 1]), D)
    BY <1>3, <1>4, <1>9, <1>10, <1>11, PriorMore
  <1>13. Prior(gs, Len(gs), w, D)
    BY <1>4, <1>9, <1>11, <1>12
  <1>14. z # Nowhere
    <2>1. 0 \notin Nodes /\ Nowhere.node = 0
      BY DocumentFacts DEF Nowhere
    <2>2. QED
      BY <1>2, <2>1
  <1>15. Progress(gs, z, w)
    BY <1>1, <1>13, <1>14 DEF Progress
  <1>16. QED
    BY <1>8, <1>15 DEF Walked

\* What is idle has the children so far behind it.
LEMMA IdleFacts ==
  ASSUME NEW fs, NEW w, Framed(fs), Walked(fs, Nowhere, w), fs # <<>>, NEW f, f = fs[Len(fs)]
  PROVE  /\ Suits(f) /\ f.depth = Len(fs) - 1 /\ f.depth \in 0 .. MaxDepth
         /\ Len(fs) \in 1 .. MaxDepth + 1 /\ MaxDepth \in Nat
         /\ (\A i \in 1 .. Len(fs) : Suits(fs[i])) /\ OnPath(fs, Nowhere)
         /\ \E D, r, b, u : /\ Ranked(D, r, b) /\ u \in Seq(Tokens)
                            /\ Prior(fs, Len(fs) - 1, u, D) /\ w = u \o Sofar(f) /\ Through(f, D)
  <1>1. Len(fs) \in 1 .. Len(fs) /\ Len(fs) \in 1 .. MaxDepth + 1 /\ MaxDepth \in Nat
    BY FramedFacts
  <1>2. f.depth = Len(fs) - 1 /\ f.depth \in 0 .. MaxDepth
    BY <1>1, FramedFacts
  <1>3. OnPath(fs, Nowhere) /\ (\A i \in 1 .. Len(fs) : Suits(fs[i])) /\ Progress(fs, Nowhere, w)
    BY DEF Walked, OnPath
  <1>4. \E D, r, b, u : /\ Ranked(D, r, b) /\ u \in Seq(Tokens)
                        /\ Prior(fs, Len(fs) - 1, u, D) /\ w = u \o Sofar(f) /\ Through(f, D)
    BY <1>3 DEF Progress
  <1>5. QED
    BY <1>1, <1>2, <1>3, <1>4

LEMMA ReadMore ==
  ASSUME NEW fs, Framed(fs), fs # <<>>, NEW step, NEW gs, Advanced(fs, gs, step),
         NEW f, f = fs[Len(fs)]
  PROVE  /\ Framed(gs) /\ Len(gs) = Len(fs) /\ gs # <<>>
         /\ \A i \in 1 .. Len(fs) - 1 : gs[i] = fs[i]
         /\ gs[Len(fs)] = [node |-> f.node, routine |-> f.routine, at |-> f.at + step, depth |-> Len(fs) - 1]
  <1>1. Framed(gs) /\ Len(gs) = Len(fs)
    BY ReadFramed
  <1> DEFINE n == Len(fs)
  <1>2. n \in Nat /\ n >= 1 /\ DOMAIN fs = 1 .. n
    <2>1. n \in Nat /\ n >= 1
      BY FramedFacts
    <2>2. QED
      BY <2>1, LenProperties DEF Framed
  <1>3. gs = [i \in 1 .. n |-> IF i = n THEN [fs[n] EXCEPT !.at = @ + step] ELSE fs[i]]
    BY <1>2 DEF Advanced
  <1>4. f = [node |-> f.node, routine |-> f.routine, at |-> f.at, depth |-> n - 1]
    BY <1>2 DEF Framed
  <1> HIDE DEF n
  <1>5. n \in 1 .. n /\ \A i \in 1 .. n - 1 : i \in 1 .. n /\ i # n
    BY <1>2
  <1>6. (\A i \in 1 .. n - 1 : gs[i] = fs[i]) /\ gs[n] = [f EXCEPT !.at = @ + step]
    BY <1>3, <1>5 DEF n
  <1>7. gs[n] = [node |-> f.node, routine |-> f.routine, at |-> f.at + step, depth |-> n - 1]
    BY <1>4, <1>6
  <1>8. gs # <<>>
    BY <1>1, <1>2, FramedFacts DEF n
  <1>9. QED
    BY <1>1, <1>6, <1>7, <1>8 DEF n

\* The next child of the container on top.
LEMMA ReadWalks ==
  ASSUME IsDocument(document), NEW fs, NEW w, Framed(fs), Walked(fs, Nowhere, w), fs # <<>>,
         NEW step, NEW gs, Advanced(fs, gs, step), NEW g, g = gs[Len(fs)],
         Suits(g), NEW z, z # Nowhere, Leads(g, z.node),
         NEW D, NEW r, NEW b, Ranked(D, r, b), Passed(g, D),
         NEW u, Prior(fs, Len(fs) - 1, u, D), NEW y,
         z.depth <= MaxDepth => y = u \o Before(g)
  PROVE  Walked(gs, z, y)
  <1> DEFINE n == Len(fs)
             f == fs[n]
  <1>1. /\ Suits(f) /\ n \in 1 .. MaxDepth + 1 /\ MaxDepth \in Nat
        /\ (\A i \in 1 .. n : Suits(fs[i])) /\ OnPath(fs, Nowhere)
    BY IdleFacts
  <1>2. /\ Framed(gs) /\ Len(gs) = n /\ gs # <<>>
        /\ \A i \in 1 .. n - 1 : gs[i] = fs[i]
        /\ g = [node |-> f.node, routine |-> f.routine, at |-> f.at + step, depth |-> n - 1]
    BY ReadMore
  <1>3. g.node = f.node /\ g.depth = n - 1 /\ g.depth \in 0 .. MaxDepth
    BY <1>1, <1>2
  <1>4. z.node \in Nodes /\ Before(g) \in Seq(Tokens)
    BY <1>3, OneMore
  <1> HIDE DEF n, f
  <1>z. g = gs[n] /\ f = fs[n] /\ n - 1 \in Nat /\ n = (n - 1) + 1
    BY <1>1 DEF n, f
  <1>5. OnPath(gs, z)
    <2>1. /\ \A i \in 1 .. n - 1 : Leads(fs[i], fs[i + 1].node)
          /\ fs[1].node = Target
      BY <1>1 DEF OnPath, n
    <2>2. \A i \in 1 .. n : (i = n \/ i \in 1 .. n - 1) /\ gs[i].node = fs[i].node
      BY <1>1, <1>2, <1>3, <1>z
    <2>3. \A i \in 1 .. n : Suits(gs[i])
      BY <1>1, <1>2, <1>z, <2>2
    <2>4. \A i \in 1 .. n - 1 : Leads(gs[i], gs[i + 1].node)
      <3>1. \A i \in 1 .. n - 1 : i + 1 \in 1 .. n
        BY <1>1
      <3>2. QED
        BY <1>2, <2>1, <2>2, <3>1
    <2>5. gs[1].node = Target
      <3>1. 1 \in 1 .. n
        BY <1>1
      <3>2. QED
        BY <2>1, <2>2, <3>1
    <2>6. Comes(gs, z.node)
      BY <1>2, <1>z DEF Comes
    <2>7. QED
      BY <1>2, <1>4, <2>3, <2>4, <2>5, <2>6 DEF OnPath
  <1>6. Prior(gs, n - 1, u, D)
    BY <1>2, <1>z, PriorSame DEF n
  <1>7. Prior(gs, n, u \o Before(gs[n]), D)
    BY <1>4, <1>6, <1>z, PriorMore
  <1>8. z.depth <= MaxDepth => Prior(gs, Len(gs), y, D)
    BY <1>2, <1>7, <1>z
  <1>9. Progress(gs, z, y)
    BY <1>8 DEF Progress
  <1>10. QED
    BY <1>5, <1>9 DEF Walked

LEMMA ItemWalks ==
  ASSUME IsDocument(document), NEW fs, NEW w, Framed(fs), Walked(fs, Nowhere, w), fs # <<>>,
         NEW f, f = fs[Len(fs)], f.routine = "list", f.at < Len(Content(f.node)),
         NEW gs, Advanced(fs, gs, 1), NEW z, z.node = Content(f.node)[f.at + 1]
  PROVE  Walked(gs, z, w)
  <1> DEFINE n == Len(fs)
             g == gs[n]
             c == Content(f.node)
  <1>1. /\ Suits(f) /\ f.depth = n - 1 /\ f.depth \in 0 .. MaxDepth
    BY IdleFacts
  <1>2. PICK D, r, b, u : /\ Ranked(D, r, b) /\ u \in Seq(Tokens)
                          /\ Prior(fs, n - 1, u, D) /\ w = u \o Sofar(f) /\ Through(f, D)
    BY IdleFacts
  <1>3. g = [node |-> f.node, routine |-> f.routine, at |-> f.at + 1, depth |-> n - 1]
    BY ReadMore
  <1>4. f.node \in Nodes /\ Len(c) \in Nat /\ f.at \in 0 .. Len(c) /\ \A i \in 1 .. Len(c) : c[i] \in Nodes
    BY <1>1, ContentFacts DEF Suits
  <1> HIDE DEF n, g, c
  <1>5. g.node = f.node /\ g.routine = "list" /\ g.at = f.at + 1 /\ g.depth = f.depth
    BY <1>1, <1>3
  <1>6. f.at + 1 \in 1 .. Len(c) /\ g.at \in 1 .. Len(c) /\ g.at - 1 = f.at
    BY <1>4, <1>5 DEF c
  <1>7. Suits(g)
    BY <1>1, <1>4, <1>5, <1>6 DEF Suits, c
  <1>8. Leads(g, z.node)
    BY <1>4, <1>5, <1>6 DEF Leads, Current, c
  <1>9. z # Nowhere
    <2>1. z.node \in Nodes /\ 0 \notin Nodes /\ Nowhere.node = 0
      BY <1>4, <1>6, DocumentFacts DEF Nowhere, c
    <2>2. QED
      BY <2>1
  <1>10. Passed(g, D)
    BY <1>2, <1>5, <1>6 DEF Passed, Through
  <1>11. Before(g) = Sofar(f)
    BY <1>5, <1>6 DEF Before, Sofar
  <1>12. QED
    BY <1>2, <1>7, <1>8, <1>9, <1>10, <1>11, ReadWalks DEF n, g

\* A key, which is a scalar, and its value.
LEMMA PairWalks ==
  ASSUME IsDocument(document), NEW fs, NEW w, Framed(fs), Walked(fs, Nowhere, w), fs # <<>>,
         NEW f, f = fs[Len(fs)], f.routine = "pairs", f.at + 2 <= Len(Content(f.node)),
         NEW key, key = Content(f.node)[f.at + 1], Kind(key) = "scalar",
         NEW gs, Advanced(fs, gs, 2), NEW z, z.node = Content(f.node)[f.at + 2],
         z.depth = f.depth + 1
  PROVE  Walked(gs, z, Append(w, key))
  <1> DEFINE n == Len(fs)
             g == gs[n]
             c == Content(f.node)
  <1>1. /\ Suits(f) /\ f.depth = n - 1 /\ f.depth \in 0 .. MaxDepth /\ MaxDepth \in Nat
        /\ n \in 1 .. MaxDepth + 1
    BY IdleFacts
  <1>2. PICK D, r, b, u : /\ Ranked(D, r, b) /\ u \in Seq(Tokens)
                          /\ Prior(fs, n - 1, u, D) /\ w = u \o Sofar(f) /\ Through(f, D)
    BY IdleFacts
  <1>3. g = [node |-> f.node, routine |-> f.routine, at |-> f.at + 2, depth |-> n - 1]
    BY ReadMore
  <1>4. f.node \in Nodes /\ Len(c) \in Nat /\ f.at \in 0 .. Len(c) /\ \A i \in 1 .. Len(c) : c[i] \in Nodes
    BY <1>1, ContentFacts DEF Suits
  <1>k. key = c[f.at + 1] /\ z.node = c[f.at + 2] /\ f.at + 2 <= Len(c)
    OBVIOUS
  <1>d. f.at % 2 = 0 /\ Kind(f.node) = "map"
    BY <1>1 DEF Suits
  <1> HIDE DEF n, g, c
  <1>5. g.node = f.node /\ g.routine = "pairs" /\ g.at = f.at + 2 /\ g.depth = f.depth
    BY <1>1, <1>3
  <1>6. /\ f.at + 1 \in 1 .. Len(c) /\ g.at \in 1 .. Len(c) /\ g.at - 1 = f.at + 1 /\ (f.at + 2) % 2 = 0
        /\ f.at + 1 \in 0 .. Len(c) /\ f.at + 1 - 1 = f.at /\ f.at + 1 >= 1 /\ f.at \in Nat
    BY <1>4, <1>5, <1>d, <1>k
  <1>7. Suits(g)
    BY <1>4, <1>5, <1>6, <1>d DEF Suits, c
  <1>8. Leads(g, z.node)
    BY <1>5, <1>6, <1>k DEF Leads, Current, c
  <1>9. z # Nowhere /\ key \in Nodes
    <2>1. z.node \in Nodes /\ 0 \notin Nodes /\ Nowhere.node = 0 /\ key \in Nodes
      BY <1>4, <1>5, <1>6, <1>k, DocumentFacts DEF Nowhere
    <2>2. QED
      BY <2>1
  <1>10. Below(key) \subseteq D
    <2>1. Content(key) = <<>>
      BY <1>9, DocumentFacts
    <2>2. Below(key) = {}
      BY <2>1 DEF Below, ToSet
    <2>3. QED
      BY <2>2
  <1>11. PICK s, t : Ranked(D \cup {key}, s, t)
    BY <1>2, <1>9, <1>10, RankedMore
  <1>12. Passed(g, D \cup {key})
    <2>1. \A i \in 1 .. f.at : c[i] \in D
      BY <1>2 DEF Through, c
    <2>2. \A i \in 1 .. f.at + 1 : i \in 1 .. f.at \/ i = f.at + 1
      BY <1>6
    <2>3. \A i \in 1 .. f.at + 1 : c[i] \in D \cup {key}
      BY <1>k, <2>1, <2>2
    <2>4. QED
      BY <1>5, <1>6, <2>3 DEF Passed, c
  <1>13. Prior(fs, n - 1, u, D \cup {key})
    <2>1. n - 1 \in Nat
      BY <1>1
    <2>2. QED
      BY <1>2, <2>1, PriorSame
  <1>14. ASSUME z.depth <= MaxDepth PROVE Append(w, key) = u \o Before(g)
    <2> DEFINE d == f.depth + 1
               o == <<Opens(f.node)>>
               i == Inside(d, f.node, f.at)
    <2>1. d \in 0 .. MaxDepth + 1 /\ d <= MaxDepth
      BY <1>1, <1>14
    <2>2. Stands(d, key) = <<key>> /\ <<key>> \in Seq(Tokens)
      BY <1>9, <2>1, StandsIs DEF Tokens
    <2>3. o \in Seq(Tokens)
      <3>1. Opens(f.node) \in Tokens
        BY DEF Opens, Tokens
      <3>2. QED
        BY <3>1
    <2>4. i \in Seq(Tokens)
      BY <1>4, <2>1, InsideIs DEF c
    <2>5. Inside(d, f.node, f.at + 1) = i \o <<key>>
      <3> DEFINE j == f.at + 1
      <3>1. j \in 0 .. Len(Content(f.node)) /\ j >= 1 /\ j - 1 = f.at /\ Content(f.node)[j] = key
        BY <1>6, <1>k DEF c
      <3> HIDE DEF d, j
      <3>2. Inside(d, f.node, j) = Inside(d, f.node, j - 1) \o Stands(d, Content(f.node)[j])
        BY <1>4, <2>1, <3>1, InsideIs
      <3>3. Inside(d, f.node, j) = i \o <<key>>
        BY <2>2, <3>1, <3>2
      <3>4. QED
        BY <3>3 DEF j
    <2>6. Sofar(f) = o \o i
      BY DEF Sofar
    <2>7. Before(g) = o \o (i \o <<key>>)
      BY <1>5, <1>6, <2>5 DEF Before
    <2> HIDE DEF o, i
    <2>8. o \o i \in Seq(Tokens) /\ i \o <<key>> \in Seq(Tokens)
      BY <2>2, <2>3, <2>4, ConcatProperties
    <2>9. o \o (i \o <<key>>) = (o \o i) \o <<key>>
      BY <2>2, <2>3, <2>4, ConcatAssociative
    <2>10. u \o ((o \o i) \o <<key>>) = (u \o (o \o i)) \o <<key>>
      BY <1>2, <2>2, <2>8, ConcatAssociative
    <2>11. w \in Seq(Tokens)
      BY <1>2, <2>6, <2>8, ConcatProperties
    <2>12. Append(w, key) = w \o <<key>>
      BY <1>9, <2>11, AppendIsConcat DEF Tokens
    <2>13. QED
      BY <1>2, <2>6, <2>7, <2>9, <2>10, <2>12
  <1>15. QED
    BY <1>7, <1>8, <1>9, <1>11, <1>12, <1>13, <1>14, ReadWalks DEF n, g

\* The top is left.
LEMMA PopWalks ==
  ASSUME IsDocument(document), NEW fs, NEW w, Framed(fs), Walked(fs, Nowhere, w), fs # <<>>,
         NEW f, f = fs[Len(fs)], f.routine = "alias" \/ f.at >= Len(Content(f.node)),
         NEW gs, gs = Front(fs), NEW y,
         y = IF f.routine = "alias" THEN w ELSE Append(w, "end")
  PROVE  Walked(gs, Nowhere, y)
  <1> DEFINE n == Len(fs)
             x == f.node
             d == f.depth + 1
  <1>1. /\ Suits(f) /\ f.depth = n - 1 /\ f.depth \in 0 .. MaxDepth /\ MaxDepth \in Nat
        /\ n \in 1 .. MaxDepth + 1
        /\ (\A i \in 1 .. n : Suits(fs[i])) /\ OnPath(fs, Nowhere)
    BY IdleFacts
  <1>2. PICK D, r, b, u : /\ Ranked(D, r, b) /\ u \in Seq(Tokens)
                          /\ Prior(fs, n - 1, u, D) /\ w = u \o Sofar(f) /\ Through(f, D)
    BY IdleFacts
  <1>3. /\ Framed(gs) /\ Len(gs) = n - 1 /\ \A i \in 1 .. n - 1 : gs[i] = fs[i]
    BY PopFramed
  <1>4. x \in Nodes /\ Len(Content(x)) \in Nat /\ f.at \in 0 .. Len(Content(x))
    BY <1>1, ContentFacts DEF Suits
  <1>5. d \in 0 .. MaxDepth + 1 /\ n - 1 \in Nat /\ d = n /\ \A i \in 1 .. n - 1 : i \in 1 .. n
    BY <1>1
  <1>6. \A i \in 1 .. n - 1 : Leads(fs[i], fs[i + 1].node)
    BY <1>1 DEF OnPath
  <1>7. fs[1].node = Target
    BY <1>1 DEF OnPath
  <1>8. gs = <<>> <=> n = 1
    BY <1>1, <1>3, FramedFacts
  <1>9. OnPath(gs, Nowhere)
    <2>1. \A i \in 1 .. n - 1 - 1 : i \in 1 .. n - 1 /\ i + 1 \in 1 .. n - 1
      BY <1>1
    <2>2. gs # <<>> => 1 \in 1 .. n - 1
      <3> HIDE DEF n
      <3>1. n # 1 => n - 1 >= 1
        BY <1>1
      <3>2. QED
        BY <1>5, <1>8, <3>1
    <2>3. QED
      BY <1>1, <1>3, <1>5, <1>6, <1>7, <2>1, <2>2 DEF OnPath
  <1>10. Comes(gs, x)
    <2>1. CASE n = 1
      BY <1>7, <1>8, <2>1 DEF Comes
    <2>2. CASE n # 1
      <3>1. n - 1 \in 1 .. n - 1 /\ n - 1 + 1 = n
        <4> HIDE DEF n
        <4>1. QED
          BY <1>1, <2>2
      <3>2. Leads(fs[n - 1], fs[n].node)
        BY <1>6, <3>1
      <3>3. QED
        BY <1>3, <1>8, <2>2, <3>1, <3>2 DEF Comes
    <2>3. QED
      BY <2>1, <2>2
  <1>11. /\ Below(x) \subseteq D
         /\ y = u \o Stands(f.depth, x)
    <2>1. CASE f.routine = "alias"
      <3>1. Kind(x) = "alias"
        BY <1>1, <2>1 DEF Suits
      <3>2. Below(x) \subseteq D
        BY <1>2, <2>1, <3>1 DEF Below, Through
      <3>3. Stands(f.depth, x) = Stands(d, Anchor(x))
        <4>1. f.depth <= MaxDepth /\ f.depth \in 0 .. MaxDepth + 1
          BY <1>1
        <4>2. QED
          BY <1>4, <3>1, <4>1, StandsIs
      <3>4. QED
        BY <1>2, <2>1, <3>2, <3>3 DEF Sofar
    <2>2. CASE f.routine # "alias"
      <3>1. Kind(x) \in {"document", "seq", "map"} /\ f.at = Len(Content(x)) /\ Kind(x) # "alias"
        BY <1>1, <1>4, <2>2 DEF Suits
      <3>2. \A m \in Below(x) : \E i \in 1 .. Len(Content(x)) : m = Content(x)[i]
        BY <1>4, <3>1, BelowTyped
      <3>3. Below(x) \subseteq D
        BY <1>2, <2>2, <3>1, <3>2 DEF Through
      <3> DEFINE o == <<Opens(x)>>
                 i == Inside(d, x, Len(Content(x)))
                 e == <<"end">>
      <3>4. Stands(f.depth, x) = o \o i \o e
        BY <1>1, <1>4, <3>1, StandsIs
      <3>5. Sofar(f) = o \o i
        BY <2>2, <3>1 DEF Sofar
      <3>6. o \in Seq(Tokens) /\ e \in Seq(Tokens)
        <4>1. Opens(x) \in Tokens /\ "end" \in Tokens
          BY DEF Opens, Tokens
        <4>2. QED
          BY <4>1
      <3>7. i \in Seq(Tokens)
        BY <1>4, <1>5, <3>1, InsideIs
      <3> HIDE DEF o, i
      <3>8. o \o i \in Seq(Tokens)
        BY <3>6, <3>7, ConcatProperties
      <3>9. w \in Seq(Tokens) /\ w = u \o (o \o i)
        BY <1>2, <3>5, <3>8, ConcatProperties
      <3>10. Append(w, "end") = w \o e
        BY <3>9, AppendIsConcat DEF Tokens
      <3>11. (u \o (o \o i)) \o e = u \o ((o \o i) \o e)
        BY <1>2, <3>6, <3>8, ConcatAssociative
      <3>12. y = Append(w, "end")
        BY <2>2
      <3>13. QED
        BY <3>3, <3>4, <3>9, <3>10, <3>11, <3>12
    <2>3. QED
      BY <2>1, <2>2
  <1>12. PICK s, t : Ranked(D \cup {x}, s, t)
    BY <1>2, <1>4, <1>11, RankedMore
  <1> HIDE DEF x, n, d
  <1>13. Prior(gs, Len(gs), u, D \cup {x})
    BY <1>2, <1>3, <1>5, PriorSame
  <1>14. \A i \in 1 .. Len(gs) : Suits(gs[i])
    BY <1>1, <1>3, <1>5
  <1>15. Progress(gs, Nowhere, u \o Stands(Len(gs), x))
    BY <1>3, <1>10, <1>12, <1>13, <1>14, Completed
  <1>16. f.depth = Len(gs)
    BY <1>1, <1>3
  <1>17. QED
    BY <1>9, <1>11, <1>15, <1>16 DEF Walked

-----------------------------------------------------------------------------
(* Cycles *)

\* The node visited lies in whatever is closed downwards and holds what is below
\* a frame.
LEMMA PathLeads ==
  ASSUME IsDocument(document), NEW fs, Framed(fs), NEW v, OnPath(fs, v), v # Nowhere,
         NEW i \in 1 .. Len(fs), NEW S, S \subseteq Nodes, \A x \in S : Below(x) \subseteq S,
         Below(fs[i].node) \subseteq S
  PROVE  v.node \in S
  <1> DEFINE n == Len(fs)
             m == n - i
             good == {k \in 0 .. m : Below(fs[i + k].node) \subseteq S}
  <1>1. n \in Nat /\ fs # <<>> /\ m \in Nat /\ i \in 1 .. n
    BY FramedFacts
  <1>2. /\ \A j \in 1 .. n : Suits(fs[j]) /\ fs[j].depth \in 0 .. MaxDepth
        /\ \A j \in 1 .. n - 1 : Leads(fs[j], fs[j + 1].node)
        /\ Leads(fs[n], v.node)
    BY <1>1, FramedFacts DEF OnPath, Comes
  <1>x. \A k \in 0 .. m : k \in good <=> Below(fs[i + k].node) \subseteq S
    OBVIOUS
  <1>y. m = n - i
    OBVIOUS
  <1> HIDE DEF n, m, good
  <1>3. 0 \in good
    <2>1. i + 0 = i /\ 0 \in 0 .. m
      BY <1>1
    <2>2. QED
      BY <1>x, <2>1
  <1>4. ASSUME NEW k \in 1 .. m, k - 1 \in good PROVE k \in good
    <2>1. k - 1 \in 0 .. m /\ k \in 0 .. m /\ i + (k - 1) \in 1 .. n - 1 /\ i + (k - 1) + 1 = i + k
      BY <1>1, <1>y
    <2>2. i + (k - 1) \in 1 .. n
      BY <1>1, <2>1
    <2>3. fs[i + k].node \in Below(fs[i + (k - 1)].node)
      BY <1>2, <2>1, <2>2, OneMore
    <2>4. Below(fs[i + (k - 1)].node) \subseteq S
      BY <1>4, <1>x, <2>1
    <2>5. QED
      BY <1>x, <2>1, <2>3, <2>4
  <1>5. m \in 0 .. m /\ i + m = n /\ n \in 1 .. n
    BY <1>1, <1>y
  <1>6. m \in good
    BY <1>1, <1>3, <1>4, <1>5, Induction
  <1>7. Below(fs[n].node) \subseteq S
    BY <1>5, <1>6, <1>x
  <1>8. v.node \in Below(fs[n].node)
    BY <1>2, <1>5, OneMore
  <1>9. QED
    BY <1>7, <1>8

\* What can be reached from the root.
Reached == {document.root} \cup Under(document.root)

LEMMA TargetFacts ==
  ASSUME IsDocument(document)
  PROVE  /\ Target \in Reached /\ Reached \subseteq Nodes /\ \A x \in Reached : Below(x) \subseteq Reached
         /\ Target # document.root => Below(document.root) = {Target}
  <1> DEFINE r == document.root
             c == Content(r)
  <1>1. /\ r \in Nodes /\ Kind(r) = "document" /\ Len(c) = 1 /\ c[1] \in Nodes /\ c \in Seq(Nodes)
    BY DocumentFacts
  <1>2. Below(r) = {c[1]}
    <2>1. Kind(r) # "alias" /\ 1 \in 1 .. Len(c) /\ \A i \in 1 .. Len(c) : i = 1
      BY <1>1
    <2>2. c[1] \in Below(r) /\ \A m \in Below(r) : m = c[1]
      BY <1>1, <2>1, BelowTyped
    <2>3. QED
      BY <2>2
  <1>3. Under(r) \subseteq Nodes /\ Below(r) \subseteq Under(r) /\ \A x \in Under(r) : Below(x) \subseteq Under(r)
    BY <1>1, UnderClosed
  <1>4. Target = r \/ Target = c[1]
    BY DEF Target
  <1>5. QED
    BY <1>1, <1>2, <1>3, <1>4 DEF Reached

LEMMA AliasCycle ==
  ASSUME IsDocument(document), NEW fs, Framed(fs), NEW v, OnPath(fs, v), v # Nowhere,
         Kind(v.node) = "alias", NEW depth, NEW anchors, Balanced(fs, depth, anchors),
         Anchor(v.node) \in anchors
  PROVE  Cyclic
  <1> DEFINE n == v.node
             a == Anchor(n)
  <1>1. PICK i \in Opened(fs) : Anchor(fs[i].node) = a
    BY DEF Balanced
  <1>2. i \in 1 .. Len(fs) /\ fs[i].routine = "alias"
    BY <1>1 DEF Opened
  <1>3. /\ \A j \in 1 .. Len(fs) : Suits(fs[j])
        /\ fs # <<>> => fs[1].node = Target
        /\ n \in Nodes
    BY DEF OnPath
  <1> DEFINE m == fs[i].node
  <1>4. m \in Nodes /\ Kind(m) = "alias"
    BY <1>2, <1>3 DEF Suits
  <1>5. Below(m) = {a} /\ Below(n) = {a}
    BY <1>1, <1>4 DEF Below
  <1>6. n \in Under(m)
    <2>1. Under(m) \subseteq Nodes /\ Below(m) \subseteq Under(m) /\ \A x \in Under(m) : Below(x) \subseteq Under(m)
      BY <1>4, UnderClosed
    <2>2. QED
      BY <1>2, <2>1, PathLeads
  <1>7. a \in Nodes /\ Under(m) \subseteq {a} \cup Under(a)
    BY <1>4, <1>5, UnderAlias
  <1>8. a \in Under(a)
    <2>1. Below(a) \subseteq Under(a) /\ \A x \in Under(a) : Below(x) \subseteq Under(a)
      BY <1>7, UnderClosed
    <2>2. QED
      BY <1>5, <1>6, <1>7, <2>1
  <1>9. n \in Reached
    <2>1. fs # <<>> /\ 1 \in 1 .. Len(fs)
      <3>1. Len(fs) \in Nat /\ (fs = <<>> => Len(fs) = 0)
        BY FramedFacts
      <3>2. QED
        BY <1>2, <3>1
    <2>2. Below(fs[1].node) \subseteq Reached
      BY <1>3, <2>1, TargetFacts
    <2>3. QED
      BY <2>1, <2>2, TargetFacts, PathLeads
  <1>10. a \in Reached
    BY <1>5, <1>9, TargetFacts
  <1>11. QED
    BY <1>8, <1>10 DEF Cyclic, Reached

\* A walk that ends well has ranked the document.
LEMMA NoCycle ==
  ASSUME IsDocument(document), NEW w, Walked(<<>>, Nowhere, w)
  PROVE  ~Cyclic /\ w = Expansion[MaxDepth + 1][Target]
  <1>1. PICK D, r, b : Ranked(D, r, b) /\ Target \in D /\ w = Stands(0, Target)
    BY DEF Walked, Progress
  <1>2. document.root \in Nodes
    BY DocumentFacts
  <1>3. \E E, s, t : Ranked(E, s, t) /\ document.root \in E
    <2>1. CASE Target = document.root
      BY <1>1, <2>1
    <2>2. CASE Target # document.root
      <3>1. Below(document.root) \subseteq D
        BY <1>1, <2>2, TargetFacts
      <3>2. \E s, t : Ranked(D \cup {document.root}, s, t)
        BY <1>1, <1>2, <3>1, RankedMore
      <3>3. QED
        BY <3>2
    <2>3. QED
      BY <2>1, <2>2
  <1>4. PICK E, s, t : Ranked(E, s, t) /\ document.root \in E
    BY <1>3
  <1>5. Under(document.root) \subseteq E
    BY <1>4, RankedUnder
  <1>6. \A n \in E : n \notin Under(n)
    BY <1>4, RankedUnder
  <1>7. MaxDepth + 1 - 0 = MaxDepth + 1
    BY YAMLWalkerAssumption
  <1>8. QED
    BY <1>1, <1>4, <1>5, <1>6, <1>7 DEF Cyclic, Stands

-----------------------------------------------------------------------------
(* The steps of the walk *)

\* What UnmarshalYAML is given is a mapping.
Honest == entry = "UnmarshalYAML" => Kind(Target) = "map"

\* Keys and values of the mapping read, but for the value in work.
Kept(fs, v) == IF v # Nowhere \/ Len(fs) > 1 THEN fs[1].at - 2 ELSE fs[1].at

Good == /\ IsDocument(document) /\ Honest /\ WalkInv /\ err = "none"
        /\ Walked(frames, visit, out)

Unmarshals == entry = "UnmarshalYAML"

\* What a step does that neither loses the thread nor hides what was read.
Goes ==
  /\ err' = "none" =>
       /\ Walked(frames', visit', out')
       /\ Unmarshals => frames' = <<>> \/ Kept(frames, visit) <= Kept(frames', visit')
  /\ err' # "none" /\ Unmarshals => Kept(frames, visit) + 2 <= Len(Content(Target))
  /\ err' = "cycle" => Cyclic
  /\ err' # "panic"

LEMMA FirstFrame ==
  ASSUME Good, Unmarshals, frames # <<>> \/ visit # Nowhere
  PROVE  /\ frames # <<>> /\ Len(frames) \in Nat /\ Len(frames) >= 1
         /\ frames[1].at \in Nat /\ frames[1].at <= Len(Content(Target))
         /\ frames[1].routine = "pairs" /\ frames[1].at % 2 = 0 /\ frames[1].node = Target
         /\ Len(Content(Target)) \in Nat /\ Len(Content(Target)) % 2 = 0
  <1>1. Framed(frames) /\ OnPath(frames, visit) /\ IsDocument(document) /\ Kind(Target) = "map"
    BY DEF Good, WalkInv, StackInv, Walked, Honest, Unmarshals
  <1>2. frames # <<>>
    <2>1. CASE visit = Nowhere
      BY <2>1
    <2>2. CASE visit # Nowhere
      BY <1>1, <2>2 DEF OnPath, Unmarshals
    <2>3. QED
      BY <2>1, <2>2
  <1>3. Len(frames) \in Nat /\ Len(frames) >= 1 /\ 1 \in 1 .. Len(frames)
    <2>1. Len(frames) \in Nat /\ Len(frames) >= 1
      BY <1>1, <1>2, FramedFacts
    <2>2. QED
      BY <2>1
  <1>4. Suits(frames[1]) /\ frames[1].node = Target
    BY <1>1, <1>2, <1>3 DEF OnPath
  <1>5. Target \in Nodes /\ Len(Content(Target)) \in Nat /\ Len(Content(Target)) % 2 = 0
    <2>1. Target \in Nodes
      BY <1>4 DEF Suits
    <2>2. QED
      BY <1>1, <2>1, DocumentFacts, ContentFacts
  <1>6. /\ frames[1].at \in 0 .. Len(Content(Target))
        /\ frames[1].routine = "pairs" /\ frames[1].at % 2 = 0
    BY <1>1, <1>4 DEF Suits
  <1>7. QED
    BY <1>2, <1>3, <1>4, <1>5, <1>6

LEMMA GoodFacts ==
  ASSUME Good
  PROVE  /\ IsDocument(document) /\ Framed(frames) /\ Walked(frames, visit, out)
         /\ OnPath(frames, visit) /\ Balanced(frames, aliasDepth, aliases)
         /\ visit # Nowhere => visit.depth = Len(frames) /\ visit.node \in Nodes
         /\ Len(frames) \in Nat /\ Len(frames) <= MaxDepth + 1 /\ MaxDepth \in Nat
  <1>1. /\ IsDocument(document) /\ Framed(frames) /\ Walked(frames, visit, out)
        /\ Balanced(frames, aliasDepth, aliases)
        /\ visit # Nowhere => visit.depth = Len(frames)
    BY DEF Good, WalkInv, StackInv
  <1>2. OnPath(frames, visit) /\ (visit # Nowhere => visit.node \in Nodes)
    BY <1>1 DEF Walked, OnPath
  <1>3. QED
    BY <1>1, <1>2, FramedFacts

\* An error before the last value.
LEMMA FailGoes ==
  ASSUME Good, NEW e, e \notin {"none", "panic"}, e = "cycle" => Cyclic, Fail(e),
         visit # Nowhere \/ (frames # <<>> /\ Top.at < Len(Content(Top.node)))
  PROVE  Goes
  <1>1. err' = e
    BY DEF Fail
  <1>2. ASSUME Unmarshals PROVE Kept(frames, visit) + 2 <= Len(Content(Target))
    <2> DEFINE a == frames[1].at
               l == Len(Content(Target))
    <2>1. /\ Len(frames) \in Nat /\ Len(frames) >= 1
          /\ a \in Nat /\ a <= l /\ a % 2 = 0 /\ frames[1].node = Target
          /\ l \in Nat /\ l % 2 = 0
      BY <1>2, FirstFrame
    <2>2. CASE visit # Nowhere \/ Len(frames) > 1
      <3>1. Kept(frames, visit) = a - 2
        BY <2>2 DEF Kept
      <3> HIDE DEF a, l
      <3>2. a - 2 + 2 <= l
        BY <2>1
      <3>3. QED
        BY <3>1, <3>2 DEF l
    <2>3. CASE visit = Nowhere /\ Len(frames) = 1
      <3>1. Kept(frames, visit) = a
        BY <2>3 DEF Kept
      <3>2. Top = frames[1]
        BY <2>3 DEF Top, Last
      <3>3. a < l
        BY <2>1, <2>3, <3>2
      <3> HIDE DEF a, l
      <3>4. a + 2 <= l
        BY <2>1, <3>3
      <3>5. QED
        BY <3>1, <3>4 DEF l
    <2>4. Len(frames) > 1 \/ Len(frames) = 1
      <3> HIDE DEF a, l
      <3>1. QED
        BY <2>1
    <2>5. QED
      BY <2>2, <2>3, <2>4, Zenon
  <1>3. QED
    BY <1>1, <1>2 DEF Goes

\* A frame more leaves the first as it is, and so does a frame less.
LEMMA PushKept ==
  ASSUME Good, Unmarshals, visit # Nowhere, NEW f, Framed(frames'), Len(frames') = Len(frames) + 1,
         \A i \in 1 .. Len(frames) : frames'[i] = frames[i]
  PROVE  Kept(frames, visit) <= Kept(frames', visit')
  <1>1. Len(frames) \in Nat /\ Len(frames) >= 1 /\ frames[1].at \in Nat
    BY FirstFrame
  <1>2. 1 \in 1 .. Len(frames) /\ Len(frames') > 1
    BY <1>1
  <1>3. frames'[1] = frames[1]
    BY <1>2
  <1>4. Kept(frames, visit) = frames[1].at - 2 /\ Kept(frames', visit') = frames[1].at - 2
    BY <1>2, <1>3 DEF Kept
  <1>5. frames[1].at - 2 <= frames[1].at - 2
    BY <1>1
  <1>6. QED
    BY <1>4, <1>5

LEMMA PushGoes ==
  ASSUME Good, visit # Nowhere, ~(visit.depth > MaxDepth), NEW routine, NEW token,
         \/ Kind(visit.node) \in {"document", "seq"} /\ routine = "list"
         \/ Kind(visit.node) = "map" /\ routine = "pairs",
         token = Opens(visit.node), Push(visit.node, routine, token)
  PROVE  Goes
  <1>1. /\ IsDocument(document) /\ Framed(frames) /\ Walked(frames, visit, out)
        /\ visit.depth = Len(frames) /\ Len(frames) \in Nat /\ MaxDepth \in Nat
    BY GoodFacts
  <1>2. Len(frames) <= MaxDepth /\ visit.depth <= MaxDepth
    BY <1>1
  <1>3. /\ Pushed(frames, frames', visit.node, routine) /\ visit' = Nowhere /\ err' = err
        /\ out' = Append(out, token)
    BY <1>1 DEF Push, Pushed
  <1>4. Walked(frames', visit', out')
    BY <1>1, <1>2, <1>3, PushWalks
  <1>5. Unmarshals => Kept(frames, visit) <= Kept(frames', visit')
    <2>1. Framed(frames') /\ Len(frames') = Len(frames) + 1 /\ \A i \in 1 .. Len(frames) : frames'[i] = frames[i]
      BY <1>1, <1>2, <1>3, PushFramed
    <2>2. QED
      BY <2>1, PushKept
  <1>6. err' = "none"
    BY <1>3 DEF Good
  <1>7. QED
    BY <1>4, <1>5, <1>6 DEF Goes

LEMMA AliasGoes ==
  ASSUME Good, visit # Nowhere, ~(visit.depth > MaxDepth), Kind(visit.node) = "alias", Alias(visit.node)
  PROVE  Goes
  <1>1. /\ IsDocument(document) /\ Framed(frames) /\ Walked(frames, visit, out)
        /\ OnPath(frames, visit) /\ Balanced(frames, aliasDepth, aliases)
        /\ visit.depth = Len(frames) /\ Len(frames) \in Nat /\ MaxDepth \in Nat
    BY GoodFacts
  <1>2. CASE Anchor(visit.node) \in aliases
    <2>1. Cyclic
      BY <1>1, <1>2, AliasCycle
    <2>2. Fail("cycle")
      BY <1>2 DEF Alias
    <2>3. QED
      BY <2>1, <2>2, FailGoes
  <1>3. CASE Anchor(visit.node) \notin aliases
    <2>1. Len(frames) <= MaxDepth /\ visit.depth <= MaxDepth
      BY <1>1
    <2>2. /\ Pushed(frames, frames', visit.node, "alias") /\ err' = err /\ out' = out
          /\ visit' = [node |-> Anchor(visit.node), depth |-> visit.depth + 1]
      BY <1>1, <1>3 DEF Alias, Pushed
    <2>3. visit'.node = Anchor(visit.node)
      BY <2>2
    <2>4. Walked(frames', visit', out')
      BY <1>1, <2>1, <2>2, <2>3, AliasWalks
    <2>5. Unmarshals => Kept(frames, visit) <= Kept(frames', visit')
      <3>1. /\ Framed(frames') /\ Len(frames') = Len(frames) + 1
            /\ \A i \in 1 .. Len(frames) : frames'[i] = frames[i]
        BY <1>1, <2>1, <2>2, PushFramed
      <3>2. QED
        BY <3>1, PushKept
    <2>6. err' = "none"
      BY <2>2 DEF Good
    <2>7. QED
      BY <2>4, <2>5, <2>6 DEF Goes
  <1>4. QED
    BY <1>2, <1>3

LEMMA ScalarGoes ==
  ASSUME Good, visit # Nowhere, ~(visit.depth > MaxDepth), Scalar(visit.node)
  PROVE  Goes
  <1>1. CASE Kind(visit.node) # "scalar"
    <2>1. Fail("scalar")
      BY <1>1 DEF Scalar
    <2>2. QED
      BY <2>1, FailGoes
  <1>2. CASE Kind(visit.node) = "scalar"
    <2>1. /\ IsDocument(document) /\ Framed(frames) /\ Walked(frames, visit, out)
          /\ visit.depth = Len(frames) /\ Len(frames) \in Nat /\ MaxDepth \in Nat
      BY GoodFacts
    <2>2. visit.depth <= MaxDepth
      BY <2>1
    <2>3. out' = Append(out, visit.node) /\ visit' = Nowhere /\ frames' = frames /\ err' = err
      BY <1>2 DEF Scalar
    <2>4. Walked(frames', visit', out')
      BY <1>2, <2>1, <2>2, <2>3, ScalarWalks
    <2>5. ASSUME Unmarshals PROVE Kept(frames, visit) <= Kept(frames', visit')
      <3>1. frames[1].at \in Nat
        BY <2>5, FirstFrame
      <3> DEFINE a == frames[1].at
      <3>2. Kept(frames, visit) = a - 2 /\ Kept(frames', visit') \in {a - 2, a}
        BY <2>3 DEF Kept
      <3> HIDE DEF a
      <3>3. a - 2 <= a - 2 /\ a - 2 <= a
        BY <3>1 DEF a
      <3>4. QED
        BY <3>2, <3>3
    <2>6. err' = "none"
      BY <2>3 DEF Good
    <2>7. QED
      BY <2>4, <2>5, <2>6 DEF Goes
  <1>3. QED
    BY <1>1, <1>2

LEMMA NodeGoes ==
  ASSUME Good, Node
  PROVE  Goes
  <1> DEFINE n == visit.node
  <1>1. visit # Nowhere /\ n \in Nodes /\ IsDocument(document)
    BY GoodFacts DEF Node, Walking
  <1>2. CASE visit.depth > MaxDepth
    <2>1. Fail("depth")
      BY <1>2 DEF Node
    <2>2. QED
      BY <1>1, <2>1, FailGoes
  <1>3. CASE ~(visit.depth > MaxDepth) /\ Broke
    <2>1. Fail("aliasing")
      BY <1>3 DEF Node
    <2>2. QED
      BY <1>1, <2>1, FailGoes
  <1>4. CASE ~(visit.depth > MaxDepth) /\ ~Broke
    <2>1. CASE Kind(n) = "document"
      <3>1. Push(n, "list", "---")
        BY <1>4, <2>1, Zenon DEF Node
      <3>2. Opens(n) = "---"
        BY <2>1 DEF Opens
      <3>3. QED
        BY <1>1, <1>4, <2>1, <3>1, <3>2, PushGoes
    <2>2. CASE Kind(n) = "seq"
      <3>1. Push(n, "list", "[")
        BY <1>4, <2>2, Zenon DEF Node
      <3>2. Opens(n) = "["
        BY <2>2 DEF Opens
      <3>3. QED
        BY <1>1, <1>4, <2>2, <3>1, <3>2, PushGoes
    <2>3. CASE Kind(n) = "map"
      <3>1. Push(n, "pairs", "{")
        BY <1>4, <2>3, Zenon DEF Node
      <3>2. Opens(n) = "{"
        BY <2>3 DEF Opens
      <3>3. QED
        BY <1>1, <1>4, <2>3, <3>1, <3>2, PushGoes
    <2>4. CASE Kind(n) = "alias"
      <3>1. Alias(n)
        BY <1>4, <2>4, Zenon DEF Node
      <3>2. QED
        BY <1>1, <1>4, <2>4, <3>1, AliasGoes
    <2>5. CASE Kind(n) \notin {"document", "seq", "map", "alias"}
      <3>1. Scalar(n)
        BY <1>4, <2>5, Zenon DEF Node
      <3>2. QED
        BY <1>1, <1>4, <3>1, ScalarGoes
    <2>6. QED
      BY <2>1, <2>2, <2>3, <2>4, <2>5, Zenon
  <1>5. QED
    BY <1>2, <1>3, <1>4

\* What is idle, and its top.
LEMMA IdleGood ==
  ASSUME Good, Idle
  PROVE  /\ visit = Nowhere /\ frames # <<>> /\ Walked(frames, Nowhere, out)
         /\ Top = frames[Len(frames)] /\ Suits(Top) /\ Top.node \in Nodes
         /\ Top.at \in Nat /\ Len(Content(Top.node)) \in Nat /\ Top.at <= Len(Content(Top.node))
         /\ Top.depth = Len(frames) - 1 /\ Len(frames) \in Nat /\ Len(frames) >= 1
  <1>1. visit = Nowhere /\ frames # <<>> /\ Framed(frames) /\ IsDocument(document)
    BY GoodFacts DEF Idle
  <1>2. Walked(frames, Nowhere, out)
    BY <1>1 DEF Good
  <1>3. Top = frames[Len(frames)]
    BY DEF Top, Last
  <1>4. Suits(Top) /\ Top.depth = Len(frames) - 1
    BY <1>1, <1>2, <1>3, IdleFacts
  <1>5. Top.node \in Nodes /\ Top.at \in 0 .. Len(Content(Top.node))
    BY <1>4 DEF Suits
  <1>6. Len(Content(Top.node)) \in Nat
    BY <1>1, <1>5, ContentFacts
  <1>7. Len(frames) \in Nat /\ Len(frames) >= 1
    BY <1>1, FramedFacts
  <1>8. QED
    BY <1>1, <1>2, <1>3, <1>4, <1>5, <1>6, <1>7

\* Another child: of the mapping read, or further down.
LEMMA ReadKept ==
  ASSUME Good, Unmarshals, Idle, NEW step \in {1, 2}, Advanced(frames, frames', step), visit' # Nowhere,
         step = 2 \/ Top.routine = "list"
  PROVE  Kept(frames, visit) <= Kept(frames', visit')
  <1> DEFINE n == Len(frames)
             a == frames[1].at
  <1>1. visit = Nowhere /\ frames # <<>> /\ Framed(frames) /\ n \in Nat /\ n >= 1 /\ Top = frames[n]
    BY IdleGood, GoodFacts
  <1>2. a \in Nat /\ frames[1].routine = "pairs"
    BY <1>1, FirstFrame
  <1>3. /\ Len(frames') = n /\ \A i \in 1 .. n - 1 : frames'[i] = frames[i]
        /\ frames'[n] = [node |-> frames[n].node, routine |-> frames[n].routine,
                         at |-> frames[n].at + step, depth |-> n - 1]
    BY <1>1, ReadMore
  <1>4. Kept(frames', visit') = frames'[1].at - 2
    BY DEF Kept
  <1>5. CASE n = 1
    <2>1. frames'[1].at = a + 2
      BY <1>1, <1>2, <1>3, <1>5
    <2>2. Kept(frames, visit) = a
      BY <1>1, <1>5 DEF Kept
    <2>3. \A i \in Nat : i <= i + 2 - 2
      OBVIOUS
    <2>4. QED
      BY <1>2, <1>4, <2>1, <2>2, <2>3
  <1>6. CASE n # 1
    <2>1. 1 \in 1 .. n - 1 /\ n > 1
      <3> HIDE DEF n
      <3>1. QED
        BY <1>1, <1>6
    <2>2. Kept(frames, visit) = a - 2 /\ Kept(frames', visit') = a - 2
      BY <1>3, <1>4, <2>1 DEF Kept
    <2> HIDE DEF a
    <2>3. a - 2 <= a - 2
      BY <1>2
    <2>4. QED
      BY <2>2, <2>3
  <1>7. QED
    BY <1>5, <1>6

LEMMA NextItemGoes ==
  ASSUME Good, NextItem
  PROVE  Goes
  <1>1. Idle /\ Top.routine = "list" /\ Top.at < Len(Content(Top.node)) /\ Child(1) /\ err' = err /\ out' = out
    BY DEF NextItem
  <1>2. /\ visit = Nowhere /\ frames # <<>> /\ Walked(frames, Nowhere, out)
        /\ Top = frames[Len(frames)] /\ IsDocument(document) /\ Framed(frames)
    BY <1>1, IdleGood, GoodFacts
  <1>3. Advanced(frames, frames', 1) /\ visit'.node = Content(Top.node)[Top.at + 1]
    BY <1>1 DEF Child, Advanced
  <1>4. Walked(frames', visit', out')
    BY <1>1, <1>2, <1>3, ItemWalks
  <1>5. visit' # Nowhere
    <2>1. Top.node \in Nodes /\ Top.at \in Nat /\ Len(Content(Top.node)) \in Nat
      BY <1>1, IdleGood
    <2>2. Top.at + 1 \in 1 .. Len(Content(Top.node))
      BY <1>1, <2>1
    <2>3. visit'.node \in Nodes /\ 0 \notin Nodes /\ Nowhere.node = 0
      BY <1>2, <1>3, <2>1, <2>2, ContentFacts, DocumentFacts DEF Nowhere
    <2>4. QED
      BY <2>3
  <1>6. Unmarshals => Kept(frames, visit) <= Kept(frames', visit')
    BY <1>1, <1>3, <1>5, ReadKept
  <1>7. err' = "none"
    BY <1>1 DEF Good
  <1>8. QED
    BY <1>4, <1>6, <1>7 DEF Goes

LEMMA NextPairGoes ==
  ASSUME Good, NextPair
  PROVE  Goes
  <1> DEFINE c == Content(Top.node)
             key == c[Top.at + 1]
  <1>1. Idle /\ Top.routine = "pairs" /\ Top.at < Len(c)
    BY DEF NextPair
  <1>2. /\ visit = Nowhere /\ frames # <<>> /\ Walked(frames, Nowhere, out)
        /\ Top = frames[Len(frames)] /\ IsDocument(document) /\ Framed(frames)
        /\ Suits(Top) /\ Top.node \in Nodes /\ Top.at \in Nat /\ Len(c) \in Nat
    BY <1>1, IdleGood, GoodFacts
  <1>3. Top.at + 2 <= Len(c)
    <2>1. Top.at % 2 = 0 /\ Kind(Top.node) = "map"
      BY <1>1, <1>2 DEF Suits
    <2>2. Len(c) % 2 = 0
      BY <1>2, <2>1, DocumentFacts
    <2> DEFINE a == Top.at
               l == Len(c)
    <2>3. a \in Nat /\ l \in Nat /\ a < l /\ a % 2 = 0 /\ l % 2 = 0
      BY <1>1, <1>2, <2>1, <2>2
    <2> HIDE DEF a, l
    <2>4. a + 2 <= l
      BY <2>3
    <2>5. QED
      BY <2>4 DEF a, l
  <1>4. CASE Broke
    <2>1. Fail("aliasing")
      BY <1>4 DEF NextPair
    <2>2. QED
      BY <1>1, <1>2, <2>1, FailGoes
  <1>5. CASE ~Broke /\ Kind(key) # "scalar"
    <2>1. Fail("key")
      BY <1>5 DEF NextPair
    <2>2. QED
      BY <1>1, <1>2, <2>1, FailGoes
  <1>6. CASE ~Broke /\ Kind(key) = "scalar"
    <2>0. ~(Top.at + 2 > Len(c))
      BY <1>2, <1>3
    <2>1. Child(2) /\ out' = Append(out, key) /\ err' = err
      BY <1>6, <2>0, Zenon DEF NextPair
    <2>2. /\ Advanced(frames, frames', 2) /\ visit'.node = c[Top.at + 2]
          /\ visit'.depth = Top.depth + 1
      BY <2>1 DEF Child, Advanced
    <2>3. Walked(frames', visit', out')
      BY <1>1, <1>2, <1>3, <1>6, <2>1, <2>2, PairWalks
    <2>4. visit' # Nowhere
      <3>1. Top.at + 2 \in 1 .. Len(c)
        BY <1>2, <1>3
      <3>2. visit'.node \in Nodes /\ 0 \notin Nodes /\ Nowhere.node = 0
        BY <1>2, <2>2, <3>1, ContentFacts, DocumentFacts DEF Nowhere
      <3>3. QED
        BY <3>2
    <2>5. Unmarshals => Kept(frames, visit) <= Kept(frames', visit')
      BY <1>1, <2>2, <2>4, ReadKept
    <2>6. err' = "none"
      BY <2>1 DEF Good
    <2>7. QED
      BY <2>3, <2>5, <2>6 DEF Goes
  <1>7. QED
    BY <1>4, <1>5, <1>6

LEMMA LeaveGoes ==
  ASSUME Good, Idle, frames' = Front(frames), visit' = visit, err' = err,
         \/ Top.routine = "alias" /\ out' = out
         \/ /\ Top.routine # "alias" /\ Top.at >= Len(Content(Top.node))
            /\ out' = Append(out, "end")
  PROVE  Goes
  <1> DEFINE n == Len(frames)
             a == frames[1].at
  <1>1. /\ visit = Nowhere /\ frames # <<>> /\ Walked(frames, Nowhere, out)
        /\ Top = frames[n] /\ IsDocument(document) /\ Framed(frames) /\ n \in Nat /\ n >= 1
    BY IdleGood, GoodFacts
  <1>2. Walked(frames', visit', out')
    BY <1>1, PopWalks
  <1>3. ASSUME Unmarshals, frames' # <<>> PROVE Kept(frames, visit) <= Kept(frames', visit')
    <2>1. a \in Nat
      BY <1>1, <1>3, FirstFrame
    <2>2. /\ Framed(frames') /\ Len(frames') = n - 1
          /\ \A i \in 1 .. n - 1 : frames'[i] = frames[i]
      BY <1>1, PopFramed
    <2>3. Len(frames') >= 1
      BY <1>3, <2>2, FramedFacts
    <2>4. 1 \in 1 .. n - 1 /\ n > 1
      <3> HIDE DEF n
      <3>1. QED
        BY <1>1, <2>2, <2>3
    <2>5. frames'[1] = frames[1]
      BY <2>2, <2>4
    <2>6. Kept(frames, visit) = a - 2 /\ Kept(frames', visit') \in {a - 2, a}
      BY <2>4, <2>5 DEF Kept
    <2> HIDE DEF a
    <2>7. a - 2 <= a - 2 /\ a - 2 <= a
      BY <2>1
    <2>8. QED
      BY <2>6, <2>7
  <1>4. err' = "none"
    BY DEF Good
  <1>5. QED
    BY <1>2, <1>3, <1>4 DEF Goes

-----------------------------------------------------------------------------
(* The document stays *)

LEMMA SameExpansion ==
  ASSUME document' = document
  PROVE  Expansion' = Expansion
  BY DEF Expansion, Nodes, Kind, Content, Anchor

LEMMA SameCyclic ==
  ASSUME document' = document
  PROVE  Cyclic' <=> Cyclic
  <1>1. DownTo' = DownTo
    BY DEF DownTo, Nodes, Below, Kind, Content, Anchor
  <1>2. QED
    BY <1>1 DEF Cyclic, Under, Nodes

LEMMA SameWalked ==
  ASSUME document' = document, entry' = entry, Walked(frames', visit', out')
  PROVE  Walked(frames, visit, out)'
  <1>1. Expansion' = Expansion
    BY SameExpansion
  <1>2. OnPath(frames', visit') /\ Progress(frames', visit', out')
    BY DEF Walked
  <1>3. OnPath(frames, visit)'
    BY <1>2 DEF OnPath, Suits, Leads, Current, Comes, Target, Nodes, Kind, Content, Anchor, Nowhere
  <1>4. Nodes' = Nodes /\ Tokens' = Tokens /\ Target' = Target
    BY DEF Nodes, Tokens, Target, Content
  <1>5. ASSUME NEW n PROVE Below(n)' = Below(n) /\ Anchor(n)' = Anchor(n) /\ Content(n)' = Content(n) /\ Opens(n)' = Opens(n)
    BY DEF Below, Anchor, Content, Kind, Opens
  <1>6. ASSUME NEW d, NEW n PROVE Stands(d, n)' = Stands(d, n)
    BY <1>1 DEF Stands
  <1>7. ASSUME NEW d, NEW n, NEW j PROVE Inside(d, n, j)' = Inside(d, n, j)
    BY <1>1 DEF Inside, Stands, Content
  <1>8. ASSUME NEW f, NEW D PROVE /\ Before(f)' = Before(f) /\ Sofar(f)' = Sofar(f)
          /\ (Passed(f, D)' <=> Passed(f, D)) /\ (Through(f, D)' <=> Through(f, D))
    <2>1. Before(f)' = Before(f)
      BY <1>5, <1>7 DEF Before
    <2>2. Sofar(f)' = Sofar(f)
      BY <1>5, <1>6, <1>7 DEF Sofar
    <2>3. (Passed(f, D)' <=> Passed(f, D)) /\ (Through(f, D)' <=> Through(f, D))
      BY DEF Passed, Through, Content, Anchor
    <2>4. QED
      BY <2>1, <2>2, <2>3
  <1>9. ASSUME NEW D, NEW r, NEW b PROVE Ranked(D, r, b)' = Ranked(D, r, b)
    BY <1>4, <1>5 DEF Ranked
  <1>10. ASSUME NEW fs, NEW p, NEW w, NEW D PROVE Prior(fs, p, w, D)' <=> Prior(fs, p, w, D)
    <2>1. \A f : Before(f)' = Before(f) /\ (Passed(f, D)' <=> Passed(f, D))
      BY <1>8
    <2>2. \A g : (/\ g[0] = <<>> /\ g[p] = w
                  /\ \A i \in 1 .. p : g[i] = g[i - 1] \o Before(fs[i])' /\ Passed(fs[i], D)')
             <=> (/\ g[0] = <<>> /\ g[p] = w
                  /\ \A i \in 1 .. p : g[i] = g[i - 1] \o Before(fs[i]) /\ Passed(fs[i], D))
      BY <2>1
    <2>3. QED
      BY <1>4, <2>2, Zenon DEF Prior
  <1>11. Progress(frames, visit, out)'
    BY <1>2, <1>4, <1>6, <1>8, <1>9, <1>10 DEF Progress, Nowhere
  <1>12. QED
    BY <1>3, <1>11 DEF Walked

-----------------------------------------------------------------------------
(* The receiver *)

\* The items of receiver rc, once fs, v and e are the stack, the visit and the error:
\* all of the mapping in the end, and before, no more than what was read.
ReceivedIs(rc, fs, v, e) ==
  /\ rc \in [items : Seq(Nat), room : Nat]
  /\ Unmarshals =>
       IF e = "none" /\ fs = <<>> THEN rc.items = [i \in 1 .. Pairs |-> i]
       ELSE \A i \in DOMAIN rc.items : rc.items[i] # 0 =>
              /\ rc.room >= Pairs
              /\ IF e = "none" THEN 2 * i <= Kept(fs, v) ELSE i < Pairs

LEMMA SameReceived ==
  ASSUME document' = document, entry' = entry, ReceivedIs(receiver', frames', visit', err')
  PROVE  ReceivedIs(receiver, frames, visit, err)'
  BY DEF ReceivedIs, Unmarshals, Pairs, Target, Content, Kept, Nowhere

\* A step of the walk, and what it does to the receiver.
LEMMA ReceivedStep ==
  ASSUME Good, Goes, frames # <<>> \/ visit # Nowhere, WalkInv',
         ReceivedIs(receiver, frames, visit, err), Receive, document' = document, entry' = entry
  PROVE  ReceivedIs(receiver', frames', visit', err')
  <1>1. receiver \in [items : Seq(Nat), room : Nat] /\ err = "none"
    BY DEF ReceivedIs, Good
  <1>2. CASE ~Unmarshals
    <2>1. receiver' = receiver
      BY <1>2 DEF Receive, Unmarshals
    <2>2. QED
      BY <1>1, <1>2, <2>1 DEF ReceivedIs
  <1>3. CASE Unmarshals
    <2> DEFINE l == Len(Content(Target))
               k == Kept(frames, visit)
    <2>1. /\ frames # <<>> /\ Len(frames) \in Nat /\ Len(frames) >= 1
          /\ frames[1].at \in Nat /\ l \in Nat /\ l % 2 = 0
      BY <1>3, FirstFrame
    <2>2. Pairs = l \div 2 /\ Pairs \in Nat /\ 2 * Pairs = l
      <3>1. Pairs = l \div 2
        BY DEF Pairs
      <3> HIDE DEF l
      <3>2. l \div 2 \in Nat /\ 2 * (l \div 2) = l
        BY <2>1
      <3>3. QED
        BY <3>1, <3>2
    <2>3. \A i \in DOMAIN receiver.items : receiver.items[i] # 0 => receiver.room >= Pairs /\ 2 * i <= k
      BY <1>1, <1>3, <2>1 DEF ReceivedIs
    <2>4. receiver.items \in Seq(Nat) /\ receiver.room \in Nat
          /\ DOMAIN receiver.items = 1 .. Len(receiver.items) /\ Len(receiver.items) \in Nat
      BY <1>1, LenProperties
    <2>5. k \in Int
      <3>1. k = frames[1].at - 2 \/ k = frames[1].at
        BY DEF Kept
      <3>2. QED
        BY <2>1, <3>1
    <2>6. CASE err' # "none"
      <3>1. receiver' = receiver /\ k + 2 <= l
        BY <1>3, <2>6 DEF Receive, Goes
      <3>2. ASSUME NEW i \in DOMAIN receiver.items, receiver.items[i] # 0 PROVE i < Pairs
        <4>1. 2 * i <= k /\ i \in Nat
          BY <2>3, <2>4, <3>2
        <4> HIDE DEF k, l
        <4>2. QED
          BY <2>2, <2>5, <3>1, <4>1
      <3>3. QED
        BY <1>1, <2>3, <2>6, <3>1, <3>2 DEF ReceivedIs
    <2>7. CASE err' = "none" /\ frames' = <<>>
      <3>1. /\ Walked(frames', visit', out')
        BY <2>7 DEF Goes
      <3>2. visit' = Nowhere
        BY <1>3, <2>7, <3>1 DEF Walked, OnPath, Unmarshals
      <3>3. receiver' = Assigned
        BY <1>3, <2>7, <3>2 DEF Receive, Unmarshals, Nowhere
      <3>4. Assigned = [items |-> [i \in 1 .. Pairs |-> i], room |-> receiver.room]
        <4> DEFINE all == [i \in 1 .. Pairs |-> i]
        <4>1. receiver = [items |-> receiver.items, room |-> receiver.room]
          BY <1>1
        <4>2. Assigned = [receiver EXCEPT !.items = all]
          BY DEF Assigned
        <4> HIDE DEF all
        <4>3. Assigned = [items |-> all, room |-> receiver.room]
          BY <4>1, <4>2
        <4>4. QED
          BY <4>3 DEF all
      <3>5. [i \in 1 .. Pairs |-> i] \in Seq(Nat)
        <4>1. [i \in 1 .. Pairs |-> i] \in [1 .. Pairs -> Nat]
          OBVIOUS
        <4>2. QED
          BY <2>2, <4>1, FunctionSeq
      <3>6. QED
        BY <2>4, <2>7, <3>3, <3>4, <3>5 DEF ReceivedIs
    <2>8. CASE err' = "none" /\ frames' # <<>>
      <3> DEFINE q == Kept(frames', visit')
                 a == frames'[1].at
      <3>1. k <= q /\ Walked(frames', visit', out')
        BY <1>3, <2>8 DEF Goes
      <3>2. Framed(frames')
        BY DEF WalkInv, StackInv, Framed
      <3>3. Len(frames') \in Nat /\ Len(frames') >= 1
        BY <2>8, <3>2, FramedFacts
      <3>4. a \in Nat
        <4>1. 1 \in 1 .. Len(frames')
          BY <3>3
        <4>2. Suits(frames'[1])
          BY <3>1, <4>1 DEF Walked, OnPath
        <4>3. frames'[1].node \in Nodes /\ a \in 0 .. Len(Content(frames'[1].node))
          BY <4>2 DEF Suits
        <4>4. Len(Content(frames'[1].node)) \in Nat
          BY <4>3, ContentFacts DEF Good
        <4>5. QED
          BY <4>3, <4>4
      <3>5. q \in Int
        <4>1. q = a - 2 \/ q = a
          BY DEF Kept
        <4>2. QED
          BY <3>4, <4>1
      <3>6. \A i \in DOMAIN receiver.items : receiver.items[i] # 0 => receiver.room >= Pairs /\ 2 * i <= q
        <4>1. ASSUME NEW i \in DOMAIN receiver.items, receiver.items[i] # 0 PROVE 2 * i <= q
          <5>1. 2 * i <= k /\ i \in Nat
            BY <2>3, <2>4, <4>1
          <5> HIDE DEF k, q
          <5>2. QED
            BY <2>5, <3>1, <3>5, <5>1
        <4>2. QED
          BY <2>3, <4>1
      <3>7. CASE receiver' = receiver
        BY <1>1, <2>8, <3>6, <3>7 DEF ReceivedIs
      <3>8. CASE receiver' # receiver
        <4> DEFINE p == a \div 2
        <4>1. visit' = Nowhere /\ Len(frames') = 1 /\ receiver' = Stored(p)
          BY <2>8, <3>8 DEF Receive, Nowhere
        <4>2. p \in Nat /\ 2 * p <= a
          <5> HIDE DEF a
          <5>1. QED
            BY <3>4
        <4>3. q = a
          BY <4>1 DEF Kept
        <4> HIDE DEF p, q, a
        <4>4. InPlace /\ p \in DOMAIN receiver.items /\ receiver' = [receiver EXCEPT !.items[p] = p]
          BY <3>8, <4>1 DEF Stored
        <4> DEFINE t == [receiver.items EXCEPT ![p] = p]
        <4>5. /\ receiver' = [items |-> t, room |-> receiver.room]
          BY <1>1, <4>4
        <4>6. t \in Seq(Nat) /\ DOMAIN t = DOMAIN receiver.items
          <5> DEFINE s == receiver.items
          <5>1. s \in [1 .. Len(s) -> Nat]
            BY <2>4
          <5>2. t \in [1 .. Len(s) -> Nat]
            BY <4>2, <5>1
          <5>3. QED
            BY <2>4, <5>2, FunctionSeq
        <4>7. \A i \in DOMAIN t : t[i] = IF i = p THEN p ELSE receiver.items[i]
          BY <2>4
        <4> HIDE DEF t
        <4>8. ASSUME NEW i \in DOMAIN t, t[i] # 0 PROVE receiver.room >= Pairs /\ 2 * i <= q
          <5>1. CASE i = p
            BY <4>2, <4>3, <4>4, <5>1 DEF InPlace
          <5>2. CASE i # p
            BY <3>6, <4>6, <4>7, <4>8, <5>2
          <5>3. QED
            BY <5>1, <5>2
        <4>9. QED
          BY <2>4, <2>8, <4>5, <4>6, <4>8 DEF ReceivedIs, q
      <3>9. QED
        BY <3>7, <3>8
    <2>9. QED
      BY <2>6, <2>7, <2>8
  <1>4. QED
    BY <1>2, <1>3

-----------------------------------------------------------------------------
\* The document is one of those, and stays.
Given == document \in Documents

\* What the walk of a document read as it should be knows of it.
Reads ==
  Honest =>
    /\ err = "none" => Walked(frames, visit, out)
    /\ err = "cycle" => Cyclic
    /\ err # "panic"
    /\ ReceivedIs(receiver, frames, visit, err)

LEMMA ReadsMoves ==
  ASSUME Given, WalkInv, Reads, Honest, err = "none", WalkInv',
         Node \/ NextItem \/ NextPair \/ Leave \/ LeaveAlias, Receive
  PROVE  Reads'
  <1>1. IsDocument(document)
    BY DocumentsAssumption DEF Given
  <1>2. Good /\ ReceivedIs(receiver, frames, visit, err)
    BY <1>1 DEF Good, Reads
  <1>3. document' = document /\ entry' = entry
    BY DEF Node, NextItem, NextPair, Leave, LeaveAlias, input
  <1>4. frames # <<>> \/ visit # Nowhere
    BY DEF Node, NextItem, NextPair, Leave, LeaveAlias, Idle, Walking
  <1>5. Goes
    <2>1. CASE Node
      BY <1>2, <2>1, NodeGoes
    <2>2. CASE NextItem
      BY <1>2, <2>2, NextItemGoes
    <2>3. CASE NextPair
      BY <1>2, <2>3, NextPairGoes
    <2>4. CASE Leave
      <3>1. /\ Idle /\ frames' = Front(frames) /\ visit' = visit /\ err' = err
            /\ Top.routine # "alias" /\ Top.at >= Len(Content(Top.node)) /\ out' = Append(out, "end")
        BY <2>4 DEF Leave
      <3>2. QED
        BY <1>2, <3>1, LeaveGoes
    <2>5. CASE LeaveAlias
      <3>1. /\ Idle /\ frames' = Front(frames) /\ visit' = visit /\ err' = err
            /\ Top.routine = "alias" /\ out' = out
        BY <2>5 DEF LeaveAlias
      <3>2. QED
        BY <1>2, <3>1, LeaveGoes
    <2>6. QED
      BY <2>1, <2>2, <2>3, <2>4, <2>5
  <1>6. ReceivedIs(receiver', frames', visit', err')
    BY <1>2, <1>3, <1>4, <1>5, ReceivedStep
  <1>7. ReceivedIs(receiver, frames, visit, err)'
    BY <1>3, <1>6, SameReceived
  <1>8. err' = "none" => Walked(frames, visit, out)'
    BY <1>3, <1>5, SameWalked DEF Goes
  <1>9. err' = "cycle" => Cyclic'
    BY <1>3, <1>5, SameCyclic DEF Goes
  <1>10. QED
    BY <1>5, <1>7, <1>8, <1>9 DEF Reads, Goes

\* After an error, and when nothing happens.
LEMMA ReadsStays ==
  ASSUME Reads, Honest, document' = document, entry' = entry, err' = err, receiver' = receiver,
         err # "none" \/ UNCHANGED <<frames, visit, out>>
  PROVE  Reads'
  <1>1. err = "none" => frames' = frames /\ visit' = visit /\ out' = out
    OBVIOUS
  <1>2. err' = "none" => Walked(frames, visit, out)'
    <2>1. ASSUME err' = "none" PROVE Walked(frames', visit', out')
      BY <1>1, <2>1 DEF Reads
    <2>2. QED
      BY <2>1, SameWalked
  <1>3. ReceivedIs(receiver', frames', visit', err')
    <2>1. CASE err = "none"
      BY <1>1, <2>1 DEF Reads
    <2>2. CASE err # "none"
      BY <2>2 DEF Reads, ReceivedIs
    <2>3. QED
      BY <2>1, <2>2
  <1>4. ReceivedIs(receiver, frames, visit, err)'
    BY <1>3, SameReceived
  <1>5. err' = "cycle" => Cyclic'
    BY SameCyclic DEF Reads
  <1>6. err' # "panic"
    BY DEF Reads
  <1>7. QED
    BY <1>2, <1>4, <1>5, <1>6 DEF Reads

LEMMA ReadsStep ==
  ASSUME Given, WalkInv, Reads, WalkInv', [Next]_vars
  PROVE  Reads'
  <1>1. document' = document /\ entry' = entry
    BY DEF Next, Node, NextItem, NextPair, Leave, LeaveAlias, Unwind, input, vars
  <1>2. CASE ~Honest
    <2>1. ~Honest'
      BY <1>1, <1>2 DEF Honest, Target, Kind, Content
    <2>2. QED
      BY <2>1 DEF Reads
  <1>3. CASE Honest
    <2>1. CASE UNCHANGED vars
      <3>1. err' = err /\ receiver' = receiver /\ UNCHANGED <<frames, visit, out>>
        BY <2>1 DEF vars
      <3>2. QED
        BY <1>1, <1>3, <3>1, ReadsStays
    <2>2. CASE Unwind /\ Receive
      <3>1. err # "none" /\ err' = err
        BY <2>2 DEF Unwind
      <3>2. receiver' = receiver
        BY <2>2, <3>1 DEF Receive
      <3>3. QED
        BY <1>1, <1>3, <3>1, <3>2, ReadsStays
    <2>3. CASE (Node \/ NextItem \/ NextPair \/ Leave \/ LeaveAlias) /\ Receive
      <3>1. err = "none"
        BY <2>3 DEF Node, NextItem, NextPair, Leave, LeaveAlias, Walking, Idle
      <3>2. QED
        BY <1>3, <2>3, <3>1, ReadsMoves
    <2>4. QED
      BY <2>1, <2>2, <2>3 DEF Next
  <1>4. QED
    BY <1>2, <1>3

LEMMA ReadsStart ==
  ASSUME Init
  PROVE  Given /\ Reads
  <1>1. document \in Documents /\ err = "none" /\ IsDocument(document)
    BY DocumentsAssumption DEF Init, YAMLToJSON, UnmarshalYAML, Start
  <1> SUFFICES ASSUME Honest PROVE Walked(frames, visit, out) /\ ReceivedIs(receiver, frames, visit, err)
    BY <1>1 DEF Given, Reads
  <1>2. Ranked({}, <<>>, 0)
    BY DEF Ranked
  <1>3. Prior(frames, 0, <<>>, {})
    <2> DEFINE g == [i \in 0 .. 0 |-> <<>>]
    <2>1. <<>> \in Seq(Tokens)
      BY EmptySeq
    <2>2. g \in [0 .. 0 -> Seq(Tokens)] /\ g[0] = <<>>
      BY <2>1
    <2> HIDE DEF g
    <2>3. QED
      BY <2>2 DEF Prior
  <1>4. MaxDepth \in Nat
    BY YAMLWalkerAssumption
  <1>5. CASE YAMLToJSON
    <2>1. /\ entry = "YAMLToJSON" /\ receiver = [items |-> <<>>, room |-> 0]
          /\ visit = [node |-> document.root, depth |-> 0] /\ frames = <<>> /\ out = <<>>
      BY <1>5 DEF YAMLToJSON
    <2>2. document.root \in Nodes /\ 0 \notin Nodes
      BY <1>1, DocumentFacts
    <2>3. visit.node = document.root /\ visit # Nowhere /\ Target = document.root /\ Len(frames) = 0
      BY <2>1, <2>2 DEF Target, Nowhere
    <2>4. OnPath(frames, visit)
      BY <2>1, <2>2, <2>3 DEF OnPath, Comes
    <2>5. Progress(frames, visit, out)
      BY <1>2, <1>3, <2>1, <2>3 DEF Progress
    <2>6. receiver \in [items : Seq(Nat), room : Nat]
      BY <2>1, EmptySeq
    <2>7. QED
      BY <2>1, <2>4, <2>5, <2>6 DEF Walked, ReceivedIs, Unmarshals
  <1>6. CASE UnmarshalYAML
    <2> DEFINE n == Content(document.root)[1]
               f == Frame(n, "pairs", 0)
    <2>1. /\ entry = "UnmarshalYAML" /\ receiver \in Receivers
          /\ visit = Nowhere /\ out = <<"{">> /\ frames = <<f>>
      BY <1>6 DEF UnmarshalYAML
    <2>2. Target = n
      BY <2>1 DEF Target
    <2>3. Kind(n) = "map" /\ n \in Nodes
      BY <1>1, <2>1, <2>2, DocumentFacts DEF Honest
    <2>4. f.node = n /\ f.routine = "pairs" /\ f.at = 0 /\ f.depth = 0
      BY DEF Frame
    <2>5. Len(frames) = 1 /\ frames[1] = f /\ frames # <<>>
      BY <2>1
    <2> HIDE DEF n, f
    <2>6. Suits(f)
      <3>1. Len(Content(n)) \in Nat
        BY <1>1, <2>3, ContentFacts
      <3>2. QED
        BY <2>3, <2>4, <3>1 DEF Suits
    <2>7. OnPath(frames, visit)
      <3>1. \A i \in 1 .. Len(frames) : i = 1
        BY <2>5
      <3>2. \A i \in 1 .. Len(frames) - 1 : FALSE
        BY <2>5
      <3>3. frames[1].node = Target
        BY <2>2, <2>4, <2>5
      <3>4. QED
        BY <2>1, <2>5, <2>6, <3>1, <3>2, <3>3 DEF OnPath
    <2>8. Sofar(f) = <<"{">> /\ Through(f, {})
      <3>1. Opens(n) = "{"
        BY <2>3 DEF Opens
      <3>2. Inside(0 + 1, n, 0) = <<>>
        <4>1. 0 + 1 \in 0 .. MaxDepth + 1 /\ 0 \in 0 .. Len(Content(n))
          BY <1>1, <1>4, <2>3, ContentFacts
        <4>2. QED
          BY <1>1, <2>3, <4>1, InsideIs
      <3>3. Sofar(f) = <<"{">> \o <<>>
        BY <2>4, <3>1, <3>2 DEF Sofar
      <3>4. <<"{">> \o <<>> = <<"{">>
        OBVIOUS
      <3>5. \A c \in 1 .. f.at : FALSE
        BY <2>4
      <3>6. QED
        BY <2>4, <3>3, <3>4, <3>5 DEF Through
    <2>9. Progress(frames, visit, out)
      <3>1. <<>> \in Seq(Tokens) /\ <<>> \o <<"{">> = <<"{">> /\ Len(frames) - 1 = 0
        BY <2>5, EmptySeq
      <3>2. \E u \in Seq(Tokens) :
              /\ Prior(frames, Len(frames) - 1, u, {}) /\ out = u \o Sofar(frames[Len(frames)])
              /\ Through(frames[Len(frames)], {})
        BY <1>3, <2>1, <2>5, <2>8, <3>1
      <3>3. QED
        BY <1>2, <2>1, <2>5, <3>2 DEF Progress
    <2>10. receiver \in [items : Seq({0}), room : Nat]
      BY <2>1, DocumentsAssumption
    <2>11. receiver.items \in Seq({0}) /\ receiver.room \in Nat
           /\ receiver = [items |-> receiver.items, room |-> receiver.room]
      BY <2>10
    <2>12. receiver.items \in Seq(Nat) /\ \A i \in DOMAIN receiver.items : receiver.items[i] = 0
      <3> DEFINE s == receiver.items
      <3>1. s \in Seq({0})
        BY <2>11
      <3> HIDE DEF s
      <3>2. s \in Seq(Nat) /\ \A i \in DOMAIN s : s[i] = 0
        BY <3>1, SeqMonotonic, LenProperties, ElementOfSeq
      <3>3. QED
        BY <3>2 DEF s
    <2>13. ReceivedIs(receiver, frames, visit, err)
      <3>1. receiver \in [items : Seq(Nat), room : Nat]
        BY <2>11, <2>12
      <3>2. QED
        BY <2>5, <2>12, <3>1 DEF ReceivedIs
    <2>14. QED
      BY <2>7, <2>9, <2>13 DEF Walked
  <1>7. QED
    BY <1>5, <1>6 DEF Init

-----------------------------------------------------------------------------
(* The work of a walk *)

\* The frames of stack fs that no alias leads to.
Plain(fs) == {i \in 1 .. Len(fs) : \A j \in 1 .. i : fs[j].routine # "alias"}

\* Where node c lies, if it lies anywhere, was met.
Placed(c, met) == c = document.root \/ \E p, q : <<p, q>> \in met /\ Content(p)[q] = c

\* The places a walk has been at are met, aliases aside: those of a container on
\* the stack up to where it is at, and with each container the place it lies at.
\* None is in what is about to be walked.
Seen(fs, v, met) ==
  /\ met \subseteq Places
  /\ \A c, k : <<c, k>> \in met => Placed(c, met)
  /\ \A i \in Plain(fs) :
       /\ fs[i].node \in Nodes /\ Placed(fs[i].node, met)
       /\ fs[i].at \in 0 .. Len(Content(fs[i].node))
       /\ i < Len(fs) \/ v # Nowhere => fs[i].at >= 1
       /\ \A k \in 1 .. Len(Content(fs[i].node)) : <<fs[i].node, k>> \in met <=> k <= fs[i].at
       /\ \A j \in Plain(fs) : fs[i].node = fs[j].node => i = j
  /\ v # Nowhere /\ Opened(fs) = {} =>
       v.node \in Nodes /\ Placed(v.node, met) /\ \A k : <<v.node, k>> \notin met

\* A node that is about to be walked and that no alias leads to.
Due(fs, v) == IF v # Nowhere /\ Opened(fs) = {} THEN 1 ELSE 0

\* What was counted, aliases aside, is no more than the places met and the root.
Counted(fs, v, count) ==
  \E met : Seen(fs, v, met) /\ count + Due(fs, v) <= 1 + Cardinality(met)

LEMMA PlacesFacts ==
  ASSUME IsDocument(document)
  PROVE  /\ IsFiniteSet(Places) /\ Cardinality(Places) \in Nat
         /\ \A n, k : <<n, k>> \in Places <=> n \in Nodes /\ k \in 1 .. Len(Content(n))
         /\ \A m, n, i, j : <<m, i>> \in Places /\ <<n, j>> \in Places /\ Content(m)[i] = Content(n)[j] =>
              (m = n /\ i = j) \/ Content(Content(n)[j]) = <<>>
         /\ \A n, k : <<n, k>> \in Places => Kind(Content(n)[k]) # "document"
  <1>1. IsFiniteSet(Nodes) /\ \A n \in Nodes : Len(Content(n)) \in Nat /\ DOMAIN Content(n) = 1 .. Len(Content(n))
    BY DocumentFacts, ContentFacts
  <1> DEFINE at(n) == {n} \X DOMAIN Content(n)
  <1>2. ASSUME NEW n \in Nodes PROVE IsFiniteSet(at(n))
    <2>1. IsFiniteSet({n})
      BY FS_Singleton
    <2>2. IsFiniteSet(1 .. Len(Content(n)))
      BY <1>1, FS_Interval
    <2>3. IsFiniteSet({n} \X (1 .. Len(Content(n))))
      BY <2>1, <2>2, FS_Product
    <2>4. QED
      BY <1>1, <2>3
  <1>3. Places = UNION {at(n) : n \in Nodes}
    BY DEF Places
  <1>4. \A n, k : <<n, k>> \in Places <=> n \in Nodes /\ k \in 1 .. Len(Content(n))
    BY <1>1, <1>3
  <1> HIDE DEF at
  <1> DEFINE g == [n \in Nodes |-> at(n)]
             S == {at(n) : n \in Nodes}
  <1>5. IsFiniteSet(S)
    <2>1. g \in Surjection(Nodes, S)
      BY DEF Surjection
    <2>2. QED
      BY <1>1, <2>1, FS_Surjection
  <1>6. IsFiniteSet(Places)
    <2>1. \A T \in S : IsFiniteSet(T)
      BY <1>2
    <2>2. QED
      BY <1>3, <1>5, <2>1, FS_UNION
  <1>7. /\ \A m, n \in Nodes : \A i \in 1 .. Len(Content(m)), j \in 1 .. Len(Content(n)) :
             Content(m)[i] = Content(n)[j] => <<m, i>> = <<n, j>> \/ Content(Content(n)[j]) = <<>>
        /\ \A n \in Nodes : \A i \in 1 .. Len(Content(n)) : Kind(Content(n)[i]) # "document"
    <2>1. /\ \A m, n \in Nodes : \A i \in DOMAIN Content(m), j \in DOMAIN Content(n) :
               Content(m)[i] = Content(n)[j] => <<m, i>> = <<n, j>> \/ Content(Content(n)[j]) = <<>>
          /\ \A n \in Nodes : \A i \in DOMAIN Content(n) : Kind(Content(n)[i]) # "document"
      BY Zenon DEF IsDocument, Nodes, Content, Kind
    <2>2. QED
      BY <1>1, <2>1
  <1>8. QED
    BY <1>4, <1>6, <1>7, FS_CardinalityType

\* Aliases keep the frames after them from being plain.
LEMMA PlainFacts ==
  ASSUME NEW fs, Len(fs) \in Nat
  PROVE  /\ Opened(fs) = {} => Plain(fs) = 1 .. Len(fs)
         /\ Opened(fs) # {} => Len(fs) \notin Plain(fs)
         /\ Plain(fs) \subseteq 1 .. Len(fs)
  <1>1. Opened(fs) = {} => Plain(fs) = 1 .. Len(fs)
    BY DEF Opened, Plain
  <1>2. ASSUME Opened(fs) # {} PROVE Len(fs) \notin Plain(fs)
    <2>1. PICK j \in 1 .. Len(fs) : fs[j].routine = "alias"
      BY <1>2 DEF Opened
    <2>2. QED
      BY <2>1 DEF Plain
  <1>3. QED
    BY <1>1, <1>2 DEF Plain

\* A scalar, or an error.
LEMMA SeenSame ==
  ASSUME NEW fs, NEW v, NEW met, Seen(fs, v, met)
  PROVE  Seen(fs, Nowhere, met)
  BY DEF Seen

LEMMA SeenPush ==
  ASSUME IsDocument(document), NEW fs, Framed(fs), Len(fs) <= MaxDepth, NEW v, v # Nowhere,
         NEW met, Seen(fs, v, met), NEW routine, routine # "alias",
         NEW gs, Pushed(fs, gs, v.node, routine)
  PROVE  Seen(gs, Nowhere, met)
  <1>1. /\ Len(gs) = Len(fs) + 1 /\ gs[Len(fs) + 1] = Frame(v.node, routine, Len(fs))
        /\ \A i \in 1 .. Len(fs) : gs[i] = fs[i]
    BY PushFramed
  <1>2. Len(fs) \in Nat
    BY OpenedFinite
  <1> DEFINE top == Len(fs) + 1
  <1>3. gs[top].node = v.node /\ gs[top].routine = routine /\ gs[top].at = 0
    BY <1>1 DEF Frame
  <1>4. Plain(gs) \ {top} = Plain(fs)
    <2>1. \A i \in 1 .. Len(fs) : i \in Plain(gs) <=> i \in Plain(fs)
      BY <1>1, <1>2 DEF Plain
    <2>2. QED
      BY <1>1, <1>2, <2>1 DEF Plain
  <1>5. top \in Plain(gs) => Opened(fs) = {}
    BY <1>1, <1>2 DEF Plain, Opened
  <1>6. ASSUME NEW i \in Plain(fs)
        PROVE  /\ gs[i] = fs[i] /\ i \in 1 .. Len(fs) /\ fs[i].node \in Nodes /\ Placed(fs[i].node, met)
               /\ fs[i].at \in 1 .. Len(Content(fs[i].node)) /\ <<fs[i].node, 1>> \in met
    <2>1. gs[i] = fs[i] /\ i \in 1 .. Len(fs)
      BY <1>1 DEF Plain
    <2>2. /\ fs[i].node \in Nodes /\ Placed(fs[i].node, met)
          /\ fs[i].at \in 0 .. Len(Content(fs[i].node)) /\ fs[i].at >= 1
          /\ \A k \in 1 .. Len(Content(fs[i].node)) : <<fs[i].node, k>> \in met <=> k <= fs[i].at
      BY DEF Seen
    <2>3. Len(Content(fs[i].node)) \in Nat
      BY <2>2, ContentFacts
    <2>4. QED
      BY <2>1, <2>2, <2>3
  <1>7. ASSUME top \in Plain(gs)
        PROVE  /\ v.node \in Nodes /\ Placed(v.node, met) /\ (\A k : <<v.node, k>> \notin met)
               /\ \A j \in Plain(fs) : fs[j].node # v.node
    <2>1. v.node \in Nodes /\ Placed(v.node, met) /\ \A k : <<v.node, k>> \notin met
      BY <1>5, <1>7 DEF Seen
    <2>2. QED
      BY <1>6, <2>1
  <1>8. ASSUME NEW i \in Plain(gs)
        PROVE  /\ gs[i].node \in Nodes /\ Placed(gs[i].node, met)
               /\ gs[i].at \in 0 .. Len(Content(gs[i].node))
               /\ i < Len(gs) \/ Nowhere # Nowhere => gs[i].at >= 1
               /\ \A k \in 1 .. Len(Content(gs[i].node)) : <<gs[i].node, k>> \in met <=> k <= gs[i].at
               /\ \A j \in Plain(gs) : gs[i].node = gs[j].node => i = j
    <2>1. CASE i = top
      <3>1. v.node \in Nodes /\ Placed(v.node, met) /\ (\A k : <<v.node, k>> \notin met) /\ \A j \in Plain(fs) : fs[j].node # v.node
        BY <1>7, <2>1
      <3>2. Len(Content(v.node)) \in Nat
        BY <3>1, ContentFacts
      <3>3. \A j \in Plain(gs) : j # top => gs[j].node # v.node
        BY <1>4, <1>6, <3>1
      <3>4. gs[i].node = v.node /\ gs[i].at = 0 /\ ~(i < Len(gs))
        BY <1>1, <1>2, <1>3, <2>1
      <3> HIDE DEF top
      <3>5. \A j \in Plain(gs) : gs[i].node = gs[j].node => i = j
        BY <3>3, <3>4, <2>1
      <3>6. \A k \in 1 .. Len(Content(gs[i].node)) : <<gs[i].node, k>> \in met <=> k <= gs[i].at
        BY <3>1, <3>2, <3>4
      <3>7. gs[i].node \in Nodes /\ Placed(gs[i].node, met) /\ gs[i].at \in 0 .. Len(Content(gs[i].node))
        BY <3>1, <3>2, <3>4
      <3>8. QED
        BY <3>4, <3>5, <3>6, <3>7
    <2>2. CASE i # top
      <3>1. i \in Plain(fs)
        BY <1>4, <2>2
      <3>2. gs[i] = fs[i] /\ fs[i].at \in 1 .. Len(Content(fs[i].node))
        BY <1>6, <3>1
      <3>3. \A j \in Plain(gs) : gs[i].node = gs[j].node => i = j
        <4>1. \A j \in Plain(fs) : fs[i].node = fs[j].node => i = j
          BY <3>1 DEF Seen
        <4>2. \A j \in Plain(fs) : gs[j] = fs[j]
          BY <1>6
        <4>3. top \in Plain(gs) => gs[top].node # fs[i].node
          BY <1>3, <1>7, <3>1
        <4>4. QED
          BY <1>4, <3>2, <4>1, <4>2, <4>3
      <3>4. /\ fs[i].node \in Nodes /\ Placed(fs[i].node, met)
            /\ \A k \in 1 .. Len(Content(fs[i].node)) : <<fs[i].node, k>> \in met <=> k <= fs[i].at
        BY <3>1 DEF Seen
      <3>5. fs[i].at \in 0 .. Len(Content(fs[i].node)) /\ fs[i].at >= 1
        BY <3>2
      <3>6. QED
        BY <3>2, <3>3, <3>4, <3>5
    <2>3. QED
      BY <2>1, <2>2
  <1>9. QED
    <2>1. /\ met \subseteq Places
          /\ \A c, k : <<c, k>> \in met => Placed(c, met)
      BY DEF Seen
    <2> HIDE DEF top
    <2>2. QED
      BY <1>8, <2>1 DEF Seen

\* An anchor is expanded: what is below it is not counted.
LEMMA SeenAlias ==
  ASSUME IsDocument(document), NEW fs, Framed(fs), Len(fs) <= MaxDepth, NEW v, v # Nowhere,
         NEW met, Seen(fs, v, met), NEW n, NEW gs, Pushed(fs, gs, n, "alias"), NEW w
  PROVE  Seen(gs, w, met) /\ Due(gs, w) = 0
  <1>1. /\ Len(gs) = Len(fs) + 1 /\ gs[Len(fs) + 1] = Frame(n, "alias", Len(fs))
        /\ \A i \in 1 .. Len(fs) : gs[i] = fs[i]
    BY PushFramed
  <1>2. Len(fs) \in Nat
    BY OpenedFinite
  <1>3. gs[Len(fs) + 1].routine = "alias"
    BY <1>1 DEF Frame
  <1>4. Len(fs) + 1 \in Opened(gs)
    BY <1>1, <1>2, <1>3 DEF Opened
  <1>5. Plain(gs) = Plain(fs)
    <2>1. \A i \in 1 .. Len(fs) : i \in Plain(gs) <=> i \in Plain(fs)
      BY <1>1, <1>2 DEF Plain
    <2>2. Len(fs) + 1 \notin Plain(gs)
      BY <1>2, <1>3 DEF Plain
    <2>3. QED
      BY <1>1, <1>2, <2>1, <2>2 DEF Plain
  <1>6. \A i \in Plain(fs) : gs[i] = fs[i]
    BY <1>1 DEF Plain
  <1>7. /\ met \subseteq Places
        /\ \A c, k : <<c, k>> \in met => Placed(c, met)
        /\ \A i \in Plain(fs) :
             /\ fs[i].node \in Nodes /\ Placed(fs[i].node, met)
             /\ fs[i].at \in 0 .. Len(Content(fs[i].node)) /\ fs[i].at >= 1
             /\ \A k \in 1 .. Len(Content(fs[i].node)) : <<fs[i].node, k>> \in met <=> k <= fs[i].at
             /\ \A j \in Plain(fs) : fs[i].node = fs[j].node => i = j
    BY DEF Seen
  <1>8. Seen(gs, w, met)
    BY <1>4, <1>5, <1>6, <1>7 DEF Seen
  <1>9. QED
    BY <1>4, <1>8 DEF Due

LEMMA SeenPop ==
  ASSUME NEW fs, Framed(fs), fs # <<>>, NEW met, Seen(fs, Nowhere, met), NEW gs, gs = Front(fs)
  PROVE  Seen(gs, Nowhere, met)
  <1>1. Len(gs) = Len(fs) - 1 /\ \A i \in 1 .. Len(fs) - 1 : gs[i] = fs[i]
    BY PopFramed
  <1>2. Len(fs) \in Nat
    BY OpenedFinite
  <1>3. \A i \in Plain(gs) : i \in Plain(fs) /\ gs[i] = fs[i] /\ i < Len(fs)
    BY <1>1, <1>2 DEF Plain
  <1>4. QED
    BY <1>3 DEF Seen

\* One more child below an alias: it is not counted.
LEMMA SeenBelow ==
  ASSUME NEW fs, Framed(fs), fs # <<>>, NEW met, Seen(fs, Nowhere, met), Opened(fs) # {},
         NEW step, NEW gs, Advanced(fs, gs, step), NEW w
  PROVE  Seen(gs, w, met) /\ Due(gs, w) = 0
  <1>1. /\ Len(gs) = Len(fs)
        /\ \A i \in 1 .. Len(fs) : gs[i].routine = fs[i].routine /\ gs[i].node = fs[i].node
    BY ReadFramed
  <1>2. Len(fs) \in Nat /\ DOMAIN fs = 1 .. Len(fs)
    BY LenProperties DEF Framed
  <1>3. Plain(gs) = Plain(fs) /\ Opened(gs) = Opened(fs)
    BY <1>1, <1>2 DEF Plain, Opened
  <1>4. \A i \in Plain(fs) : i \in 1 .. Len(fs) /\ i < Len(fs)
    BY <1>2, PlainFacts
  <1>5. \A i \in Plain(fs) : gs[i] = fs[i]
    BY <1>2, <1>4 DEF Advanced
  <1>6. /\ met \subseteq Places
        /\ \A c, k : <<c, k>> \in met => Placed(c, met)
        /\ \A i \in Plain(fs) :
             /\ fs[i].node \in Nodes /\ Placed(fs[i].node, met)
             /\ fs[i].at \in 0 .. Len(Content(fs[i].node)) /\ fs[i].at >= 1
             /\ \A k \in 1 .. Len(Content(fs[i].node)) : <<fs[i].node, k>> \in met <=> k <= fs[i].at
             /\ \A j \in Plain(fs) : fs[i].node = fs[j].node => i = j
    BY <1>4 DEF Seen
  <1>7. Seen(gs, w, met)
    BY <1>3, <1>5, <1>6 DEF Seen
  <1>8. QED
    BY <1>3, <1>7 DEF Due

\* The places that a step of one or of two is over.
Stepped(n, at, step) == IF step = 1 THEN {<<n, at + 1>>} ELSE {<<n, at + 1>>, <<n, at + 2>>}

LEMMA SteppedFacts ==
  ASSUME NEW n, NEW at \in Nat, NEW step \in {1, 2}, NEW met, IsFiniteSet(met),
         <<n, at + 1>> \notin met, step = 2 => <<n, at + 2>> \notin met
  PROVE  /\ \A c, k : <<c, k>> \in Stepped(n, at, step) <=> c = n /\ k \in at + 1 .. at + step
         /\ \A x \in Stepped(n, at, step) : x = <<n, at + 1>> \/ x = <<n, at + 2>>
         /\ Cardinality(met \cup Stepped(n, at, step)) = Cardinality(met) + step
  <1>1. \A c, k : <<c, k>> \in Stepped(n, at, step) <=> c = n /\ k \in at + 1 .. at + step
    <2>1. CASE step = 1
      BY <2>1 DEF Stepped
    <2>2. CASE step = 2
      <3>1. \A k : k \in at + 1 .. at + 2 <=> k = at + 1 \/ k = at + 2
        OBVIOUS
      <3>2. QED
        BY <2>2, <3>1 DEF Stepped
    <2>3. QED
      BY <2>1, <2>2
  <1>2. Cardinality(met \cup {<<n, at + 1>>}) = Cardinality(met) + 1 /\ IsFiniteSet(met \cup {<<n, at + 1>>})
    BY FS_AddElement
  <1>3. Cardinality(met \cup Stepped(n, at, step)) = Cardinality(met) + step
    <2>1. CASE step = 1
      BY <1>2, <2>1 DEF Stepped
    <2>2. CASE step = 2
      <3>1. <<n, at + 2>> \notin met \cup {<<n, at + 1>>}
        BY <2>2
      <3>2. met \cup Stepped(n, at, step) = (met \cup {<<n, at + 1>>}) \cup {<<n, at + 2>>}
        BY <2>2 DEF Stepped
      <3>3. Cardinality(met \cup Stepped(n, at, step)) = Cardinality(met \cup {<<n, at + 1>>}) + 1
        BY <1>2, <3>1, <3>2, FS_AddElement
      <3>4. Cardinality(met) \in Nat
        BY FS_CardinalityType
      <3>5. QED
        BY <1>2, <2>2, <3>3, <3>4
    <2>3. QED
      BY <2>1, <2>2
  <1>4. \A x \in Stepped(n, at, step) : x = <<n, at + 1>> \/ x = <<n, at + 2>>
    BY DEF Stepped
  <1>5. QED
    BY <1>1, <1>3, <1>4

LEMMA NotLast ==
  ASSUME NEW n \in Nat, NEW i \in 1 .. n, i # n
  PROVE  i < n
  OBVIOUS

\* One more child, or a key and a child: their places are met, each for the first time.
LEMMA SeenChild ==
  ASSUME IsDocument(document), NEW fs, Framed(fs), fs # <<>>, NEW met, Seen(fs, Nowhere, met),
         Opened(fs) = {}, NEW step \in {1, 2}, NEW gs, Advanced(fs, gs, step),
         NEW t, t = fs[Len(fs)], t.at + step <= Len(Content(t.node)),
         NEW w, w.node = Content(t.node)[t.at + step]
  PROVE  \E more : Seen(gs, w, more) /\ Cardinality(more) = Cardinality(met) + step
  <1>1. /\ Len(gs) = Len(fs)
        /\ \A i \in 1 .. Len(fs) : gs[i].routine = fs[i].routine /\ gs[i].node = fs[i].node
    BY ReadFramed
  <1>2. Len(fs) \in Nat /\ Len(fs) >= 1 /\ DOMAIN fs = 1 .. Len(fs)
    BY LenProperties, EmptySeq DEF Framed
  <1> DEFINE top == Len(fs)
             more == met \cup Stepped(t.node, t.at, step)
  <1>3. Plain(fs) = 1 .. Len(fs) /\ Plain(gs) = 1 .. Len(fs) /\ top \in 1 .. Len(fs)
    <2>1. Opened(gs) = {}
      BY <1>1 DEF Opened
    <2>2. QED
      BY <1>1, <1>2, <2>1, PlainFacts
  <1>4. /\ t.node \in Nodes /\ t.at \in 0 .. Len(Content(t.node)) /\ Len(Content(t.node)) \in Nat
        /\ \A k \in 1 .. Len(Content(t.node)) : <<t.node, k>> \in met <=> k <= t.at
    <2>1. /\ t.node \in Nodes /\ t.at \in 0 .. Len(Content(t.node))
          /\ \A k \in 1 .. Len(Content(t.node)) : <<t.node, k>> \in met <=> k <= t.at
      BY <1>3 DEF Seen
    <2>2. QED
      BY <2>1, ContentFacts
  <1>5. /\ t.at \in Nat /\ t.at + 1 \in 1 .. Len(Content(t.node)) /\ t.at + step \in 1 .. Len(Content(t.node))
        /\ \A k \in t.at + 1 .. t.at + step : k \in 1 .. Len(Content(t.node)) /\ <<t.node, k>> \notin met
    BY <1>4
  <1>6. gs[top].node = t.node /\ gs[top].at = t.at + step /\ \A i \in 1 .. Len(fs) : i # top => gs[i] = fs[i]
    <2>1. gs[top] = [fs[top] EXCEPT !.at = @ + step] /\ \A i \in 1 .. Len(fs) : i # top => gs[i] = fs[i]
      BY <1>2, <1>3 DEF Advanced
    <2>2. fs[top] = [node |-> t.node, routine |-> t.routine, at |-> t.at, depth |-> top - 1]
      BY <1>3 DEF Framed
    <2>3. QED
      BY <2>1, <2>2, <1>1, <1>3
  <1>7. IsFiniteSet(met)
    BY PlacesFacts, FS_Subset DEF Seen
  <1>8. /\ \A c, k : <<c, k>> \in Stepped(t.node, t.at, step) <=> c = t.node /\ k \in t.at + 1 .. t.at + step
        /\ \A x \in Stepped(t.node, t.at, step) : x = <<t.node, t.at + 1>> \/ x = <<t.node, t.at + 2>>
        /\ Cardinality(more) = Cardinality(met) + step
    <2>1. <<t.node, t.at + 1>> \notin met /\ (step = 2 => <<t.node, t.at + 2>> \notin met)
      BY <1>5
    <2>2. t.at \in Nat
      BY <1>5
    <2> HIDE DEF top
    <2>3. /\ \A c, k : <<c, k>> \in Stepped(t.node, t.at, step) <=> c = t.node /\ k \in t.at + 1 .. t.at + step
          /\ \A x \in Stepped(t.node, t.at, step) : x = <<t.node, t.at + 1>> \/ x = <<t.node, t.at + 2>>
          /\ Cardinality(met \cup Stepped(t.node, t.at, step)) = Cardinality(met) + step
      <3>1. PICK n, at : n = t.node /\ at = t.at
        OBVIOUS
      <3>2. at \in Nat /\ <<n, at + 1>> \notin met /\ (step = 2 => <<n, at + 2>> \notin met)
        BY <2>1, <2>2, <3>1
      <3>3. /\ \A c, k : <<c, k>> \in Stepped(n, at, step) <=> c = n /\ k \in at + 1 .. at + step
            /\ \A x \in Stepped(n, at, step) : x = <<n, at + 1>> \/ x = <<n, at + 2>>
            /\ Cardinality(met \cup Stepped(n, at, step)) = Cardinality(met) + step
        <4>1. step \in {1, 2} /\ IsFiniteSet(met)
          BY <1>7
        <4>2. Cardinality(met \cup Stepped(n, at, step)) = Cardinality(met) + step
          BY <3>2, <4>1, SteppedFacts
        <4>3. \A c, k : <<c, k>> \in Stepped(n, at, step) <=> c = n /\ k \in at + 1 .. at + step
          BY <3>2, <4>1, SteppedFacts
        <4>4. \A x \in Stepped(n, at, step) : x = <<n, at + 1>> \/ x = <<n, at + 2>>
          BY <3>2, <4>1, SteppedFacts
        <4>5. QED
          BY <4>2, <4>3, <4>4
      <3>4. QED
        BY <3>1, <3>3, Zenon
    <2>4. QED
      BY <2>3 DEF more
  <1> HIDE DEF more, top
  <1>9. /\ \A c, k : <<c, k>> \in more <=> <<c, k>> \in met \/ (c = t.node /\ k \in t.at + 1 .. t.at + step)
        /\ met \subseteq more
    BY <1>8 DEF more
  <1>10. more \subseteq Places
    <2>1. ASSUME NEW x \in Stepped(t.node, t.at, step) PROVE x \in Places
      <3>1. PICK k : x = <<t.node, k>>
        BY <1>8, <2>1
      <3>2. k \in t.at + 1 .. t.at + step
        BY <1>8, <2>1, <3>1
      <3>3. k \in 1 .. Len(Content(t.node))
        BY <1>5, <3>2
      <3>4. QED
        BY <1>4, <3>1, <3>3, PlacesFacts
    <2>2. QED
      BY <2>1 DEF more, Seen
  <1>11. \A c : Placed(c, met) => Placed(c, more)
    BY <1>9, Zenon DEF Placed
  <1>12. Placed(t.node, met)
    BY <1>3 DEF Seen, top
  <1>13. \A c, k : <<c, k>> \in more => Placed(c, more)
    BY <1>9, <1>11, <1>12 DEF Seen
  \* the child
  <1>14. /\ w.node \in Nodes /\ Placed(w.node, more)
         /\ <<t.node, t.at + step>> \in Places /\ <<t.node, t.at + step>> \notin met
    <2>1. w.node \in Nodes /\ <<t.node, t.at + step>> \in Places
      BY <1>4, <1>5, ContentFacts, PlacesFacts
    <2>2. t.at + step \in t.at + 1 .. t.at + step
      BY <1>5
    <2>3. <<t.node, t.at + step>> \in more /\ <<t.node, t.at + step>> \notin met
      BY <1>5, <1>9, <2>2
    <2>4. QED
      BY <2>1, <2>3 DEF Placed
  <1>15. \A k : <<w.node, k>> \notin more
    <2>1. SUFFICES ASSUME NEW k, <<w.node, k>> \in more PROVE FALSE
      OBVIOUS
    <2>2. Placed(w.node, met)
      <3>1. CASE <<w.node, k>> \in met
        BY <3>1 DEF Seen
      <3>2. CASE w.node = t.node
        BY <1>12, <3>2
      <3>3. QED
        BY <1>9, <2>1, <3>1, <3>2
    <2>3. Content(w.node) # <<>>
      <3>1. <<w.node, k>> \in Places
        BY <1>10, <2>1
      <3>2. k \in 1 .. Len(Content(w.node))
        BY <3>1, PlacesFacts
      <3>3. QED
        BY <3>2
    <2>4. Kind(w.node) # "document"
      BY <1>14, PlacesFacts
    <2>5. w.node # document.root
      BY <2>4, DocumentFacts
    <2>6. PICK p, q : <<p, q>> \in met /\ Content(p)[q] = w.node
      BY <2>2, <2>5 DEF Placed
    <2>7. <<p, q>> \in Places
      BY <2>6 DEF Seen
    <2>8. p = t.node /\ q = t.at + step
      BY <1>14, <2>3, <2>6, <2>7, PlacesFacts
    <2>9. QED
      BY <1>14, <2>6, <2>8
  <1>16. ASSUME NEW i \in 1 .. Len(fs)
         PROVE  /\ gs[i].node \in Nodes /\ Placed(gs[i].node, more)
                /\ gs[i].at \in 0 .. Len(Content(gs[i].node)) /\ gs[i].at >= 1
                /\ \A k \in 1 .. Len(Content(gs[i].node)) : <<gs[i].node, k>> \in more <=> k <= gs[i].at
                /\ \A j \in 1 .. Len(fs) : gs[i].node = gs[j].node => i = j
    <2>1. /\ fs[i].node \in Nodes /\ Placed(fs[i].node, met)
          /\ fs[i].at \in 0 .. Len(Content(fs[i].node))
          /\ i < Len(fs) => fs[i].at >= 1
          /\ \A k \in 1 .. Len(Content(fs[i].node)) : <<fs[i].node, k>> \in met <=> k <= fs[i].at
          /\ \A j \in 1 .. Len(fs) : fs[i].node = fs[j].node => i = j
      BY <1>3 DEF Seen
    <2>2. \A j \in 1 .. Len(fs) : gs[i].node = gs[j].node => i = j
      BY <1>1, <2>1
    <2>3. gs[i].node \in Nodes /\ Placed(gs[i].node, more)
      BY <1>1, <1>11, <2>1
    <2>4. CASE i = top
      <3>1. gs[i].node = t.node /\ gs[i].at = t.at + step
        BY <1>6, <2>4
      <3>2. \A k \in 1 .. Len(Content(t.node)) : <<t.node, k>> \in more <=> k <= t.at + step
        <4>1. SUFFICES ASSUME NEW k \in 1 .. Len(Content(t.node))
                       PROVE  <<t.node, k>> \in more <=> k <= t.at + step
          OBVIOUS
        <4>2. <<t.node, k>> \in more <=> (k <= t.at \/ k \in t.at + 1 .. t.at + step)
          BY <1>4, <1>9
        <4>3. QED
          BY <1>5, <4>2
      <3>3. t.at + step \in 0 .. Len(Content(t.node)) /\ t.at + step >= 1
        BY <1>4, <1>5
      <3>4. QED
        BY <2>2, <2>3, <3>1, <3>2, <3>3
    <2>5. CASE i # top
      <3>0. gs[i] = fs[i]
        BY <1>6, <2>5
      <3>1. gs[i] = fs[i] /\ i < Len(fs)
        <4>1. i \in 1 .. Len(fs) /\ i # Len(fs)
          BY <2>5 DEF top
        <4>2. i < Len(fs)
          BY <1>2, <4>1, NotLast
        <4>3. QED
          BY <3>0, <4>2
      <3>2. fs[i].node # t.node
        BY <1>3, <2>1, <2>5 DEF top
      <3>3. \A k \in 1 .. Len(Content(gs[i].node)) : <<gs[i].node, k>> \in more <=> k <= gs[i].at
        BY <1>9, <2>1, <3>1, <3>2
      <3>4. QED
        BY <2>1, <2>2, <2>3, <3>1, <3>3
    <2>6. QED
      BY <2>4, <2>5
  <1>17. Seen(gs, w, more)
    BY <1>1, <1>3, <1>10, <1>13, <1>14, <1>15, <1>16 DEF Seen
  <1>18. QED
    BY <1>8, <1>17

\* What was decoded and what of it for an alias is not too much, and without the
\* aliases no more than the document has.
Fair(decoded, aliased) ==
  /\ decoded \in Nat /\ aliased \in Nat
  /\ ~Excessive(aliased, decoded) /\ decoded - aliased <= Size

\* The counts were fair, before the last of them at least.
Spent == \E decoded, aliased : Fair(decoded, aliased) /\ decodeCount \in {decoded, decoded + 1}

Counting ==
  /\ decodeCount \in Nat /\ aliasCount \in Nat
  /\ err # "none" => Spent
  /\ err = "none" => ~Excessive(aliasCount, decodeCount)
                     /\ Counted(frames, visit, decodeCount - aliasCount)

LEMMA CountedFair ==
  ASSUME IsDocument(document), Counting, err = "none"
  PROVE  Fair(decodeCount, aliasCount)
  <1>1. PICK met : /\ Seen(frames, visit, met)
                   /\ decodeCount - aliasCount + Due(frames, visit) <= 1 + Cardinality(met)
    BY DEF Counting, Counted
  <1>2. IsFiniteSet(met) /\ Cardinality(met) <= Cardinality(Places) /\ Cardinality(Places) \in Nat
    BY <1>1, PlacesFacts, FS_Subset DEF Seen
  <1>3. Cardinality(met) \in Nat
    BY <1>2, FS_CardinalityType
  <1>4. Due(frames, visit) \in {0, 1}
    BY DEF Due
  <1>5. decodeCount \in Nat /\ aliasCount \in Nat /\ ~Excessive(aliasCount, decodeCount)
    BY DEF Counting
  <1>6. decodeCount - aliasCount <= 1 + Cardinality(Places)
    BY <1>1, <1>2, <1>3, <1>4, <1>5
  <1>7. QED
    BY <1>5, <1>6 DEF Fair, Size

\* Aliases are known to be on the stack by their number.
LEMMA DepthOpens ==
  ASSUME WalkInv
  PROVE  aliasDepth > 0 <=> Opened(frames) # {}
  <1>1. aliasDepth = Cardinality(Opened(frames)) /\ IsFiniteSet(Opened(frames))
    BY OpenedFinite DEF WalkInv, StackInv, Balanced
  <1>2. Cardinality(Opened(frames)) \in Nat /\ (Cardinality(Opened(frames)) = 0 <=> Opened(frames) = {})
    BY <1>1, FS_CardinalityType, FS_EmptySet
  <1>3. QED
    BY <1>1, <1>2

LEMMA AccountFacts ==
  ASSUME WalkInv, Counting, account
  PROVE  /\ decodeCount' = decodeCount + 1 /\ decodeCount' \in Nat /\ aliasCount' \in Nat
         /\ aliasCount' = IF Opened(frames) = {} THEN aliasCount ELSE aliasCount + 1
         /\ ~Broke => ~Excessive(aliasCount', decodeCount')
  <1>1. decodeCount' = decodeCount + 1 /\ aliasCount' = Aliased
    BY DEF account
  <1>2. decodeCount \in Nat /\ aliasCount \in Nat
    BY DEF Counting
  <1>3. Aliased = IF Opened(frames) = {} THEN aliasCount ELSE aliasCount + 1
    BY DepthOpens DEF Aliased
  <1>4. ~Broke => ~Excessive(aliasCount', decodeCount')
    BY <1>1 DEF Broke
  <1>5. QED
    BY <1>1, <1>2, <1>3, <1>4

\* The document stays, and so does what is said of it.
LEMMA SameCounted ==
  ASSUME document' = document
  PROVE  /\ Size' = Size
         /\ \A a, d : (Excessive(a, d)' <=> Excessive(a, d)) /\ (Fair(d, a)' <=> Fair(d, a))
         /\ \A fs, v, c : Counted(fs, v, c)' <=> Counted(fs, v, c)
  <1>1. Places' = Places /\ Nodes' = Nodes
    BY DEF Places, Nodes, Content
  <1>2. Size' = Size
    BY <1>1 DEF Size
  <1>3. ASSUME NEW a, NEW d PROVE Excessive(a, d)' <=> Excessive(a, d)
    BY DEF Excessive, allowedAliasRatio
  <1>4. ASSUME NEW a, NEW d PROVE Fair(d, a)' <=> Fair(d, a)
    BY <1>2, <1>3 DEF Fair
  <1>5. ASSUME NEW c, NEW met PROVE Placed(c, met)' <=> Placed(c, met)
    BY DEF Placed, Content
  <1>6. ASSUME NEW n PROVE Content(n)' = Content(n)
    BY DEF Content
  <1>7. ASSUME NEW fs, NEW v, NEW met PROVE Seen(fs, v, met)' <=> Seen(fs, v, met)
    BY <1>1, <1>5, <1>6 DEF Seen, Plain, Opened, Nowhere
  <1>8. ASSUME NEW fs, NEW v PROVE Due(fs, v)' = Due(fs, v)
    BY DEF Due, Opened, Nowhere
  <1>9. ASSUME NEW fs, NEW v, NEW c PROVE Counted(fs, v, c)' <=> Counted(fs, v, c)
    BY <1>7, <1>8 DEF Counted
  <1>10. QED
    BY <1>2, <1>3, <1>4, <1>9

\* A step that goes on: what is counted next.
CountsOn == /\ decodeCount' \in Nat /\ aliasCount' \in Nat /\ err' = "none"
         /\ ~Excessive(aliasCount', decodeCount')
         /\ Counted(frames', visit', decodeCount' - aliasCount')

\* A step that ends in an error.
Stops == /\ decodeCount' \in {decodeCount, decodeCount + 1} /\ decodeCount' \in Nat
         /\ aliasCount' \in Nat /\ err' # "none"

Counts == CountsOn \/ Stops

Ready == IsDocument(document) /\ WalkInv /\ Counting /\ err = "none"

LEMMA FailCounts ==
  ASSUME Ready, NEW e, e # "none", Fail(e), account \/ UNCHANGED budget
  PROVE  Counts
  <1>1. err' # "none"
    BY DEF Fail
  <1>2. CASE account
    <2>1. decodeCount' = decodeCount + 1 /\ decodeCount' \in Nat /\ aliasCount' \in Nat
      BY <1>2, AccountFacts DEF Ready
    <2>2. QED
      BY <1>1, <2>1 DEF Counts, Stops
  <1>3. CASE UNCHANGED budget
    <2>1. decodeCount' = decodeCount /\ aliasCount' = aliasCount
      BY <1>3 DEF budget
    <2>2. QED
      BY <1>1, <2>1 DEF Counts, Stops, Ready, Counting
  <1>4. QED
    BY <1>2, <1>3

LEMMA ReadyFacts ==
  ASSUME Ready
  PROVE  /\ IsDocument(document) /\ Framed(frames) /\ Len(frames) \in Nat /\ MaxDepth \in Nat
         /\ visit # Nowhere => visit.depth = Len(frames)
         /\ decodeCount \in Nat /\ aliasCount \in Nat
         /\ ~Excessive(aliasCount, decodeCount)
         /\ Counted(frames, visit, decodeCount - aliasCount)
  <1>1. Framed(frames) /\ (visit # Nowhere => visit.depth = Len(frames))
    BY DEF Ready, WalkInv, StackInv
  <1>2. QED
    BY <1>1, OpenedFinite, YAMLWalkerAssumption DEF Ready, Counting

\* What is counted of met places, in numbers.
LEMMA OneCounted ==
  ASSUME NEW d \in Nat, NEW a \in Nat, NEW c \in Nat, NEW plain \in BOOLEAN,
         d - a + (IF plain THEN 1 ELSE 0) <= 1 + c
  PROVE  d + 1 - (IF plain THEN a ELSE a + 1) <= 1 + c
  OBVIOUS

\* A node was counted, and is no longer due.
LEMMA NodeCounted ==
  ASSUME Ready, visit # Nowhere, account, ~Broke, err' = "none",
         NEW met, Seen(frames, visit, met),
         decodeCount - aliasCount + Due(frames, visit) <= 1 + Cardinality(met),
         Seen(frames', visit', met), Due(frames', visit') = 0
  PROVE  Counts
  <1>1. /\ decodeCount' = decodeCount + 1 /\ decodeCount' \in Nat /\ aliasCount' \in Nat
        /\ aliasCount' = IF Opened(frames) = {} THEN aliasCount ELSE aliasCount + 1
        /\ ~Excessive(aliasCount', decodeCount')
    BY AccountFacts DEF Ready
  <1>2. decodeCount \in Nat /\ aliasCount \in Nat /\ Cardinality(met) \in Nat
    <2>1. IsFiniteSet(met)
      BY ReadyFacts, PlacesFacts, FS_Subset DEF Seen
    <2>2. QED
      BY <2>1, ReadyFacts, FS_CardinalityType
  <1> DEFINE plain == Opened(frames) = {}
  <1>3. Due(frames, visit) = IF plain THEN 1 ELSE 0
    BY DEF Due
  <1>4. plain \in BOOLEAN /\ aliasCount' = IF plain THEN aliasCount ELSE aliasCount + 1
    BY <1>1
  <1> HIDE DEF plain
  <1>5. decodeCount + 1 - (IF plain THEN aliasCount ELSE aliasCount + 1) <= 1 + Cardinality(met)
    BY <1>2, <1>3, <1>4, OneCounted
  <1>6. decodeCount' - aliasCount' + Due(frames', visit') <= 1 + Cardinality(met)
    <2>1. decodeCount' - aliasCount' = decodeCount + 1 - (IF plain THEN aliasCount ELSE aliasCount + 1)
      <3>1. decodeCount' = decodeCount + 1
        BY <1>1
      <3>2. aliasCount' = IF plain THEN aliasCount ELSE aliasCount + 1
        BY <1>4
      <3>3. PICK a : a = IF plain THEN aliasCount ELSE aliasCount + 1
        OBVIOUS
      <3>4. aliasCount' = a
        BY <3>2, <3>3, Zenon
      <3>5. decodeCount' - aliasCount' = decodeCount + 1 - a
        <4>1. a \in Nat
          BY <1>2, <3>3
        <4>2. QED
          BY <1>2, <3>1, <3>4, <4>1
      <3>6. QED
        BY <3>3, <3>5, Zenon
    <2>2. QED
      BY <1>1, <1>5, <2>1
  <1>7. Counted(frames', visit', decodeCount' - aliasCount')
    BY <1>6, Zenon DEF Counted
  <1>8. QED
    BY <1>1, <1>7 DEF Counts, CountsOn

LEMMA PushCounts ==
  ASSUME Ready, visit # Nowhere, ~(visit.depth > MaxDepth), account, ~Broke,
         NEW routine, routine # "alias", NEW token, Push(visit.node, routine, token)
  PROVE  Counts
  <1>1. PICK met : /\ Seen(frames, visit, met)
                   /\ decodeCount - aliasCount + Due(frames, visit) <= 1 + Cardinality(met)
    BY ReadyFacts DEF Counted
  <1>2. /\ Framed(frames) /\ Len(frames) <= MaxDepth /\ IsDocument(document)
    BY ReadyFacts
  <1>3. Pushed(frames, frames', visit.node, routine) /\ visit' = Nowhere /\ err' = "none"
    BY ReadyFacts DEF Push, Pushed, Ready
  <1>4. Seen(frames', Nowhere, met)
    BY <1>1, <1>2, <1>3, SeenPush
  <1>5. Due(frames', Nowhere) = 0
    BY DEF Due
  <1>6. QED
    BY <1>1, <1>3, <1>4, <1>5, NodeCounted

LEMMA ScalarCounts ==
  ASSUME Ready, visit # Nowhere, account, ~Broke, Scalar(visit.node)
  PROVE  Counts
  <1>1. CASE Fail("scalar")
    BY <1>1, FailCounts
  <1>2. CASE ~Fail("scalar")
    <2>1. visit' = Nowhere /\ frames' = frames /\ err' = "none"
      BY <1>2 DEF Scalar, Ready
    <2>2. PICK met : /\ Seen(frames, visit, met)
                     /\ decodeCount - aliasCount + Due(frames, visit) <= 1 + Cardinality(met)
      BY ReadyFacts DEF Counted
    <2>3. Seen(frames', visit', met) /\ Due(frames', visit') = 0
      BY <2>1, <2>2, SeenSame DEF Due
    <2>4. QED
      BY <2>1, <2>2, <2>3, NodeCounted
  <1>3. QED
    BY <1>1, <1>2

LEMMA AliasCounts ==
  ASSUME Ready, visit # Nowhere, ~(visit.depth > MaxDepth), account, ~Broke, Alias(visit.node)
  PROVE  Counts
  <1>1. CASE Fail("cycle")
    BY <1>1, FailCounts
  <1>2. CASE ~Fail("cycle")
    <2>1. Pushed(frames, frames', visit.node, "alias") /\ err' = "none"
      BY <1>2, ReadyFacts DEF Alias, Pushed, Ready
    <2>2. PICK met : /\ Seen(frames, visit, met)
                     /\ decodeCount - aliasCount + Due(frames, visit) <= 1 + Cardinality(met)
      BY ReadyFacts DEF Counted
    <2>3. Framed(frames) /\ Len(frames) <= MaxDepth /\ IsDocument(document)
      BY ReadyFacts
    <2>4. Seen(frames', visit', met) /\ Due(frames', visit') = 0
      BY <2>1, <2>2, <2>3, SeenAlias
    <2>5. QED
      BY <2>1, <2>2, <2>4, NodeCounted
  <1>3. QED
    BY <1>1, <1>2

LEMMA NodeCounts ==
  ASSUME Ready, Node
  PROVE  Counts
  <1> DEFINE n == visit.node
  <1>1. visit # Nowhere
    BY DEF Node, Walking
  <1>2. CASE visit.depth > MaxDepth
    <2>1. Fail("depth") /\ UNCHANGED budget
      BY <1>2 DEF Node
    <2>2. QED
      BY <2>1, FailCounts
  <1>3. CASE ~(visit.depth > MaxDepth) /\ Broke
    <2>1. Fail("aliasing") /\ account
      BY <1>3 DEF Node
    <2>2. QED
      BY <2>1, FailCounts
  <1>4. CASE ~(visit.depth > MaxDepth) /\ ~Broke
    <2>0. account
      BY <1>4 DEF Node
    <2>1. CASE Kind(n) = "document"
      <3>1. Push(n, "list", "---")
        BY <1>4, <2>1, Zenon DEF Node
      <3>2. QED
        BY <1>1, <1>4, <2>0, <3>1, PushCounts
    <2>2. CASE Kind(n) = "seq"
      <3>1. Push(n, "list", "[")
        BY <1>4, <2>2, Zenon DEF Node
      <3>2. QED
        BY <1>1, <1>4, <2>0, <3>1, PushCounts
    <2>3. CASE Kind(n) = "map"
      <3>1. Push(n, "pairs", "{")
        BY <1>4, <2>3, Zenon DEF Node
      <3>2. QED
        BY <1>1, <1>4, <2>0, <3>1, PushCounts
    <2>4. CASE Kind(n) = "alias"
      <3>1. Alias(n)
        BY <1>4, <2>4, Zenon DEF Node
      <3>2. QED
        BY <1>1, <1>4, <2>0, <3>1, AliasCounts
    <2>5. CASE Kind(n) \notin {"document", "seq", "map", "alias"}
      <3>1. Scalar(n)
        BY <1>4, <2>5, Zenon DEF Node
      <3>2. QED
        BY <1>1, <1>4, <2>0, <3>1, ScalarCounts
    <2>6. QED
      BY <2>1, <2>2, <2>3, <2>4, <2>5, Zenon
  <1>5. QED
    BY <1>2, <1>3, <1>4

\* One more child of the top, the first of a pair being counted as it is read.
LEMMA ChildCounts ==
  ASSUME Ready, Idle, NEW step \in {1, 2}, Child(step), err' = "none",
         IF step = 1 THEN Top.at < Len(Content(Top.node)) /\ UNCHANGED budget
         ELSE ~(Top.at + 2 > Len(Content(Top.node))) /\ account /\ ~Broke
  PROVE  Counts
  <1>1. visit = Nowhere /\ frames # <<>> /\ Framed(frames) /\ IsDocument(document)
    BY ReadyFacts DEF Idle
  <1>2. PICK met : /\ Seen(frames, Nowhere, met)
                   /\ decodeCount - aliasCount + Due(frames, Nowhere) <= 1 + Cardinality(met)
    BY <1>1, ReadyFacts DEF Counted
  <1>3. Top = frames[Len(frames)] /\ Advanced(frames, frames', step)
        /\ visit'.node = Content(Top.node)[Top.at + step]
    BY <1>1, TopFacts DEF Child, Advanced
  <1>4. Due(frames, Nowhere) = 0
    BY DEF Due
  <1>5. decodeCount \in Nat /\ aliasCount \in Nat /\ Cardinality(met) \in Nat
    <2>1. IsFiniteSet(met)
      BY <1>1, <1>2, PlacesFacts, FS_Subset DEF Seen
    <2>2. QED
      BY <2>1, ReadyFacts, FS_CardinalityType
  <1>6. /\ decodeCount' \in Nat /\ aliasCount' \in Nat /\ ~Excessive(aliasCount', decodeCount')
        /\ decodeCount' = decodeCount + (step - 1)
        /\ aliasCount' = IF Opened(frames) = {} THEN aliasCount ELSE aliasCount + (step - 1)
    <2>1. CASE step = 1
      <3>1. decodeCount' = decodeCount /\ aliasCount' = aliasCount
        BY <2>1 DEF budget
      <3>2. QED
        BY <1>5, <2>1, <3>1, ReadyFacts
    <2>2. CASE step = 2
      <3>1. account /\ ~Broke
        BY <2>2
      <3>2. QED
        BY <1>5, <2>2, <3>1, AccountFacts DEF Ready
    <2>3. QED
      BY <2>1, <2>2
  <1>7. Counted(frames', visit', decodeCount' - aliasCount')
    <2>1. CASE Opened(frames) = {}
      <3>0. Top.at + step <= Len(Content(Top.node))
        <4>1. Len(frames) \in Plain(frames)
          BY <1>1, <2>1, TopFacts, PlainFacts
        <4>2. Top.node \in Nodes /\ Top.at \in 0 .. Len(Content(Top.node))
          BY <1>2, <1>3, <4>1 DEF Seen
        <4>3. Len(Content(Top.node)) \in Nat
          BY <1>1, <4>2, ContentFacts
        <4>4. QED
          BY <4>2, <4>3
      <3>1. PICK more : Seen(frames', visit', more) /\ Cardinality(more) = Cardinality(met) + step
        BY <1>1, <1>2, <1>3, <2>1, <3>0, SeenChild
      <3>2. Due(frames', visit') \in {0, 1}
        BY DEF Due
      <3>3. decodeCount' - aliasCount' + Due(frames', visit') <= 1 + Cardinality(more)
        BY <1>2, <1>4, <1>5, <1>6, <2>1, <3>1, <3>2
      <3>4. QED
        BY <3>1, <3>3 DEF Counted
    <2>2. CASE Opened(frames) # {}
      <3>1. Seen(frames', visit', met) /\ Due(frames', visit') = 0
        BY <1>1, <1>2, <1>3, <2>2, SeenBelow
      <3>2. decodeCount' - aliasCount' + Due(frames', visit') <= 1 + Cardinality(met)
        BY <1>2, <1>4, <1>5, <1>6, <2>2, <3>1
      <3>3. QED
        BY <3>1, <3>2 DEF Counted
    <2>3. QED
      BY <2>1, <2>2
  <1>8. QED
    BY <1>6, <1>7 DEF Counts, CountsOn

LEMMA NextItemCounts ==
  ASSUME Ready, NextItem
  PROVE  Counts
  <1>1. /\ Idle /\ Top.at < Len(Content(Top.node)) /\ Child(1) /\ UNCHANGED budget /\ err' = "none"
    BY DEF NextItem, Idle
  <1>2. QED
    BY <1>1, ChildCounts

LEMMA NextPairCounts ==
  ASSUME Ready, NextPair
  PROVE  Counts
  <1>1. Idle /\ account
    BY DEF NextPair
  <1>2. \/ \E e \in {"aliasing", "key", "panic"} : Fail(e)
        \/ /\ ~Broke /\ ~(Top.at + 2 > Len(Content(Top.node))) /\ Child(2) /\ err' = err
    BY Zenon DEF NextPair
  <1>3. CASE \E e \in {"aliasing", "key", "panic"} : Fail(e)
    BY <1>1, <1>3, FailCounts
  <1>4. CASE ~Broke /\ ~(Top.at + 2 > Len(Content(Top.node))) /\ Child(2) /\ err' = err
    <2>1. QED
      BY <1>1, <1>4, ChildCounts DEF Ready
  <1>5. QED
    BY <1>2, <1>3, <1>4

LEMMA LeaveCounts ==
  ASSUME Ready, Leave \/ LeaveAlias
  PROVE  Counts
  <1>1. /\ visit = Nowhere /\ visit' = Nowhere /\ frames # <<>> /\ frames' = Front(frames)
        /\ UNCHANGED budget /\ err' = "none"
    BY DEF Leave, LeaveAlias, Idle
  <1>2. decodeCount' = decodeCount /\ aliasCount' = aliasCount
    BY <1>1 DEF budget
  <1>3. PICK met : /\ Seen(frames, Nowhere, met)
                   /\ decodeCount - aliasCount + Due(frames, Nowhere) <= 1 + Cardinality(met)
    BY <1>1, ReadyFacts DEF Counted
  <1>4. Seen(frames', Nowhere, met) /\ Due(frames', Nowhere) = Due(frames, Nowhere)
    BY <1>1, <1>3, ReadyFacts, SeenPop DEF Due
  <1>5. Counted(frames', visit', decodeCount' - aliasCount')
    BY <1>1, <1>2, <1>3, <1>4 DEF Counted
  <1>6. QED
    BY <1>1, <1>2, <1>5, ReadyFacts DEF Counts, CountsOn

LEMMA CountingStep ==
  ASSUME Given, WalkInv, Counting, [Next]_vars
  PROVE  Counting'
  <1>1. document' = document
    BY DEF Next, Node, NextItem, NextPair, Leave, LeaveAlias, Unwind, input, vars
  <1>2. IsDocument(document)
    BY DocumentsAssumption DEF Given
  <1>3. /\ \A a, d : (Excessive(a, d)' <=> Excessive(a, d)) /\ (Fair(d, a)' <=> Fair(d, a))
        /\ \A fs, v, c : Counted(fs, v, c)' <=> Counted(fs, v, c)
    BY <1>1, SameCounted
  <1>4. CASE err = "none" /\ (Node \/ NextItem \/ NextPair \/ Leave \/ LeaveAlias)
    <2>1. Ready
      BY <1>2, <1>4 DEF Ready
    <2>2. Counts
      BY <1>4, <2>1, NodeCounts, NextItemCounts, NextPairCounts, LeaveCounts
    <2>3. CASE CountsOn
      BY <1>3, <2>3 DEF CountsOn, Counting
    <2>4. CASE Stops
      <3>1. Fair(decodeCount, aliasCount)
        BY <1>2, <1>4, CountedFair
      <3>2. Spent'
        BY <1>3, <2>4, <3>1 DEF Spent, Stops
      <3>3. QED
        BY <2>4, <3>2 DEF Stops, Counting
    <2>5. QED
      BY <2>2, <2>3, <2>4 DEF Counts
  <1>5. CASE Unwind
    <2>1. err # "none" /\ err' = err /\ decodeCount' = decodeCount /\ aliasCount' = aliasCount
      BY <1>5 DEF Unwind, budget
    <2>2. Spent'
      BY <1>3, <2>1 DEF Spent, Counting
    <2>3. QED
      BY <2>1, <2>2 DEF Counting
  <1>6. CASE UNCHANGED vars
    <2>1. /\ err' = err /\ decodeCount' = decodeCount /\ aliasCount' = aliasCount
          /\ frames' = frames /\ visit' = visit
      BY <1>6 DEF vars, budget
    <2>2. err # "none" => Spent'
      BY <1>3, <2>1 DEF Spent, Counting
    <2>3. QED
      BY <1>3, <2>1, <2>2 DEF Counting
  <1>7. Node \/ NextItem \/ NextPair \/ Leave \/ LeaveAlias => err = "none"
    BY DEF Node, NextItem, NextPair, Leave, LeaveAlias, Walking, Idle
  <1>8. QED
    BY <1>4, <1>5, <1>6, <1>7 DEF Next

LEMMA CountingStart ==
  ASSUME Init
  PROVE  Counting
  <1>1. /\ decodeCount = 0 /\ aliasCount = 0 /\ err = "none" /\ document \in Documents
    BY DEF Init, YAMLToJSON, UnmarshalYAML, Start
  <1>2. IsDocument(document)
    BY <1>1, DocumentsAssumption
  <1>3. ~Excessive(aliasCount, decodeCount)
    BY <1>1, YAMLWalkerAssumption DEF Excessive
  <1> DEFINE root == document.root
  <1>4. /\ root \in Nodes /\ Kind(root) = "document" /\ Len(Content(root)) = 1
        /\ Content(root)[1] \in Nodes
    BY <1>2, DocumentFacts
  <1>5. CASE YAMLToJSON
    <2>1. frames = <<>> /\ visit.node = root
      BY <1>5 DEF YAMLToJSON
    <2>2. Plain(frames) = {}
      BY <2>1 DEF Plain
    <2>3. Seen(frames, visit, {})
      BY <1>4, <2>1, <2>2 DEF Seen, Placed
    <2>4. Cardinality({}) = 0 /\ Due(frames, visit) \in {0, 1}
      BY FS_EmptySet DEF Due
    <2>5. decodeCount - aliasCount + Due(frames, visit) <= 1 + Cardinality({})
      BY <1>1, <2>4
    <2>6. Counted(frames, visit, decodeCount - aliasCount)
      BY <2>3, <2>5 DEF Counted
    <2>7. QED
      BY <1>1, <1>3, <2>6 DEF Counting
  <1>6. CASE UnmarshalYAML
    <2> DEFINE t == Content(root)[1]
               met == {<<root, 1>>}
    <2>1. frames = <<Frame(t, "pairs", 0)>> /\ visit = Nowhere
      BY <1>6 DEF UnmarshalYAML
    <2>2. Len(frames) = 1 /\ frames[1].node = t /\ frames[1].at = 0
      BY <2>1 DEF Frame
    <2>3. met \subseteq Places /\ \A c, k : <<c, k>> \in met => c = root /\ k = 1
      BY <1>2, <1>4, PlacesFacts
    <2>4. t \in Nodes /\ t # root /\ Len(Content(t)) \in Nat /\ Placed(t, met) /\ Placed(root, met)
      <3>1. Kind(t) # "document"
        BY <1>2, <2>3, PlacesFacts
      <3>2. Len(Content(t)) \in Nat
        BY <1>2, <1>4, ContentFacts
      <3>3. QED
        BY <1>4, <3>1, <3>2 DEF Placed
    <2> HIDE DEF t
    <2>5. \A i \in Plain(frames) : i = 1
      BY <2>2 DEF Plain
    <2>6. Seen(frames, visit, met)
      <3>1. \A k \in 1 .. Len(Content(t)) : <<t, k>> \in met <=> k <= 0
        BY <2>3, <2>4
      <3>2. 0 \in 0 .. Len(Content(t))
        BY <2>4
      <3> HIDE DEF met
      <3>3. \A i \in Plain(frames) :
              /\ frames[i].node \in Nodes /\ Placed(frames[i].node, met)
              /\ frames[i].at \in 0 .. Len(Content(frames[i].node))
              /\ ~(i < Len(frames) \/ visit # Nowhere)
              /\ \A k \in 1 .. Len(Content(frames[i].node)) : <<frames[i].node, k>> \in met <=> k <= frames[i].at
              /\ \A j \in Plain(frames) : frames[i].node = frames[j].node => i = j
        BY <2>1, <2>2, <2>4, <2>5, <3>1, <3>2
      <3>4. \A c, k : <<c, k>> \in met => Placed(c, met)
        BY <2>3, <2>4
      <3>5. QED
        BY <2>1, <2>3, <3>3, <3>4 DEF Seen
    <2>7. Cardinality(met) = 1 /\ Due(frames, visit) \in {0, 1}
      BY FS_Singleton DEF Due
    <2>8. decodeCount - aliasCount + Due(frames, visit) <= 1 + Cardinality(met)
      BY <1>1, <2>7
    <2>9. Counted(frames, visit, decodeCount - aliasCount)
      BY <2>6, <2>8, Zenon DEF Counted
    <2>10. QED
      BY <1>1, <1>3, <2>9 DEF Counting
  <1>7. QED
    BY <1>5, <1>6 DEF Init

-----------------------------------------------------------------------------
(* From a share to a bound *)

LEMMA TimesMore ==
  ASSUME NEW a \in Nat, NEW b \in Nat, NEW c \in Nat, b <= c
  PROVE  a * b <= a * c
  OBVIOUS

LEMMA TimesLess ==
  ASSUME NEW a \in Nat, NEW b \in Int, NEW c \in Int, a > 0, a * b <= a * c
  PROVE  b <= c
  OBVIOUS

\* The share allowed is never more than RatioSmall.
LEMMA RatioAtMost ==
  ASSUME NEW count \in Nat
  PROVE  /\ allowedAliasRatio(count) \in Int
         /\ allowedAliasRatio(count) <= RatioSmall * (RangeHigh - RangeLow)
  <1> DEFINE range == RangeHigh - RangeLow
             less == RatioSmall - RatioLarge
  <1>1. /\ range \in Nat /\ less \in Nat /\ RatioSmall \in Nat /\ RatioLarge \in Nat
        /\ RangeLow \in Nat /\ RatioLarge <= RatioSmall
    BY YAMLWalkerAssumption
  <1>2. allowedAliasRatio(count) = IF count <= RangeLow THEN RatioSmall * range
                                   ELSE IF count >= RangeHigh THEN RatioLarge * range
                                   ELSE RatioSmall * range - less * (count - RangeLow)
    BY DEF allowedAliasRatio
  <1> HIDE DEF range, less
  <1>3. RatioSmall * range \in Nat /\ RatioLarge * range \in Nat /\ RatioLarge * range <= RatioSmall * range
    <2>1. range * RatioLarge <= range * RatioSmall
      BY <1>1, TimesMore
    <2>2. QED
      BY <1>1, <2>1
  <1>4. CASE count <= RangeLow
    BY <1>2, <1>3, <1>4 DEF range
  <1>5. CASE ~(count <= RangeLow)
    <2>1. count - RangeLow \in Nat
      BY <1>1, <1>5
    <2>2. less * (count - RangeLow) \in Nat
      BY <1>1, <2>1
    <2>3. QED
      BY <1>2, <1>3, <1>5, <2>2 DEF range
  <1>6. QED
    BY <1>4, <1>5

\* What is fair is bounded by the thresholds, or by a multiple of the size.
LEMMA FairBounds ==
  ASSUME IsDocument(document), NEW n, NEW a, Fair(n, a)
  PROVE  n <= DecodeThreshold \/ n <= Size + AliasThreshold \/ n * (100 - RatioSmall) <= Size * 100
  <1>1. n \in Nat /\ a \in Nat /\ ~Excessive(a, n) /\ n - a <= Size
    BY DEF Fair
  <1>2. Size \in Nat /\ AliasThreshold \in Nat /\ DecodeThreshold \in Nat
    BY PlacesFacts, YAMLWalkerAssumption DEF Size
  <1>3. CASE n <= DecodeThreshold
    BY <1>3
  <1>4. CASE a <= AliasThreshold
    BY <1>1, <1>2, <1>4
  <1>5. CASE ~(n <= DecodeThreshold) /\ ~(a <= AliasThreshold)
    <2> DEFINE range == RangeHigh - RangeLow
               allowed == allowedAliasRatio(n)
    <2>1. range \in Nat /\ range > 0 /\ RatioSmall \in Nat /\ RatioSmall <= 99
      BY YAMLWalkerAssumption
    <2>2. ~(a * 100 * range > n * allowed)
      BY <1>1, <1>2, <1>5 DEF Excessive
    <2>3. allowed \in Int /\ allowed <= RatioSmall * range
      BY <1>1, RatioAtMost
    <2> HIDE DEF range, allowed
    <2>4. n * allowed <= n * (RatioSmall * range)
      <3>1. RatioSmall * range \in Nat
        BY <2>1
      <3>2. PICK c : c = RatioSmall * range
        OBVIOUS
      <3>3. n * allowed <= n * c
        BY <1>1, <2>3, <3>1, <3>2
      <3>4. QED
        BY <3>2, <3>3
    <2>5. range * (a * 100) <= range * (n * RatioSmall)
      <3>1. /\ a * 100 * range = range * (a * 100)
            /\ n * (RatioSmall * range) = range * (n * RatioSmall)
        BY <1>1, <2>1
      <3>2. n * allowed \in Int /\ range * (a * 100) \in Int /\ range * (n * RatioSmall) \in Int
        BY <1>1, <2>1, <2>3
      <3>3. QED
        BY <2>2, <2>4, <3>1, <3>2
    <2>6. a * 100 <= n * RatioSmall
      BY <1>1, <2>1, <2>5, TimesLess
    <2>7. n * (100 - RatioSmall) = n * 100 - n * RatioSmall /\ n * RatioSmall \in Int
      BY <1>1, <2>1
    <2>8. PICK p \in Int : p = n * RatioSmall
      BY <2>7
    <2>9. n * 100 - p <= Size * 100
      BY <1>1, <1>2, <2>6, <2>8
    <2>10. QED
      BY <2>7, <2>8, <2>9
  <1>6. QED
    BY <1>3, <1>4, <1>5

-----------------------------------------------------------------------------
(* What is written *)

\* The tokens of n, those of what lies one level down being e.
WrittenAt(e, n) ==
  LET content == Content(Value(n))
      values == [i \in DOMAIN content |-> e[content[i]]] IN
    CASE Kind(Value(n)) = "scalar" -> <<Value(n)>>
      [] Kind(Value(n)) = "seq" -> Around("[", values)
      [] OTHER -> Around("{", PairWise(content, values))

LEMMA AroundIs ==
  ASSUME NEW length \in Nat, NEW parts \in [1 .. length -> Seq(Tokens)], NEW token \in Tokens
  PROVE  /\ Around(token, parts) \in Seq(Tokens)
         /\ (\E i \in 1 .. length : parts[i] = Refused) => Around(token, parts) = Refused
         /\ (\A i \in 1 .. length : parts[i] # Refused) =>
              /\ Around(token, parts) = <<token>> \o FlattenSeq(parts) \o <<"end">>
              /\ Around(token, parts) # Refused
  <1>1. FlattenSeq(parts) \in Seq(Tokens)
    BY FlattenTyped
  <1> DEFINE flat == FlattenSeq(parts)
             whole == <<token>> \o flat \o <<"end">>
  <1>2. <<token>> \in Seq(Tokens) /\ <<"end">> \in Seq(Tokens) /\ Len(<<token>>) = 1 /\ Len(<<"end">>) = 1
    <2>1. "end" \in Tokens
      BY DEF Tokens
    <2>2. QED
      BY <2>1
  <1>3. DOMAIN parts = 1 .. length /\ Refused = <<>> /\ <<>> \in Seq(Tokens)
    BY EmptySeq DEF Refused
  <1>4. Around(token, parts) = IF \E i \in 1 .. length : parts[i] = Refused THEN Refused ELSE whole
    BY <1>3 DEF Around
  <1> HIDE DEF flat
  <1>5. <<token>> \o flat \in Seq(Tokens) /\ Len(<<token>> \o flat) = 1 + Len(flat) /\ Len(flat) \in Nat
    BY <1>1, <1>2, ConcatProperties, LenProperties DEF flat
  <1>6. whole \in Seq(Tokens) /\ Len(whole) = 1 + Len(flat) + 1
    BY <1>2, <1>5, ConcatProperties
  <1>7. whole # <<>>
    BY <1>5, <1>6, EmptySeq
  <1> HIDE DEF whole
  <1>8. QED
    BY <1>3, <1>4, <1>6, <1>7 DEF whole, flat

\* An alias is written as its anchor, which is none.
LEMMA ValueIs ==
  ASSUME IsDocument(document), NEW n \in Nodes
  PROVE  /\ Value(n) \in Nodes /\ Value(Value(n)) = Value(n)
         /\ Kind(n) = "alias" => Value(n) = Anchor(n) /\ Kind(Value(n)) \notin {"alias", "document"}
         /\ Kind(n) # "alias" => Value(n) = n
  <1>1. Kind(n) = "alias" => Anchor(n) \in Nodes /\ Kind(Anchor(n)) \notin {"document", "alias"}
    BY DEF IsDocument, Nodes, Kind, Anchor
  <1>2. QED
    BY <1>1 DEF Value

LEMMA WrittenIs ==
  ASSUME IsDocument(document), NEW e \in [Nodes -> Seq(Tokens)], NEW n \in Nodes,
         NEW length, length = Len(Content(Value(n))),
         NEW values, values = [i \in 1 .. length |-> e[Content(Value(n))[i]]]
  PROVE  /\ WrittenAt(e, n) \in Seq(Tokens)
         /\ length \in Nat /\ values \in [1 .. length -> Seq(Tokens)]
         /\ PairWise(Content(Value(n)), values) \in [1 .. length -> Seq(Tokens)]
         /\ Kind(Value(n)) = "scalar" => WrittenAt(e, n) = <<Value(n)>>
         /\ Kind(Value(n)) = "seq" => WrittenAt(e, n) = Around("[", values)
         /\ Kind(Value(n)) = "map" => WrittenAt(e, n) = Around("{", PairWise(Content(Value(n)), values))
  <1> DEFINE content == Content(Value(n))
             pairs == PairWise(content, values)
  <1>1. /\ length \in Nat /\ DOMAIN content = 1 .. length
        /\ \A i \in 1 .. length : content[i] \in Nodes
    BY ValueIs, ContentFacts
  <1>2. values \in [1 .. length -> Seq(Tokens)]
    BY <1>1
  <1>3. \A t \in Tokens : <<t>> \in Seq(Tokens)
    OBVIOUS
  <1>4. pairs \in [1 .. length -> Seq(Tokens)]
    <2>1. \A i \in 1 .. length : <<content[i]>> \in Seq(Tokens)
      BY <1>1, <1>3 DEF Tokens
    <2>2. pairs = [i \in 1 .. length |-> IF i % 2 = 1 THEN <<content[i]>> ELSE values[i]]
      BY <1>1 DEF PairWise
    <2> HIDE DEF content
    <2>3. QED
      BY <1>2, <2>1, <2>2
  <1>5. WrittenAt(e, n) = CASE Kind(Value(n)) = "scalar" -> <<Value(n)>>
                            [] Kind(Value(n)) = "seq" -> Around("[", values)
                            [] OTHER -> Around("{", pairs)
    BY <1>1 DEF WrittenAt
  <1>6. "[" \in Tokens /\ "{" \in Tokens /\ <<Value(n)>> \in Seq(Tokens)
    BY ValueIs, <1>3 DEF Tokens
  <1>7. Around("[", values) \in Seq(Tokens) /\ Around("{", pairs) \in Seq(Tokens)
    <2> HIDE DEF pairs
    <2>1. QED
      BY <1>1, <1>2, <1>4, <1>6, AroundIs
  <1> HIDE DEF pairs, content
  <1>8. WrittenAt(e, n) \in Seq(Tokens)
    BY <1>5, <1>6, <1>7
  <1>9. QED
    BY <1>1, <1>2, <1>4, <1>5, <1>8 DEF pairs, content

\* The recursion has a solution, and it is json2yaml.
LEMMA JsonIs ==
  ASSUME IsDocument(document)
  PROVE  /\ \A d \in 1 .. MaxDepth + 1 : json2yaml[d] \in [Nodes -> Seq(Tokens)]
         /\ \A n \in Nodes : json2yaml[MaxDepth + 1][n] = Refused
         /\ \A d \in 1 .. MaxDepth : \A n \in Nodes : json2yaml[d][n] = WrittenAt(json2yaml[d + 1], n)
  <1> DEFINE S == [Nodes -> Seq(Tokens)]
             z == [n \in Nodes |-> Refused]
             W(e) == [n \in Nodes |-> WrittenAt(e, n)]
             m == MaxDepth
             g == [k \in 1 .. m |-> [e \in S |-> W(e)]]
             F(f) == [depth \in 1 .. m + 1 |->
                        [n \in Nodes |-> IF TooDeep(depth) THEN Refused ELSE WrittenAt(f[depth + 1], n)]]
  <1>1. m \in Nat
    BY YAMLWalkerAssumption
  <1>2. z \in S
    BY EmptySeq DEF Refused
  <1>3. \A e \in S : W(e) \in S
    BY WrittenIs
  <1>4. g \in [1 .. m -> [S -> S]] /\ \A k \in 1 .. m, e \in S : g[k][e] = W(e)
    BY <1>3
  <1>5. json2yaml = CHOOSE h : h = F(h)
    BY DEF json2yaml, WrittenAt
  <1>6. ASSUME NEW h, NEW d \in 1 .. m + 1 PROVE F(h)[d] = IF d = m + 1 THEN z ELSE W(h[d + 1])
    <2>1. F(h)[d] = [n \in Nodes |-> IF TooDeep(d) THEN Refused ELSE WrittenAt(h[d + 1], n)]
      OBVIOUS
    <2>2. CASE d = m + 1
      <3>1. TooDeep(d)
        BY <1>1, <2>2 DEF TooDeep
      <3>2. QED
        BY <2>1, <2>2, <3>1
    <2>3. CASE d # m + 1
      <3>1. ~TooDeep(d)
        BY <1>1, <2>3 DEF TooDeep
      <3>2. QED
        BY <2>1, <2>3, <3>1
    <2>4. QED
      BY <2>2, <2>3
  <1>7. \A h : F(h) = [d \in 1 .. m + 1 |-> F(h)[d]]
    OBVIOUS
  <1>8. \A n \in Nodes : \A e : W(e)[n] = WrittenAt(e, n) /\ z[n] = Refused
    OBVIOUS
  <1> HIDE DEF F, g, S, z, m, W
  <1>9. PICK f : Iterates(f, S, z, m, g)
    BY <1>1, <1>2, <1>4, Iterated
  <1>10. f \in [0 .. m -> S] /\ f[0] = z /\ \A k \in 1 .. m : f[k] = W(f[k - 1])
    <2>1. f \in [0 .. m -> S] /\ f[0] = z /\ \A k \in 1 .. m : f[k] = g[k][f[k - 1]]
      BY <1>9 DEF Iterates
    <2>2. \A k \in 1 .. m : f[k - 1] \in S
      BY <1>1, <2>1
    <2>3. QED
      BY <1>4, <2>1, <2>2
  <1>11. PICK h : h = [d \in 1 .. m + 1 |-> f[m + 1 - d]]
    OBVIOUS
  <1>12. h = F(h)
    <2>1. ASSUME NEW d \in 1 .. m + 1 PROVE h[d] = F(h)[d]
      <3>1. CASE d = m + 1
        <4>1. m + 1 - d = 0
          BY <1>1, <3>1
        <4>2. QED
          BY <1>6, <1>10, <1>11, <3>1, <4>1
      <3>2. CASE d # m + 1
        <4>1. m + 1 - d \in 1 .. m /\ m + 1 - d - 1 = m + 1 - (d + 1) /\ d + 1 \in 1 .. m + 1
          BY <1>1, <3>2
        <4>2. h[d] = W(f[m + 1 - (d + 1)])
          <5>1. PICK k \in 1 .. m : k = m + 1 - d
            BY <4>1
          <5>2. h[d] = f[k] /\ f[k] = W(f[k - 1])
            BY <1>10, <1>11, <5>1
          <5>3. k - 1 = m + 1 - (d + 1)
            BY <1>1, <5>1
          <5>4. QED
            BY <5>2, <5>3
        <4>3. h[d] = W(h[d + 1])
          BY <1>11, <4>1, <4>2
        <4>4. QED
          BY <1>6, <3>2, <4>3
      <3>3. QED
        BY <3>1, <3>2
    <2>2. h = [d \in 1 .. m + 1 |-> h[d]]
      BY <1>11
    <2>3. QED
      BY <1>7, <2>1, <2>2
  <1>13. json2yaml = F(json2yaml)
    BY <1>5, <1>12
  <1>14. \A d \in 1 .. m + 1 : json2yaml[d] = IF d = m + 1 THEN z ELSE W(json2yaml[d + 1])
    BY <1>6, <1>13
  <1>15. json2yaml[m + 1] = z /\ \A d \in 1 .. m : json2yaml[d] = W(json2yaml[d + 1])
    BY <1>1, <1>14
  <1> DEFINE good == {k \in 0 .. m : json2yaml[m + 1 - k] \in S}
  <1>16. 0 \in good
    <2>1. m + 1 - 0 = m + 1
      BY <1>1
    <2>2. QED
      BY <1>1, <1>2, <1>15, <2>1
  <1>17. ASSUME NEW k \in 1 .. m, k - 1 \in good PROVE k \in good
    <2>1. json2yaml[m + 1 - (k - 1)] \in S
      BY <1>17
    <2>2. m + 1 - (k - 1) = (m + 1 - k) + 1 /\ m + 1 - k \in 1 .. m /\ k \in 0 .. m
      BY <1>1
    <2>3. json2yaml[m + 1 - k] = W(json2yaml[m + 1 - (k - 1)])
      BY <1>15, <2>2
    <2>4. QED
      BY <1>3, <2>1, <2>2, <2>3
  <1> HIDE DEF good
  <1>18. \A k \in 0 .. m : k \in good
    BY <1>1, <1>16, <1>17, Induction
  <1>19. ASSUME NEW d \in 1 .. m + 1 PROVE json2yaml[d] \in S
    <2>1. m + 1 - d \in 0 .. m /\ m + 1 - (m + 1 - d) = d
      BY <1>1
    <2>2. json2yaml[m + 1 - (m + 1 - d)] \in S
      BY <1>18, <2>1 DEF good
    <2>3. QED
      BY <2>1, <2>2
  <1>20. QED
    BY <1>8, <1>15, <1>19 DEF S, m

\* Node n, read at depth d, is written as what it stands for, at that depth or
\* with fewer aliases on the way.
Agrees(d, n) ==
  /\ d <= MaxDepth
  /\ \A e \in 1 .. d : json2yaml[e][n] = Stands(d, n) /\ json2yaml[e][n] # Refused

\* Child c of n, a key or a value, was read at depth d and can be written.
Handed(d, n, c) ==
  IF Kind(n) = "map" /\ c % 2 = 1 THEN Kind(Content(n)[c]) = "scalar" ELSE Agrees(d, Content(n)[c])

\* What is written of the children of n, at depth e.
Parts(e, n) ==
  LET values == [i \in 1 .. Len(Content(n)) |-> json2yaml[e][Content(n)[i]]] IN
  IF Kind(n) = "map" THEN PairWise(Content(n), values) ELSE values

LEMMA PartsAre ==
  ASSUME IsDocument(document), NEW n \in Nodes, NEW e \in 1 .. MaxDepth + 1
  PROVE  /\ Parts(e, n) \in [1 .. Len(Content(n)) -> Seq(Tokens)]
         /\ \A i \in 1 .. Len(Content(n)) :
              Parts(e, n)[i] = IF Kind(n) = "map" /\ i % 2 = 1 THEN <<Content(n)[i]>>
                               ELSE json2yaml[e][Content(n)[i]]
  <1> DEFINE values == [i \in 1 .. Len(Content(n)) |-> json2yaml[e][Content(n)[i]]]
  <1>1. /\ Len(Content(n)) \in Nat /\ DOMAIN Content(n) = 1 .. Len(Content(n))
        /\ \A i \in 1 .. Len(Content(n)) : Content(n)[i] \in Nodes
    BY ContentFacts
  <1>2. json2yaml[e] \in [Nodes -> Seq(Tokens)]
    BY JsonIs
  <1>3. \A i \in 1 .. Len(Content(n)) : json2yaml[e][Content(n)[i]] \in Seq(Tokens)
    BY <1>1, <1>2
  <1>4. \A t \in Tokens : <<t>> \in Seq(Tokens)
    OBVIOUS
  <1>5. \A i \in 1 .. Len(Content(n)) : <<Content(n)[i]>> \in Seq(Tokens)
    BY <1>1, <1>4 DEF Tokens
  <1>6. Parts(e, n) = [i \in 1 .. Len(Content(n)) |->
                         IF Kind(n) = "map" /\ i % 2 = 1 THEN <<Content(n)[i]>> ELSE values[i]]
    BY <1>1 DEF Parts, PairWise
  <1>7. \A i \in 1 .. Len(Content(n)) : values[i] = json2yaml[e][Content(n)[i]]
    OBVIOUS
  <1> HIDE DEF values
  <1>8. QED
    BY <1>3, <1>5, <1>6, <1>7

\* A container that is read to its end is written as what it stands for.
LEMMA ContainerAgrees ==
  ASSUME IsDocument(document), NEW n \in Nodes, Kind(n) \in {"seq", "map"},
         NEW d \in 0 .. MaxDepth, \A c \in 1 .. Len(Content(n)) : Handed(d + 1, n, c),
         NEW e \in 0 .. d
  PROVE  /\ Around(Opens(n), Parts(e + 1, n)) = Stands(d, n)
         /\ Around(Opens(n), Parts(e + 1, n)) # Refused
  <1> DEFINE length == Len(Content(n))
             parts == Parts(e + 1, n)
  <1>1. MaxDepth \in Nat /\ e + 1 \in 1 .. MaxDepth + 1 /\ e + 1 \in 1 .. d + 1 /\ d + 1 \in 0 .. MaxDepth + 1
    BY YAMLWalkerAssumption
  <1>2. /\ length \in Nat /\ \A i \in 1 .. length : Content(n)[i] \in Nodes
    BY ContentFacts
  <1>3. /\ parts \in [1 .. length -> Seq(Tokens)]
        /\ \A i \in 1 .. length :
             parts[i] = IF Kind(n) = "map" /\ i % 2 = 1 THEN <<Content(n)[i]>>
                        ELSE json2yaml[e + 1][Content(n)[i]]
    BY <1>1, PartsAre
  <1>4. ASSUME NEW i \in 1 .. length
        PROVE  parts[i] = Stands(d + 1, Content(n)[i]) /\ parts[i] # Refused
    <2>1. CASE Kind(n) = "map" /\ i % 2 = 1
      <3>1. i + 1 \in 1 .. length /\ (i + 1) % 2 # 1
        <4>1. length % 2 = 0
          BY <2>1, DocumentFacts
        <4>2. i \in Nat /\ i <= length
          BY <1>2
        <4> HIDE DEF length
        <4>3. QED
          BY <1>2, <2>1, <4>1, <4>2
      <3>2. Handed(d + 1, n, i + 1) /\ Handed(d + 1, n, i)
        BY <3>1
      <3>3. d + 1 <= MaxDepth
        BY <3>1, <3>2 DEF Handed, Agrees
      <3>4. Kind(Content(n)[i]) = "scalar"
        BY <2>1, <3>2 DEF Handed
      <3>5. Stands(d + 1, Content(n)[i]) = <<Content(n)[i]>>
        BY <1>1, <1>2, <3>3, <3>4, StandsIs
      <3>6. \A x : <<x>> # Refused
        BY DEF Refused
      <3>7. parts[i] = <<Content(n)[i]>>
        BY <1>3, <2>1
      <3> HIDE DEF parts
      <3>8. QED
        BY <3>5, <3>6, <3>7
    <2>2. CASE ~(Kind(n) = "map" /\ i % 2 = 1)
      <3>1. Agrees(d + 1, Content(n)[i])
        BY <2>2 DEF Handed
      <3>2. json2yaml[e + 1][Content(n)[i]] = Stands(d + 1, Content(n)[i])
            /\ json2yaml[e + 1][Content(n)[i]] # Refused
        BY <1>1, <3>1 DEF Agrees
      <3>3. QED
        BY <1>3, <2>2, <3>2
    <2>3. QED
      BY <2>1, <2>2
  <1> HIDE DEF parts
  <1>5. parts = [i \in 1 .. length |-> Stands(d + 1, Content(n)[i])]
    BY <1>3, <1>4
  <1>6. FlattenSeq(parts) = Inside(d + 1, n, length)
    BY <1>5 DEF Inside
  <1>7. Stands(d, n) = <<Opens(n)>> \o Inside(d + 1, n, length) \o <<"end">>
    BY <1>1, StandsIs
  <1>8. Opens(n) \in Tokens
    BY DEF Opens, Tokens
  <1> HIDE DEF length
  <1>9. Around(Opens(n), parts) = <<Opens(n)>> \o FlattenSeq(parts) \o <<"end">> /\ Around(Opens(n), parts) # Refused
    BY <1>2, <1>3, <1>4, <1>8, AroundIs
  <1>10. QED
    BY <1>6, <1>7, <1>9 DEF parts

\* What json2yaml makes of a node.
LEMMA JsonOf ==
  ASSUME IsDocument(document), NEW n \in Nodes, NEW e \in 1 .. MaxDepth
  PROVE  /\ Kind(Value(n)) = "scalar" => json2yaml[e][n] = <<Value(n)>>
         /\ Kind(Value(n)) \in {"seq", "map"} =>
              json2yaml[e][n] = Around(Opens(Value(n)), Parts(e + 1, Value(n)))
  <1> DEFINE v == Value(n)
             length == Len(Content(v))
             values == [i \in 1 .. length |-> json2yaml[e + 1][Content(v)[i]]]
  <1>1. e + 1 \in 1 .. MaxDepth + 1
    BY YAMLWalkerAssumption
  <1>2. json2yaml[e + 1] \in [Nodes -> Seq(Tokens)] /\ json2yaml[e][n] = WrittenAt(json2yaml[e + 1], n)
    BY <1>1, JsonIs
  <1>3. /\ Kind(v) = "scalar" => WrittenAt(json2yaml[e + 1], n) = <<v>>
        /\ Kind(v) = "seq" => WrittenAt(json2yaml[e + 1], n) = Around("[", values)
        /\ Kind(v) = "map" => WrittenAt(json2yaml[e + 1], n) = Around("{", PairWise(Content(v), values))
    <2>1. DOMAIN Content(v) = 1 .. length
      BY ValueIs, ContentFacts
    <2>2. WrittenAt(json2yaml[e + 1], n) = CASE Kind(v) = "scalar" -> <<v>>
                                             [] Kind(v) = "seq" -> Around("[", values)
                                             [] OTHER -> Around("{", PairWise(Content(v), values))
      BY <2>1 DEF WrittenAt
    <2> HIDE DEF values, v
    <2>3. QED
      BY <2>2
  <1>4. Parts(e + 1, v) = IF Kind(v) = "map" THEN PairWise(Content(v), values) ELSE values
    BY DEF Parts
  <1> HIDE DEF values, length, v
  <1>5. Kind(v) = "seq" => Opens(v) = "["
    BY DEF Opens
  <1>6. Kind(v) = "map" => Opens(v) = "{"
    BY DEF Opens
  <1>7. QED
    BY <1>2, <1>3, <1>4, <1>5, <1>6 DEF v

LEMMA ScalarAgrees ==
  ASSUME IsDocument(document), NEW n \in Nodes, Kind(n) = "scalar", NEW d \in 1 .. MaxDepth
  PROVE  Agrees(d, n)
  <1>1. d <= MaxDepth /\ d \in 0 .. MaxDepth + 1 /\ \A e \in 1 .. d : e \in 1 .. MaxDepth
    BY YAMLWalkerAssumption
  <1>2. Stands(d, n) = <<n>>
    BY <1>1, StandsIs
  <1>3. Value(n) = n
    BY ValueIs
  <1>4. \A e \in 1 .. d : json2yaml[e][n] = <<n>>
    BY <1>1, <1>3, JsonOf
  <1>5. QED
    BY <1>1, <1>2, <1>4 DEF Agrees, Refused

LEMMA ReadAgrees ==
  ASSUME IsDocument(document), NEW n \in Nodes, Kind(n) \in {"seq", "map"},
         NEW d \in 1 .. MaxDepth, \A c \in 1 .. Len(Content(n)) : Handed(d + 1, n, c)
  PROVE  Agrees(d, n)
  <1>1. d <= MaxDepth /\ d \in 0 .. MaxDepth /\ \A e \in 1 .. d : e \in 1 .. MaxDepth /\ e \in 0 .. d
    BY YAMLWalkerAssumption
  <1>2. Value(n) = n
    BY ValueIs
  <1>3. ASSUME NEW e \in 1 .. d
        PROVE  json2yaml[e][n] = Stands(d, n) /\ json2yaml[e][n] # Refused
    <2>1. json2yaml[e][n] = Around(Opens(n), Parts(e + 1, n))
      BY <1>1, <1>2, JsonOf
    <2>2. Around(Opens(n), Parts(e + 1, n)) = Stands(d, n) /\ Around(Opens(n), Parts(e + 1, n)) # Refused
      BY <1>1, ContainerAgrees
    <2>3. QED
      BY <2>1, <2>2
  <1>4. QED
    BY <1>1, <1>3 DEF Agrees

\* An alias is written as its anchor is, one level higher than it was read.
LEMMA AliasAgrees ==
  ASSUME IsDocument(document), NEW n \in Nodes, Kind(n) = "alias",
         NEW d \in 1 .. MaxDepth, Agrees(d + 1, Anchor(n))
  PROVE  Agrees(d, n)
  <1>1. d <= MaxDepth /\ d \in 0 .. MaxDepth + 1 /\ \A e \in 1 .. d : e \in 1 .. MaxDepth /\ e \in 1 .. d + 1
    BY YAMLWalkerAssumption
  <1>2. Stands(d, n) = Stands(d + 1, Anchor(n))
    BY <1>1, StandsIs
  <1>3. Anchor(n) \in Nodes /\ Value(n) = Anchor(n) /\ Value(Anchor(n)) = Anchor(n)
    BY ValueIs
  <1>4. ASSUME NEW e \in 1 .. d PROVE json2yaml[e][n] = json2yaml[e][Anchor(n)]
    <2>1. e \in 1 .. MaxDepth
      BY <1>1
    <2>2. json2yaml[e][n] = WrittenAt(json2yaml[e + 1], n)
      BY <2>1, JsonIs
    <2>3. json2yaml[e][Anchor(n)] = WrittenAt(json2yaml[e + 1], Anchor(n))
      BY <1>3, <2>1, JsonIs
    <2>4. WrittenAt(json2yaml[e + 1], n) = WrittenAt(json2yaml[e + 1], Anchor(n))
      BY <1>3 DEF WrittenAt
    <2>5. QED
      BY <2>2, <2>3, <2>4
  <1>5. QED
    BY <1>1, <1>2, <1>4 DEF Agrees

\* The mapping that was read, to its end.
LEMMA MarshalAgrees ==
  ASSUME IsDocument(document), NEW n \in Nodes, Kind(n) = "map",
         \A c \in 1 .. Len(Content(n)) : Handed(1, n, c)
  PROVE  MarshalYAML(n) = Stands(0, n)
  <1>1. MaxDepth \in Nat /\ 0 \in 0 .. MaxDepth /\ 0 \in 0 .. 0 /\ 0 + 1 = 1
    BY YAMLWalkerAssumption
  <1>2. Around(Opens(n), Parts(1, n)) = Stands(0, n)
    <2>1. PICK d \in 0 .. MaxDepth : d = 0
      BY <1>1
    <2>2. Around(Opens(n), Parts(d + 1, n)) = Stands(d, n)
      BY <1>1, <2>1, ContainerAgrees
    <2>3. QED
      BY <1>1, <2>1, <2>2
  <1>3. MarshalYAML(n) = Around(Opens(n), Parts(1, n))
    <2>1. DOMAIN Content(n) = 1 .. Len(Content(n))
      BY ContentFacts
    <2>2. QED
      BY <2>1 DEF MarshalYAML, Parts, Opens
  <1>4. QED
    BY <1>2, <1>3

\* Is the child that frame i of stack fs is at behind it?
Behind(fs, v, i) == i = Len(fs) /\ v = Nowhere

\* The children that are behind the frames of stack fs were handed on, and in the
\* end all of the mapping read.
Written(fs, v) ==
  /\ \A i \in 1 .. Len(fs) :
       /\ fs[i].routine # "alias" =>
            \A c \in 1 .. fs[i].at : c < fs[i].at \/ Behind(fs, v, i) => Handed(i, fs[i].node, c)
       /\ fs[i].routine = "alias" /\ Behind(fs, v, i) => Agrees(i, Anchor(fs[i].node))
  /\ fs = <<>> /\ v = Nowhere => MarshalYAML(Target) = Stands(0, Target)

\* The child that a frame is at.
LEMMA LedTo ==
  ASSUME IsDocument(document), NEW f, Suits(f), NEW x, Leads(f, x)
  PROVE  /\ x \in Nodes /\ Kind(x) # "document" /\ f.at \in Nat
         /\ f.routine = "alias" => x = Anchor(f.node)
         /\ f.routine # "alias" =>
              /\ f.at \in 1 .. Len(Content(f.node)) /\ x = Content(f.node)[f.at]
              /\ \A d : Handed(d, f.node, f.at) <=> Agrees(d, x)
  <1>1. f.node \in Nodes /\ f.at \in 0 .. Len(Content(f.node))
    BY DEF Suits
  <1>2. /\ Len(Content(f.node)) \in Nat /\ DOMAIN Content(f.node) = 1 .. Len(Content(f.node))
        /\ \A i \in 1 .. Len(Content(f.node)) : Content(f.node)[i] \in Nodes
    BY <1>1, ContentFacts
  <1>3. CASE f.routine = "alias"
    <2>1. x = Anchor(f.node) /\ Kind(f.node) = "alias"
      BY <1>3 DEF Leads, Current, Suits
    <2>2. x \in Nodes /\ Kind(x) # "document"
      BY <1>1, <2>1 DEF IsDocument, Nodes, Kind, Anchor
    <2>3. QED
      BY <1>1, <1>2, <1>3, <2>1, <2>2
  <1>4. CASE f.routine # "alias"
    <2>1. x = Content(f.node)[f.at] /\ f.at \in 1 .. Len(Content(f.node))
      BY <1>1, <1>2, <1>4 DEF Leads, Current
    <2>2. Kind(Content(f.node)[f.at]) # "document"
      <3>1. \A n \in Nodes : \A i \in DOMAIN Content(n) : Kind(Content(n)[i]) # "document"
        BY Zenon DEF IsDocument, Nodes, Content, Kind
      <3>2. QED
        BY <1>1, <1>2, <2>1, <3>1
    <2>3. Kind(f.node) = "map" => f.at % 2 = 0
      BY <1>4 DEF Suits
    <2>4. f.at \in Nat /\ (Kind(f.node) = "map" => f.at % 2 # 1)
      BY <1>1, <1>2, <2>3
    <2>5. \A d : Handed(d, f.node, f.at) <=> Agrees(d, x)
      BY <2>1, <2>4 DEF Handed
    <2>6. QED
      BY <1>2, <1>4, <2>1, <2>2, <2>4, <2>5
  <1>5. QED
    BY <1>3, <1>4

\* What frame p was at is behind it, and what was on top of it is gone.
LEMMA WrittenBack ==
  ASSUME IsDocument(document), NEW fs, NEW v, Written(fs, v), NEW p \in 1 .. Len(fs), Len(fs) \in Nat,
         p < Len(fs) \/ v # Nowhere, Suits(fs[p]), NEW x, Leads(fs[p], x), Agrees(p, x),
         NEW gs, Len(gs) = p, \A i \in 1 .. p : gs[i] = fs[i]
  PROVE  Written(gs, Nowhere)
  <1>1. gs # <<>>
    <2>1. Len(<<>>) = 0 /\ p # 0
      OBVIOUS
    <2>2. QED
      BY <2>1
  <1>2. ASSUME NEW i \in 1 .. Len(gs)
        PROVE  /\ gs[i].routine # "alias" =>
                    \A c \in 1 .. gs[i].at : c < gs[i].at \/ Behind(gs, Nowhere, i) => Handed(i, gs[i].node, c)
               /\ gs[i].routine = "alias" /\ Behind(gs, Nowhere, i) => Agrees(i, Anchor(gs[i].node))
    <2>1. gs[i] = fs[i] /\ i \in 1 .. Len(fs) /\ ~Behind(fs, v, i)
      BY DEF Behind
    <2>2. fs[i].routine # "alias" => \A c \in 1 .. fs[i].at : c < fs[i].at => Handed(i, fs[i].node, c)
      BY <2>1 DEF Written
    <2>3. CASE i # p
      BY <2>1, <2>2, <2>3 DEF Behind
    <2>4. CASE i = p
      <3>1. /\ fs[i].at \in Nat
            /\ fs[i].routine = "alias" => x = Anchor(fs[i].node)
            /\ fs[i].routine # "alias" => Handed(i, fs[i].node, fs[i].at)
        BY <2>4, LedTo
      <3>2. \A c \in 1 .. fs[i].at : c < fs[i].at \/ c = fs[i].at
        BY <3>1
      <3>3. fs[i].routine # "alias" => \A c \in 1 .. fs[i].at : Handed(i, fs[i].node, c)
        BY <2>2, <3>1, <3>2
      <3>4. fs[i].routine = "alias" => Agrees(i, Anchor(fs[i].node))
        BY <2>4, <3>1
      <3>5. QED
        BY <2>1, <3>3, <3>4
    <2>5. QED
      BY <2>3, <2>4
  <1>3. QED
    BY <1>1, <1>2 DEF Written

\* One frame more, with nothing behind it.
LEMMA WrittenPush ==
  ASSUME NEW fs, Framed(fs), Len(fs) <= MaxDepth, NEW v, v # Nowhere, Written(fs, v),
         NEW n, NEW routine, NEW gs, Pushed(fs, gs, n, routine), NEW w,
         routine = "alias" => w # Nowhere
  PROVE  Written(gs, w)
  <1>1. /\ Len(gs) = Len(fs) + 1 /\ gs[Len(fs) + 1] = Frame(n, routine, Len(fs))
        /\ \A i \in 1 .. Len(fs) : gs[i] = fs[i]
    BY PushFramed
  <1>2. Len(fs) \in Nat
    BY OpenedFinite
  <1> DEFINE top == Len(fs) + 1
  <1>3. gs[top].at = 0 /\ gs[top].routine = routine
    BY <1>1 DEF Frame
  <1>4. gs # <<>>
    <2>1. Len(<<>>) = 0 /\ Len(fs) + 1 # 0
      BY <1>2
    <2>2. QED
      BY <1>1, <2>1
  <1>5. ASSUME NEW i \in 1 .. Len(gs)
        PROVE  /\ gs[i].routine # "alias" =>
                    \A c \in 1 .. gs[i].at : c < gs[i].at \/ Behind(gs, w, i) => Handed(i, gs[i].node, c)
               /\ gs[i].routine = "alias" /\ Behind(gs, w, i) => Agrees(i, Anchor(gs[i].node))
    <2>1. CASE i = top
      <3>1. gs[i].at = 0 /\ gs[i].routine = routine
        BY <1>3, <2>1
      <3>2. QED
        BY <3>1 DEF Behind
    <2>2. CASE i # top
      <3>1. i \in 1 .. Len(fs) /\ gs[i] = fs[i] /\ ~Behind(gs, w, i) /\ ~Behind(fs, v, i)
        BY <1>1, <1>2, <2>2 DEF Behind
      <3>2. QED
        BY <3>1 DEF Written
    <2>3. QED
      BY <2>1, <2>2
  <1>6. QED
    BY <1>4, <1>5 DEF Written

\* One more child, or a key and a child.
LEMMA WrittenRead ==
  ASSUME IsDocument(document), NEW fs, Framed(fs), fs # <<>>, Written(fs, Nowhere),
         NEW t, t = fs[Len(fs)], Suits(t), t.routine # "alias",
         NEW step \in {1, 2}, NEW gs, Advanced(fs, gs, step), NEW w, w # Nowhere,
         step = 2 => Kind(t.node) = "map" /\ Kind(Content(t.node)[t.at + 1]) = "scalar"
  PROVE  Written(gs, w)
  <1>1. /\ Len(gs) = Len(fs) /\ gs # <<>>
        /\ \A i \in 1 .. Len(fs) - 1 : gs[i] = fs[i]
        /\ gs[Len(fs)] = [node |-> t.node, routine |-> t.routine, at |-> t.at + step, depth |-> Len(fs) - 1]
    BY ReadMore
  <1>2. Len(fs) \in Nat /\ Len(fs) \in 1 .. Len(fs)
    BY FramedFacts
  <1>3. t.at \in Nat /\ (Kind(t.node) = "map" => t.at % 2 = 0)
    <2>1. t.node \in Nodes /\ t.at \in 0 .. Len(Content(t.node))
      BY DEF Suits
    <2>2. Len(Content(t.node)) \in Nat
      BY <2>1, ContentFacts
    <2>3. QED
      BY <2>1, <2>2 DEF Suits
  <1>4. \A c \in 1 .. t.at : Handed(Len(fs), t.node, c)
    BY <1>2 DEF Written, Behind
  <1>5. step = 2 => Handed(Len(fs), t.node, t.at + 1)
    <2>1. ASSUME step = 2 PROVE (t.at + 1) % 2 = 1
      BY <1>3, <2>1
    <2>2. QED
      BY <2>1 DEF Handed
  <1>6. ASSUME NEW i \in 1 .. Len(gs)
        PROVE  /\ gs[i].routine # "alias" =>
                    \A c \in 1 .. gs[i].at : c < gs[i].at \/ Behind(gs, w, i) => Handed(i, gs[i].node, c)
               /\ gs[i].routine = "alias" /\ Behind(gs, w, i) => Agrees(i, Anchor(gs[i].node))
    <2>1. CASE i = Len(fs)
      <3>1. gs[i].at = t.at + step /\ gs[i].routine = t.routine /\ gs[i].node = t.node
        BY <1>1, <2>1
      <3>2. \A c \in 1 .. t.at + step : c < t.at + step => c \in 1 .. t.at \/ (step = 2 /\ c = t.at + 1)
        BY <1>3
      <3>3. QED
        BY <1>4, <1>5, <2>1, <3>1, <3>2 DEF Behind
    <2>2. CASE i # Len(fs)
      <3>1. i \in 1 .. Len(fs) - 1 /\ i \in 1 .. Len(fs) /\ ~Behind(gs, w, i) /\ ~Behind(fs, Nowhere, i)
        BY <1>1, <1>2, <2>2 DEF Behind
      <3>2. gs[i] = fs[i]
        BY <1>1, <3>1
      <3>3. QED
        BY <3>1, <3>2 DEF Written
    <2>3. QED
      BY <2>1, <2>2
  <1>7. QED
    BY <1>1, <1>6 DEF Written

\* Where a mapping is read: the stack is a path from it, and below it there is no
\* document.
Reading(fs, v) ==
  /\ IsDocument(document) /\ Unmarshals /\ Kind(Target) = "map"
  /\ Framed(fs) /\ OnPath(fs, v)

LEMMA ReadingFacts ==
  ASSUME NEW fs, NEW v, Reading(fs, v)
  PROVE  /\ \A i \in 1 .. Len(fs) : Suits(fs[i]) /\ Kind(fs[i].node) # "document"
         /\ \A i \in 1 .. Len(fs) - 1 : Leads(fs[i], fs[i + 1].node)
         /\ fs # <<>> => fs[1].node = Target /\ fs[1].routine = "pairs"
         /\ Len(fs) \in Nat /\ Len(fs) <= MaxDepth + 1 /\ MaxDepth \in Nat
         /\ fs # <<>> => Len(fs) \in 1 .. Len(fs) /\ 1 \in 1 .. Len(fs)
         /\ v # Nowhere => v.node \in Nodes /\ fs # <<>> /\ Leads(fs[Len(fs)], v.node)
  <1>1. /\ \A i \in 1 .. Len(fs) : Suits(fs[i])
        /\ \A i \in 1 .. Len(fs) - 1 : Leads(fs[i], fs[i + 1].node)
        /\ fs # <<>> => fs[1].node = Target
        /\ v # Nowhere => v.node \in Nodes /\ Comes(fs, v.node)
        /\ v # Nowhere /\ fs = <<>> => entry = "YAMLToJSON"
        /\ Framed(fs) /\ IsDocument(document) /\ Kind(Target) = "map" /\ entry = "UnmarshalYAML"
    BY DEF Reading, OnPath, Unmarshals
  <1>2. /\ Len(fs) \in Nat /\ Len(fs) <= MaxDepth + 1 /\ MaxDepth \in Nat
        /\ fs # <<>> => Len(fs) >= 1
    BY <1>1, FramedFacts
  <1>3. fs # <<>> => Len(fs) \in 1 .. Len(fs) /\ 1 \in 1 .. Len(fs)
    BY <1>2
  <1>4. v # Nowhere => v.node \in Nodes /\ fs # <<>> /\ Leads(fs[Len(fs)], v.node)
    BY <1>1 DEF Comes
  <1>5. fs # <<>> => fs[1].routine = "pairs"
    BY <1>1, <1>3 DEF Suits
  <1>6. ASSUME NEW i \in 1 .. Len(fs) PROVE Kind(fs[i].node) # "document"
    <2>1. CASE i = 1
      <3>1. fs # <<>>
        <4>1. Len(<<>>) = 0
          OBVIOUS
        <4>2. Len(fs) # 0
          BY <1>2
        <4>3. QED
          BY <4>1, <4>2
      <3>2. QED
        BY <1>1, <2>1, <3>1
    <2>2. CASE i # 1
      <3>1. PICK j \in 1 .. Len(fs) - 1 : i = j + 1
        <4>1. i - 1 \in 1 .. Len(fs) - 1 /\ i = i - 1 + 1
          BY <1>2, <2>2
        <4>2. QED
          BY <4>1
      <3>2. j \in 1 .. Len(fs)
        BY <1>2
      <3>3. Suits(fs[j]) /\ Leads(fs[j], fs[i].node)
        BY <1>1, <3>1, <3>2
      <3>4. QED
        BY <1>1, <3>3, LedTo
    <2>3. QED
      BY <2>1, <2>2
  <1>7. QED
    BY <1>1, <1>2, <1>3, <1>4, <1>5, <1>6

LEMMA OneBelow ==
  ASSUME NEW n \in Nat, NEW m \in Nat, n >= 1, n # 1, n <= m + 1
  PROVE  n - 1 \in 1 .. m /\ n - 1 + 1 = n /\ n - 1 \in 1 .. n /\ n - 1 < n /\ n - 1 \in 1 .. n - 1
  OBVIOUS

\* A container, or an alias, that is left.
LEMMA WrittenPop ==
  ASSUME NEW fs, fs # <<>>, Reading(fs, Nowhere), Written(fs, Nowhere), NEW t, t = fs[Len(fs)],
         t.routine # "alias" => t.at >= Len(Content(t.node)), NEW gs, gs = Front(fs)
  PROVE  Written(gs, Nowhere)
  <1> DEFINE p == Len(fs) - 1
  <1>1. /\ Len(fs) \in Nat /\ Len(fs) <= MaxDepth + 1 /\ MaxDepth \in Nat /\ Len(fs) \in 1 .. Len(fs)
        /\ Suits(t) /\ Kind(t.node) # "document" /\ IsDocument(document)
    BY ReadingFacts DEF Reading
  <1>2. Framed(gs) /\ Len(gs) = p /\ \A i \in 1 .. p : gs[i] = fs[i]
    BY PopFramed DEF Reading
  <1>3. t.node \in Nodes /\ t.at \in 0 .. Len(Content(t.node)) /\ Len(Content(t.node)) \in Nat
    BY <1>1, ContentFacts DEF Suits
  <1>4. t.routine # "alias" => \A c \in 1 .. Len(Content(t.node)) : Handed(Len(fs), t.node, c)
    <2>1. ASSUME t.routine # "alias" PROVE t.at = Len(Content(t.node))
      BY <1>3, <2>1
    <2>2. t.routine # "alias" => \A c \in 1 .. t.at : Handed(Len(fs), t.node, c)
      BY <1>1 DEF Written, Behind
    <2>3. QED
      BY <2>1, <2>2
  <1>5. t.routine = "alias" => Agrees(Len(fs), Anchor(t.node)) /\ Kind(t.node) = "alias"
    BY <1>1 DEF Written, Behind, Suits
  <1>6. t.routine # "alias" => Kind(t.node) \in {"seq", "map"}
    BY <1>1 DEF Suits
  <1>7. CASE Len(fs) = 1
    <2>1. t.routine = "pairs" /\ t.node = Target
      BY <1>7, ReadingFacts
    <2>2. \A c \in 1 .. Len(Content(Target)) : Handed(1, Target, c)
      BY <1>4, <1>7, <2>1
    <2>3. MarshalYAML(Target) = Stands(0, Target)
      BY <1>1, <1>3, <2>1, <2>2, MarshalAgrees DEF Reading
    <2>4. \A i \in 1 .. Len(gs) : FALSE
      BY <1>2, <1>7
    <2>5. QED
      BY <2>3, <2>4 DEF Written
  <1>8. CASE Len(fs) # 1
    <2>1. p \in 1 .. MaxDepth /\ p + 1 = Len(fs) /\ p \in 1 .. Len(fs) /\ p < Len(fs) /\ p \in 1 .. Len(fs) - 1
      <3>1. Len(fs) >= 1
        BY <1>1
      <3>2. QED
        BY <1>1, <1>8, <3>1, OneBelow
    <2>2. Agrees(p, t.node)
      <3> HIDE DEF p
      <3>1. CASE t.routine = "alias"
        <4>1. Agrees(p + 1, Anchor(t.node)) /\ Kind(t.node) = "alias"
          BY <1>5, <2>1, <3>1
        <4>2. QED
          BY <1>1, <1>3, <2>1, <4>1, AliasAgrees
      <3>2. CASE t.routine # "alias"
        <4>1. \A c \in 1 .. Len(Content(t.node)) : Handed(p + 1, t.node, c)
          BY <1>4, <2>1, <3>2
        <4>2. Kind(t.node) \in {"seq", "map"}
          BY <1>6, <3>2
        <4>3. QED
          BY <1>1, <1>3, <2>1, <4>1, <4>2, ReadAgrees
      <3>3. QED
        BY <3>1, <3>2
    <2>3. Suits(fs[p]) /\ Leads(fs[p], t.node)
      BY <2>1, ReadingFacts
    <2> HIDE DEF p
    <2>4. QED
      BY <1>1, <1>2, <2>1, <2>2, <2>3, WrittenBack
  <1>9. QED
    BY <1>7, <1>8

LEMMA MarshalIs ==
  ASSUME IsDocument(document), NEW n \in Nodes, Kind(n) = "map"
  PROVE  MarshalYAML(n) = Around(Opens(n), Parts(1, n))
  <1>1. DOMAIN Content(n) = 1 .. Len(Content(n))
    BY ContentFacts
  <1>2. QED
    BY <1>1 DEF MarshalYAML, Parts, Opens

\* What contains something that is refused is refused.
LEMMA RefusedAround ==
  ASSUME IsDocument(document), NEW f, Suits(f), NEW x, Leads(f, x), Kind(f.node) \in {"seq", "map"},
         NEW e \in 1 .. MaxDepth + 1, json2yaml[e][x] = Refused
  PROVE  Around(Opens(f.node), Parts(e, f.node)) = Refused
  <1> DEFINE length == Len(Content(f.node))
             parts == Parts(e, f.node)
  <1>1. f.routine # "alias" /\ f.node \in Nodes
    BY DEF Suits
  <1>2. f.at \in 1 .. length /\ x = Content(f.node)[f.at] /\ (Kind(f.node) = "map" => f.at % 2 # 1)
    <2>1. f.at \in Nat /\ f.at \in 1 .. length /\ x = Content(f.node)[f.at]
      BY <1>1, LedTo
    <2>2. Kind(f.node) = "map" => f.at % 2 = 0
      BY <1>1 DEF Suits
    <2>3. QED
      BY <2>1, <2>2
  <1>3. /\ parts \in [1 .. length -> Seq(Tokens)] /\ length \in Nat
        /\ \A i \in 1 .. length :
             parts[i] = IF Kind(f.node) = "map" /\ i % 2 = 1 THEN <<Content(f.node)[i]>>
                        ELSE json2yaml[e][Content(f.node)[i]]
    BY <1>1, PartsAre, ContentFacts
  <1> HIDE DEF parts, length
  <1>4. parts[f.at] = Refused
    BY <1>2, <1>3
  <1>5. Opens(f.node) \in Tokens
    BY DEF Opens, Tokens
  <1>6. Around(Opens(f.node), parts) = Refused
    BY <1>2, <1>3, <1>4, <1>5, AroundIs
  <1>7. QED
    BY <1>6 DEF parts

\* Nothing of the document is expanded, or not a value.
Straight == \A n \in Nodes : Kind(n) \notin {"alias", "bad"}

\* What is too deep to be read is too deep to be written.
LEMMA TooDeepRefused ==
  ASSUME NEW fs, NEW v, Reading(fs, v), v # Nowhere, Len(fs) > MaxDepth, Straight
  PROVE  MarshalYAML(Target) = Refused
  <1> DEFINE child(i) == IF i = Len(fs) THEN v.node ELSE fs[i + 1].node
  <1>1. /\ \A i \in 1 .. Len(fs) : Suits(fs[i]) /\ Kind(fs[i].node) # "document"
        /\ \A i \in 1 .. Len(fs) - 1 : Leads(fs[i], fs[i + 1].node)
        /\ fs[1].node = Target
        /\ Len(fs) \in Nat /\ Len(fs) <= MaxDepth + 1 /\ MaxDepth \in Nat
        /\ v.node \in Nodes /\ Leads(fs[Len(fs)], v.node) /\ IsDocument(document) /\ Kind(Target) = "map"
    BY ReadingFacts DEF Reading
  <1>2. Len(fs) = MaxDepth + 1
    BY <1>1
  <1>3. ASSUME NEW i \in 1 .. MaxDepth + 1
        PROVE  /\ Suits(fs[i]) /\ Kind(fs[i].node) \in {"seq", "map"} /\ fs[i].node \in Nodes
               /\ Leads(fs[i], child(i))
    <2>1. Suits(fs[i]) /\ Kind(fs[i].node) # "document"
      BY <1>1, <1>2
    <2>2. fs[i].node \in Nodes /\ Kind(fs[i].node) \in {"seq", "map"}
      BY <2>1 DEF Suits, Straight
    <2>3. Leads(fs[i], child(i))
      <3>1. CASE i = Len(fs)
        BY <1>1, <3>1
      <3>2. CASE i # Len(fs)
        <4>1. i \in 1 .. Len(fs) - 1
          BY <1>1, <1>2, <3>2
        <4>2. QED
          BY <1>1, <3>2, <4>1
      <3>3. QED
        BY <3>1, <3>2
    <2>4. QED
      BY <2>1, <2>2, <2>3
  <1>4. \A i \in 1 .. MaxDepth : child(i) = fs[i + 1].node /\ i + 1 \in 1 .. MaxDepth + 1
    BY <1>1, <1>2
  <1>5. child(MaxDepth + 1) = v.node
    BY <1>2
  <1> HIDE DEF child
  <1> DEFINE good == {k \in 0 .. MaxDepth : json2yaml[MaxDepth + 1 - k][child(MaxDepth + 1 - k)] = Refused}
  <1>6. 0 \in good
    <2>1. json2yaml[MaxDepth + 1][v.node] = Refused
      BY <1>1, JsonIs
    <2>2. MaxDepth + 1 - 0 = MaxDepth + 1 /\ 0 \in 0 .. MaxDepth
      BY <1>1
    <2>3. QED
      BY <1>5, <2>1, <2>2
  <1>7. ASSUME NEW k \in 1 .. MaxDepth, k - 1 \in good PROVE k \in good
    <2>1. PICK i \in 1 .. MaxDepth : i = MaxDepth + 1 - k
      <3>1. MaxDepth + 1 - k \in 1 .. MaxDepth
        BY <1>1
      <3>2. QED
        BY <3>1
    <2>2. i + 1 = MaxDepth + 1 - (k - 1) /\ i + 1 \in 1 .. MaxDepth + 1 /\ k \in 0 .. MaxDepth
      BY <1>1, <2>1
    <2>3. json2yaml[i + 1][child(i + 1)] = Refused
      BY <1>7, <2>2
    <2>4. Around(Opens(fs[i + 1].node), Parts(i + 1, fs[i + 1].node)) = Refused
      <3>1. PICK j \in 1 .. MaxDepth + 1 : j = i + 1
        BY <2>2
      <3>2. Suits(fs[j]) /\ Kind(fs[j].node) \in {"seq", "map"} /\ Leads(fs[j], child(j))
        BY <1>3
      <3>3. json2yaml[j][child(j)] = Refused
        BY <2>3, <3>1
      <3>4. Around(Opens(fs[j].node), Parts(j, fs[j].node)) = Refused
        BY <1>1, <3>2, <3>3, RefusedAround
      <3>5. QED
        BY <3>1, <3>4
    <2>5. fs[i + 1].node \in Nodes /\ Kind(fs[i + 1].node) \in {"seq", "map"}
      BY <1>3, <2>2
    <2>6. Value(fs[i + 1].node) = fs[i + 1].node
      BY <1>1, <2>5, ValueIs
    <2>7. json2yaml[i][fs[i + 1].node] = Around(Opens(fs[i + 1].node), Parts(i + 1, fs[i + 1].node))
      <3>1. PICK n \in Nodes : n = fs[i + 1].node
        BY <2>5
      <3>2. json2yaml[i][n] = Around(Opens(n), Parts(i + 1, n))
        BY <1>1, <2>5, <2>6, <3>1, JsonOf
      <3>3. QED
        BY <3>1, <3>2
    <2>8. json2yaml[i][child(i)] = Refused
      BY <1>4, <2>4, <2>7
    <2>9. QED
      BY <2>1, <2>2, <2>8
  <1>8. MaxDepth \in good
    <2> HIDE DEF good
    <2>1. MaxDepth \in 0 .. MaxDepth
      BY <1>1
    <2>2. QED
      BY <1>1, <1>6, <1>7, <2>1, Induction
  <1>9. json2yaml[1][child(1)] = Refused
    <2>1. MaxDepth + 1 - MaxDepth = 1
      BY <1>1
    <2>2. QED
      BY <1>8, <2>1
  <1> HIDE DEF good
  <1>10. 1 \in 1 .. MaxDepth + 1
    BY <1>1
  <1>11. Around(Opens(fs[1].node), Parts(1, fs[1].node)) = Refused
    BY <1>1, <1>3, <1>9, <1>10, RefusedAround
  <1>12. QED
    BY <1>1, <1>3, <1>10, <1>11, MarshalIs

-----------------------------------------------------------------------------
(* The steps, writing *)

\* What the walk of a mapping that is to be written knows of it.
Writes ==
  Honest /\ Unmarshals =>
    /\ err = "none" => Written(frames, visit)
    /\ err = "depth" /\ Straight => MarshalYAML(Target) = Refused

\* What a step of it does.
WritesOn ==
  /\ err' = "none" => Written(frames', visit')
  /\ err' = "depth" /\ Straight => MarshalYAML(Target) = Refused

LEMMA GoodReading ==
  ASSUME Good, Unmarshals
  PROVE  /\ Reading(frames, visit) /\ IsDocument(document)
         /\ visit # Nowhere => visit.depth = Len(frames) /\ visit.node \in Nodes
  BY GoodFacts DEF Good, Honest, Unmarshals, Reading

LEMMA NodeWrites ==
  ASSUME Good, Unmarshals, Written(frames, visit), Node
  PROVE  WritesOn
  <1> DEFINE n == visit.node
  <1>1. /\ visit # Nowhere /\ Reading(frames, visit) /\ IsDocument(document) /\ err = "none"
        /\ visit.depth = Len(frames) /\ n \in Nodes
    BY GoodReading DEF Node, Walking
  <1>2. /\ Framed(frames) /\ Len(frames) \in Nat /\ MaxDepth \in Nat /\ frames # <<>>
        /\ Len(frames) \in 1 .. Len(frames) /\ Suits(frames[Len(frames)]) /\ Leads(frames[Len(frames)], n)
    BY <1>1, ReadingFacts DEF Reading
  <1>3. CASE visit.depth > MaxDepth
    <2>1. err' = "depth"
      BY <1>3 DEF Node, Fail
    <2>2. Straight => MarshalYAML(Target) = Refused
      BY <1>1, <1>3, TooDeepRefused
    <2>3. QED
      BY <2>1, <2>2 DEF WritesOn
  <1>4. CASE ~(visit.depth > MaxDepth) /\ Broke
    <2>1. err' = "aliasing"
      BY <1>4 DEF Node, Fail
    <2>2. QED
      BY <2>1 DEF WritesOn
  <1>5. CASE ~(visit.depth > MaxDepth) /\ ~Broke
    <2>1. Len(frames) <= MaxDepth
      BY <1>1, <1>2, <1>5
    <2>2. ASSUME NEW routine, routine # "alias", NEW token, Push(n, routine, token)
          PROVE  WritesOn
      <3>1. Pushed(frames, frames', n, routine) /\ err' = "none"
        BY <1>1, <2>2 DEF Push, Pushed
      <3>2. Written(frames', visit')
        BY <1>1, <1>2, <2>1, <2>2, <3>1, WrittenPush
      <3>3. QED
        BY <3>1, <3>2 DEF WritesOn
    <2>3. CASE Kind(n) = "document"
      <3>1. Push(n, "list", "---")
        BY <1>5, <2>3, Zenon DEF Node
      <3>2. QED
        BY <2>2, <3>1
    <2>4. CASE Kind(n) = "seq"
      <3>1. Push(n, "list", "[")
        BY <1>5, <2>4, Zenon DEF Node
      <3>2. QED
        BY <2>2, <3>1
    <2>5. CASE Kind(n) = "map"
      <3>1. Push(n, "pairs", "{")
        BY <1>5, <2>5, Zenon DEF Node
      <3>2. QED
        BY <2>2, <3>1
    <2>6. CASE Kind(n) = "alias"
      <3>1. Alias(n)
        BY <1>5, <2>6, Zenon DEF Node
      <3>2. CASE Fail("cycle")
        BY <3>2 DEF Fail, WritesOn
      <3>3. CASE ~Fail("cycle")
        <4>1. /\ Pushed(frames, frames', n, "alias") /\ err' = "none"
              /\ visit' = [node |-> Anchor(n), depth |-> visit.depth + 1]
          BY <1>1, <3>1, <3>3 DEF Alias, Pushed
        <4>2. Anchor(n) \in Nodes /\ 0 \notin Nodes
          BY <1>1, <2>6, DocumentFacts
        <4>3. visit' # Nowhere
          BY <4>1, <4>2 DEF Nowhere
        <4>4. Written(frames', visit')
          BY <1>1, <1>2, <2>1, <4>1, <4>3, WrittenPush
        <4>5. QED
          BY <4>1, <4>4 DEF WritesOn
      <3>4. QED
        BY <3>2, <3>3
    <2>7. CASE Kind(n) \notin {"document", "seq", "map", "alias"}
      <3>1. Scalar(n)
        BY <1>5, <2>7, Zenon DEF Node
      <3>2. CASE Kind(n) # "scalar"
        BY <3>1, <3>2 DEF Scalar, Fail, WritesOn
      <3>3. CASE Kind(n) = "scalar"
        <4>1. frames' = frames /\ visit' = Nowhere /\ err' = "none"
          BY <1>1, <3>1, <3>3 DEF Scalar
        <4>2. Len(frames) \in 1 .. MaxDepth
          BY <1>2, <2>1
        <4>3. Agrees(Len(frames), n)
          BY <1>1, <3>3, <4>2, ScalarAgrees
        <4>4. Written(frames, Nowhere)
          BY <1>1, <1>2, <4>3, WrittenBack
        <4>5. QED
          BY <4>1, <4>4 DEF WritesOn
      <3>4. QED
        BY <3>2, <3>3
    <2>8. QED
      BY <2>3, <2>4, <2>5, <2>6, <2>7, Zenon
  <1>6. QED
    BY <1>3, <1>4, <1>5

\* A child that is read is visited.
LEMMA ChildVisited ==
  ASSUME Good, Idle, NEW step \in {1, 2}, Top.at + step <= Len(Content(Top.node)), Child(step)
  PROVE  Advanced(frames, frames', step) /\ visit' # Nowhere
  <1>1. /\ Top.node \in Nodes /\ Top.at \in Nat /\ Len(Content(Top.node)) \in Nat /\ IsDocument(document)
    BY IdleGood, GoodFacts
  <1>2. Top.at + step \in 1 .. Len(Content(Top.node))
    BY <1>1
  <1>3. visit'.node = Content(Top.node)[Top.at + step] /\ Advanced(frames, frames', step)
    BY DEF Child, Advanced
  <1>4. visit'.node \in Nodes /\ 0 \notin Nodes /\ Nowhere.node = 0
    BY <1>1, <1>2, <1>3, ContentFacts, DocumentFacts DEF Nowhere
  <1>5. QED
    BY <1>3, <1>4

LEMMA NextItemWrites ==
  ASSUME Good, Unmarshals, Written(frames, visit), NextItem
  PROVE  WritesOn
  <1>1. Idle /\ Top.routine = "list" /\ Top.at < Len(Content(Top.node)) /\ Child(1) /\ err' = err
    BY DEF NextItem
  <1>2. /\ visit = Nowhere /\ frames # <<>> /\ Top = frames[Len(frames)] /\ Suits(Top)
        /\ Top.at \in Nat /\ Len(Content(Top.node)) \in Nat
        /\ IsDocument(document) /\ Framed(frames)
    BY <1>1, IdleGood, GoodFacts
  <1>3. Top.at + 1 <= Len(Content(Top.node))
    BY <1>1, <1>2
  <1>4. Advanced(frames, frames', 1) /\ visit' # Nowhere
    BY <1>1, <1>3, ChildVisited
  <1>5. Written(frames', visit')
    BY <1>1, <1>2, <1>4, WrittenRead
  <1>6. QED
    BY <1>1, <1>5 DEF WritesOn, Good

LEMMA NextPairWrites ==
  ASSUME Good, Unmarshals, Written(frames, visit), NextPair
  PROVE  WritesOn
  <1> DEFINE c == Content(Top.node)
             key == c[Top.at + 1]
  <1>1. Idle /\ Top.routine = "pairs" /\ Top.at < Len(c)
    BY DEF NextPair
  <1>2. /\ visit = Nowhere /\ frames # <<>> /\ Top = frames[Len(frames)] /\ Suits(Top)
        /\ Top.at \in Nat /\ Len(c) \in Nat /\ IsDocument(document) /\ Framed(frames)
    BY <1>1, IdleGood, GoodFacts
  <1>3. CASE Fail("aliasing") \/ Fail("key") \/ Fail("panic")
    BY <1>3 DEF Fail, WritesOn
  <1>4. CASE ~Broke /\ Kind(key) = "scalar" /\ ~(Top.at + 2 > Len(c))
    <2>1. Child(2) /\ err' = err
      BY <1>4, Zenon DEF NextPair
    <2>2. Top.at + 2 <= Len(c)
      BY <1>2, <1>4
    <2>3. Advanced(frames, frames', 2) /\ visit' # Nowhere
      BY <1>1, <2>1, <2>2, ChildVisited
    <2>4. Kind(Top.node) = "map"
      BY <1>1, <1>2 DEF Suits
    <2>5. Written(frames', visit')
      BY <1>1, <1>2, <1>4, <2>3, <2>4, WrittenRead
    <2>6. QED
      BY <2>1, <2>5 DEF WritesOn, Good
  <1>5. QED
    BY <1>3, <1>4, Zenon DEF NextPair

LEMMA LeaveWrites ==
  ASSUME Good, Unmarshals, Written(frames, visit), Idle, frames' = Front(frames), visit' = visit, err' = err,
         Top.routine # "alias" => Top.at >= Len(Content(Top.node))
  PROVE  WritesOn
  <1>1. visit = Nowhere /\ frames # <<>> /\ Top = frames[Len(frames)] /\ Reading(frames, Nowhere)
    BY IdleGood, GoodReading
  <1>2. Written(frames', Nowhere)
    BY <1>1, WrittenPop
  <1>3. QED
    BY <1>1, <1>2 DEF WritesOn, Good

\* The document stays, and so does what is written of it.
LEMMA SameWritten ==
  ASSUME document' = document, entry' = entry
  PROVE  /\ Target' = Target /\ MarshalYAML(Target)' = MarshalYAML(Target)
         /\ Written(frames', visit') => Written(frames, visit)'
  <1>1. json2yaml' = json2yaml
    BY DEF json2yaml, Nodes, Kind, Content, Anchor, Value, TooDeep
  <1>2. Expansion' = Expansion
    BY SameExpansion
  <1>3. Target' = Target
    BY DEF Target, Content
  <1>4. ASSUME NEW d, NEW n PROVE Stands(d, n)' = Stands(d, n) /\ (Agrees(d, n)' <=> Agrees(d, n))
    <2>1. Stands(d, n)' = Stands(d, n)
      BY <1>2 DEF Stands
    <2>2. QED
      BY <1>1, <2>1 DEF Agrees
  <1>5. ASSUME NEW n PROVE Kind(n)' = Kind(n) /\ Content(n)' = Content(n) /\ Anchor(n)' = Anchor(n)
    BY DEF Kind, Content, Anchor
  <1>6. ASSUME NEW d, NEW n, NEW c PROVE Handed(d, n, c)' <=> Handed(d, n, c)
    BY <1>4, <1>5 DEF Handed
  <1>7. MarshalYAML(Target)' = MarshalYAML(Target)
    <2>1. document'.content = document.content
      OBVIOUS
    <2>2. QED
      BY <1>1, <1>3, <2>1 DEF MarshalYAML, Content
  <1>8. Stands(0, Target)' = Stands(0, Target)
    BY <1>2, <1>3 DEF Stands
  <1>9. ASSUME Written(frames', visit') PROVE Written(frames, visit)'
    BY <1>4, <1>5, <1>6, <1>7, <1>8, <1>9 DEF Written, Behind, Nowhere
  <1>10. QED
    BY <1>3, <1>7, <1>9

LEMMA WritesMoves ==
  ASSUME Given, WalkInv, Reads, Writes, Honest, Unmarshals, err = "none",
         Node \/ NextItem \/ NextPair \/ Leave \/ LeaveAlias
  PROVE  WritesOn
  <1>1. Good /\ Written(frames, visit)
    BY DocumentsAssumption DEF Good, Given, Reads, Writes
  <1>2. CASE Node
    BY <1>1, <1>2, NodeWrites
  <1>3. CASE NextItem
    BY <1>1, <1>3, NextItemWrites
  <1>4. CASE NextPair
    BY <1>1, <1>4, NextPairWrites
  <1>5. CASE Leave \/ LeaveAlias
    <2>1. /\ Idle /\ frames' = Front(frames) /\ visit' = visit /\ err' = err
          /\ Top.routine # "alias" => Top.at >= Len(Content(Top.node))
      BY <1>5 DEF Leave, LeaveAlias
    <2>2. QED
      BY <1>1, <2>1, LeaveWrites
  <1>6. QED
    BY <1>2, <1>3, <1>4, <1>5

LEMMA WritesStep ==
  ASSUME Given, WalkInv, Reads, Writes, [Next]_vars
  PROVE  Writes'
  <1>1. document' = document /\ entry' = entry
    BY DEF Next, Node, NextItem, NextPair, Leave, LeaveAlias, Unwind, input, vars
  <1>2. (Honest' <=> Honest) /\ (Unmarshals' <=> Unmarshals) /\ (Straight' <=> Straight)
    BY <1>1 DEF Honest, Unmarshals, Straight, Target, Kind, Content, Nodes
  <1> SUFFICES ASSUME Honest, Unmarshals PROVE Writes'
    BY <1>2 DEF Writes
  <1>3. WritesOn
    <2>1. CASE UNCHANGED vars
      BY <2>1 DEF vars, Writes, WritesOn
    <2>2. CASE Unwind
      BY <2>2 DEF Unwind, Writes, WritesOn
    <2>3. CASE Node \/ NextItem \/ NextPair \/ Leave \/ LeaveAlias
      <3>1. err = "none"
        BY <2>3 DEF Node, NextItem, NextPair, Leave, LeaveAlias, Walking, Idle
      <3>2. QED
        BY <2>3, <3>1, WritesMoves
    <2>4. QED
      BY <2>1, <2>2, <2>3 DEF Next
  <1>4. QED
    BY <1>1, <1>2, <1>3, SameWritten DEF Writes, WritesOn

LEMMA WritesStart ==
  ASSUME Init
  PROVE  Writes
  <1>1. err = "none"
    BY DEF Init, YAMLToJSON, UnmarshalYAML, Start
  <1> SUFFICES ASSUME Unmarshals PROVE Written(frames, visit)
    BY <1>1 DEF Writes
  <1>2. UnmarshalYAML
    BY DEF Init, YAMLToJSON, Unmarshals
  <1> DEFINE f == Frame(Content(document.root)[1], "pairs", 0)
  <1>3. frames = <<f>> /\ f.at = 0 /\ f.routine = "pairs"
    BY <1>2 DEF UnmarshalYAML, Frame
  <1> HIDE DEF f
  <1>4. Len(frames) = 1 /\ frames[1] = f /\ frames # <<>>
    BY <1>3
  <1>5. \A i \in 1 .. Len(frames) : frames[i].at = 0 /\ frames[i].routine = "pairs"
    BY <1>3, <1>4
  <1>6. QED
    BY <1>4, <1>5 DEF Written

-----------------------------------------------------------------------------
(* The theorems *)

\* What a walk keeps, in every behaviour.
THEOREM WalkInvariant == Spec => [](WalkInv /\ Stopped)
  <1>1. Init => WalkInv /\ Stopped
    BY WalkStart
  <1>2. WalkInv /\ Stopped /\ [Next]_vars => (WalkInv /\ Stopped)'
    BY WalkStep, StoppedStep
  <1>3. QED
    BY <1>1, <1>2, PTL DEF Spec

\* The walker knows the anchors it is expanding and how many they are, at every
\* step of the walk of any document, cycles and errors included.
THEOREM ExpansionsBalancedProved == Spec => []ExpansionsBalanced
  <1>1. ASSUME WalkInv PROVE ExpansionsBalanced
    <2>1. Framed(frames) /\ Balanced(frames, aliasDepth, aliases)
      BY <1>1 DEF WalkInv, StackInv
    <2>2. DOMAIN frames = 1 .. Len(frames)
      BY <2>1, LenProperties DEF Framed
    <2> DEFINE open == {i \in DOMAIN frames : frames[i].routine = "alias"}
    <2>3. open = Opened(frames)
      BY <2>2 DEF Opened
    <2> HIDE DEF open
    <2>4. /\ aliasDepth = Cardinality(open) /\ aliases = {Anchor(frames[i].node) : i \in open}
          /\ \A i, j \in open : Anchor(frames[i].node) = Anchor(frames[j].node) => i = j
      BY <2>1, <2>3 DEF Balanced
    <2>5. IsFiniteSet(open)
      BY <2>1, <2>3, OpenedFinite
    <2> DEFINE f == [i \in open |-> Anchor(frames[i].node)]
    <2>6. f \in Surjection(open, aliases) /\ f \in Injection(open, aliases)
      BY <2>4 DEF Surjection, Injection, IsInjective
    <2>7. f \in Bijection(open, aliases)
      BY <2>6, Zenon DEF Bijection
    <2>8. ExistsBijection(open, aliases)
      BY <2>7, Zenon DEF ExistsBijection
    <2>9. Cardinality(aliases) = Cardinality(open)
      BY <2>5, <2>8, FS_Bijection
    <2>10. QED
      BY <2>4, <2>9 DEF ExpansionsBalanced, open
  <1>2. QED
    BY <1>1, WalkInvariant, PTL

\* However a document nests and whatever its aliases stand for, the recursion of
\* the walker is bounded: no more than MaxDepth + 1 of its routines are active.
THEOREM RecursionBounded == Spec => [](Len(frames) <= MaxDepth + 1)
  <1>1. WalkInv => Len(frames) <= MaxDepth + 1
    BY DEF WalkInv, StackInv, Framed
  <1>2. QED
    BY <1>1, WalkInvariant, PTL

\* A document that is read is what it stands for, and one that contains itself is
\* refused, with the receiver's items as they were or all of them read.
THEOREM ExpandsOrRefusesProved == Spec => []ExpandsOrRefuses
  <1>1. Init => Given /\ Reads
    BY ReadsStart
  <1>2. Given /\ Reads /\ WalkInv /\ WalkInv' /\ [Next]_vars => (Given /\ Reads)'
    <2>1. ASSUME Given, [Next]_vars PROVE Given'
      BY <2>1 DEF Given, Next, Node, NextItem, NextPair, Leave, LeaveAlias, Unwind, input, vars
    <2>2. QED
      BY <2>1, ReadsStep
  <1>3. ASSUME Given, Reads PROVE ExpandsOrRefuses
    <2> SUFFICES ASSUME Done, Honest
                 PROVE  /\ err = "none" => ~Cyclic /\ out = Expansion[MaxDepth + 1][Target]
                        /\ err = "cycle" => Cyclic
                        /\ err # "panic"
                        /\ entry = "UnmarshalYAML" =>
                             IF err = "none"
                             THEN DOMAIN receiver.items = 1 .. Pairs /\ 0 \notin ToSet(receiver.items)
                             ELSE \A i \in DOMAIN receiver.items :
                                    receiver.items[i] # 0 => InPlace /\ i < Pairs
      BY DEF ExpandsOrRefuses, Honest
    <2>1. IsDocument(document)
      BY <1>3, DocumentsAssumption DEF Given
    <2>2. frames = <<>> /\ visit = Nowhere
      BY DEF Done
    <2>3. err = "none" => ~Cyclic /\ out = Expansion[MaxDepth + 1][Target]
      BY <1>3, <2>1, <2>2, NoCycle DEF Reads
    <2>4. (err = "cycle" => Cyclic) /\ err # "panic" /\ ReceivedIs(receiver, frames, visit, err)
      BY <1>3 DEF Reads
    <2>5. ASSUME entry = "UnmarshalYAML", err = "none"
          PROVE  DOMAIN receiver.items = 1 .. Pairs /\ 0 \notin ToSet(receiver.items)
      <3>1. receiver.items = [i \in 1 .. Pairs |-> i]
        BY <2>2, <2>4, <2>5 DEF ReceivedIs, Unmarshals
      <3>2. DOMAIN receiver.items = 1 .. Pairs /\ \A i \in 1 .. Pairs : receiver.items[i] # 0
        BY <3>1
      <3>3. QED
        BY <3>2 DEF ToSet
    <2>6. ASSUME entry = "UnmarshalYAML", err # "none", NEW i \in DOMAIN receiver.items, receiver.items[i] # 0
          PROVE  InPlace /\ i < Pairs
      BY <2>4, <2>6 DEF ReceivedIs, Unmarshals, InPlace
    <2>7. QED
      BY <2>3, <2>4, <2>5, <2>6
  <1>4. QED
    BY <1>1, <1>2, <1>3, WalkInvariant, PTL DEF Spec

\* However aliases multiply, a walk does no more than a fixed multiple of the
\* document's size, past the thresholds.
THEOREM WorkBoundedProved == Spec => []WorkBounded
  <1>1. Init => Given /\ Counting
    BY CountingStart DEF Init, YAMLToJSON, UnmarshalYAML, Start, Given
  <1>2. Given /\ Counting /\ WalkInv /\ [Next]_vars => (Given /\ Counting)'
    <2>1. ASSUME Given, [Next]_vars PROVE Given'
      BY <2>1 DEF Given, Next, Node, NextItem, NextPair, Leave, LeaveAlias, Unwind, input, vars
    <2>2. QED
      BY <2>1, CountingStep
  <1>3. ASSUME Given, Counting PROVE WorkBounded
    <2>1. IsDocument(document)
      BY <1>3, DocumentsAssumption DEF Given
    <2>2. PICK n, a : Fair(n, a) /\ decodeCount \in {n, n + 1}
      BY <1>3, <2>1, CountedFair DEF Counting, Spent
    <2>3. n <= DecodeThreshold \/ n <= Size + AliasThreshold \/ n * (100 - RatioSmall) <= Size * 100
      BY <2>1, <2>2, FairBounds
    <2>4. n \in Nat /\ Size \in Nat /\ AliasThreshold \in Nat /\ DecodeThreshold \in Nat
      BY <2>1, <2>2, PlacesFacts, YAMLWalkerAssumption DEF Fair, Size
    <2>5. CASE n * (100 - RatioSmall) <= Size * 100
      <3> DEFINE m == decodeCount - 1
                 rest == 100 - RatioSmall
      <3>1. rest \in Nat /\ m \in Int /\ m <= n
        BY <2>2, <2>4, YAMLWalkerAssumption
      <3> HIDE DEF rest, m
      <3>2. rest * m <= rest * n
        BY <2>4, <3>1
      <3>3. rest * m = m * rest /\ rest * n = n * rest /\ m * rest \in Int /\ n * rest \in Int
        BY <2>4, <3>1
      <3>4. n * rest <= Size * 100
        BY <2>5 DEF rest
      <3>5. m * rest <= Size * 100
        BY <2>4, <3>2, <3>3, <3>4
      <3>6. QED
        BY <3>5 DEF WorkBounded, m, rest
    <2>6. CASE n <= DecodeThreshold
      BY <2>2, <2>4, <2>6 DEF WorkBounded
    <2>7. CASE n <= Size + AliasThreshold
      BY <2>2, <2>4, <2>7 DEF WorkBounded
    <2>8. QED
      BY <2>3, <2>5, <2>6, <2>7
  <1>4. QED
    BY <1>1, <1>2, <1>3, WalkInvariant, PTL DEF Spec

\* A mapping that is read is written back as what it stands for, and one without
\* aliases that is too deep to be read is too deep to be written.
THEOREM WritesWhatItWalkedProved == Spec => []WritesWhatItWalked
  <1>1. Init => Given /\ Reads /\ Writes
    BY ReadsStart, WritesStart
  <1>2. Given /\ Reads /\ Writes /\ WalkInv /\ WalkInv' /\ [Next]_vars => (Given /\ Reads /\ Writes)'
    <2>1. ASSUME Given, [Next]_vars PROVE Given'
      BY <2>1 DEF Given, Next, Node, NextItem, NextPair, Leave, LeaveAlias, Unwind, input, vars
    <2>2. QED
      BY <2>1, ReadsStep, WritesStep
  <1>3. ASSUME Given, Reads, Writes PROVE WritesWhatItWalked
    <2> SUFFICES ASSUME Done, Unmarshals, Honest
                 PROVE  /\ err = "none" => MarshalYAML(Target) = out
                        /\ err = "depth" /\ Straight => MarshalYAML(Target) = Refused
      BY DEF WritesWhatItWalked, Unmarshals, Honest, Straight
    <2>1. frames = <<>> /\ visit = Nowhere /\ IsDocument(document)
      BY <1>3, DocumentsAssumption DEF Done, Given
    <2>2. ASSUME err = "none" PROVE MarshalYAML(Target) = out
      <3>1. out = Expansion[MaxDepth + 1][Target]
        BY <1>3, <2>1, <2>2, NoCycle DEF Reads
      <3>2. MarshalYAML(Target) = Expansion[MaxDepth + 1 - 0][Target]
        BY <1>3, <2>1, <2>2 DEF Writes, Written, Stands
      <3>3. MaxDepth + 1 - 0 = MaxDepth + 1
        BY YAMLWalkerAssumption
      <3>4. QED
        BY <3>1, <3>2, <3>3
    <2>3. QED
      BY <1>3, <2>2 DEF Writes
  <1>4. QED
    BY <1>1, <1>2, <1>3, WalkInvariant, PTL DEF Spec

=============================================================================
