------------------------------- MODULE Splitter -------------------------------
(***************************************************************************)
(* The splitter: a name goes in, a list of lexems comes out, each an       *)
(* initialism or a casual word.  Candidate matches are advanced together,  *)
(* rune by rune (gatherInitialismMatches); then the ones that are complete *)
(* and do not overlap are taken from the left, and what lies between them  *)
(* is broken down into words (mapMatchesToNameLexems).                     *)
(***************************************************************************)
EXTENDS Initialisms

CONSTANTS
  Names,      \* the names to split
  Replace,    \* Replace[r]: the word that stands for a symbol, with its blank
  Additions   \* what a client may add to the initialisms

VARIABLES
  phase,      \* "idle" | "scan" | "map" | "split"
  post,       \* is it the splitter with the check after the split?
  name,
  pos,        \* the last rune seen
  matches,    \* matches still alive or complete, in order of their starts
  lexems

call == <<phase, post, name, pos, matches, lexems>>
svars == <<index, cache, call>>

\* findMatches: the initialisms that start with the rune and fit the name.
Started(rune, at) ==
  LET fits(entry) == Head(entry.body) = rune /\ at + Len(entry.body) - 1 <= Len(name)
      found == SelectSeq(cache, fits)
  IN [i \in DOMAIN found |->
        [body |-> found[i].body, plural |-> found[i].plural,
         start |-> at, end |-> 0, complete |-> FALSE]]

NewWordAt(i) == i <= Len(name) /\ IsLower(name[i])

\* One match of the inner loop.  The loop carries its position along, and a
\* plural moves it for the matches that come after.
Advance(acc, m) ==
  LET at == acc.pos - m.start + 1
      keep(k) == [acc EXCEPT !.kept = Append(@, k)]
  IN
  CASE m.complete -> keep(m)
    [] ~m.complete /\ at = Len(m.body) + 1 -> acc
    [] ~m.complete /\ at # Len(m.body) + 1 ->
       IF m.body[at] # name[acc.seen] THEN acc
       ELSE IF at < Len(m.body) THEN keep(m)
       ELSE IF acc.pos < Len(name) /\ name[acc.pos + 1] = Ess /\ m.plural = "simple"
       THEN IF NewWordAt(acc.pos + 2) THEN acc
            ELSE [keep([m EXCEPT !.complete = TRUE, !.end = acc.pos + 1,
                                 !.body = Append(@, Ess)])
                    EXCEPT !.pos = @ + 1]
       ELSE IF NewWordAt(acc.pos + 1) THEN acc
       ELSE keep([m EXCEPT !.complete = TRUE, !.end = acc.pos])

\* Replaced words, trimmed as they are made lexems.
Casual(original) == [initialism |-> FALSE, original |-> Trim(original), matched |-> <<>>]
Known(original, matched) == [initialism |-> TRUE, original |-> original, matched |-> matched]

\* isEqualFoldIgnoreSpace
EqualFold(word, original) == Upper(word) = Upper(Trim(original))

\* addNameLexem: with the check after the split, a word that is an initialism
\* in another case is one.
LexemOf(original) ==
  LET same == {i \in DOMAIN cache : EqualFold(cache[i].body, original)} IN
  IF post /\ same # {} THEN Known(original, cache[Min(same)].body) ELSE Casual(original)

Flush(acc) == IF acc.word = <<>> THEN acc
              ELSE [word |-> <<>>, out |-> Append(acc.out, LexemOf(acc.word))]

IsWordRune(r) == IsLetter(r) \/ r \in Digits

\* One rune of appendBrokenDownCasualString.
BreakRune(acc, r) ==
  CASE r \in DOMAIN Replace ->
         IF Replace[r] = <<>> THEN Flush(acc)
         ELSE [Flush(acc) EXCEPT !.out = Append(@, LexemOf(Replace[r]))]
    [] r \notin DOMAIN Replace /\ ~IsWordRune(r) -> Flush(acc)
    [] r \notin DOMAIN Replace /\ IsUpper(r) -> [Flush(acc) EXCEPT !.word = <<r>>]
    [] OTHER -> [acc EXCEPT !.word = Append(@, r)]

BrokenDown(str) == Flush(FoldLeft(BreakRune, [word |-> <<>>, out |-> <<>>], str)).out

\* A match may start where the last one ends.
TakeTouching(acc, m) ==
  IF ~m.complete \/ m.start < acc.end THEN acc
  ELSE [end |-> m.end,
        out |-> acc.out \o BrokenDown(SubSeq(name, acc.end + 1, m.start - 1))
                        \o <<Known(m.body, m.body)>>]

\* One match of mapMatchesToNameLexems: acc.end is where the last one taken
\* ends, 0 when there is none.
Take(acc, m) ==
  IF ~m.complete \/ m.start <= acc.end THEN acc
  ELSE [end |-> m.end,
        out |-> acc.out \o BrokenDown(SubSeq(name, acc.end + 1, m.start - 1))
                        \o <<Known(m.body, m.body)>>]

\* Without its first rune.
RestShort(acc) == SubSeq(name, acc.end + 2, Len(name))

\* What follows the last match taken.
Rest(acc) == SubSeq(name, acc.end + 1, Len(name))

-----------------------------------------------------------------------------
SInit ==
  /\ IndexInit
  /\ phase = "idle" /\ post = FALSE
  /\ name = <<>> /\ pos = 0 /\ matches = <<>> /\ lexems = <<>>

AddInitialisms(words) == phase = "idle" /\ AddWords(words) /\ UNCHANGED call

\* split: a name of one rune or none has no initialism.
Split(n, check) ==
  /\ phase = "idle"
  /\ name' = n /\ post' = check
  /\ phase' = IF Len(n) < 2 THEN "map" ELSE "scan"
  /\ UNCHANGED <<index, cache, pos, matches, lexems>>

\* gatherInitialismMatches, one rune.
ScanRune ==
  /\ phase = "scan"
  /\ pos' = pos + 1
  /\ LET acc == FoldLeft(Advance, [pos |-> pos', seen |-> pos', kept |-> <<>>], matches)
     IN matches' = acc.kept \o Started(name[pos'], acc.pos)
  /\ phase' = IF pos' = Len(name) THEN "map" ELSE "scan"
  /\ UNCHANGED <<index, cache, post, name, lexems>>

\* mapMatchesToNameLexems; the matches go back to their pool.
MapMatches ==
  /\ phase = "map"
  /\ LET taken == FoldLeft(Take, [end |-> 0, out |-> <<>>], matches)
     IN lexems' = taken.out \o BrokenDown(Rest(taken))
  /\ matches' = <<>> /\ phase' = "split"
  /\ UNCHANGED <<index, cache, post, name, pos>>

\* The lexems go back to their pool: the next call starts from empty slices.
Return ==
  /\ phase = "split"
  /\ phase' = "idle" /\ post' = FALSE
  /\ name' = <<>> /\ pos' = 0 /\ lexems' = <<>>
  /\ UNCHANGED <<index, cache, matches>>

SNext ==
  \/ \E words \in Additions : AddInitialisms(words)
  \/ \E n \in Names, check \in BOOLEAN : Split(n, check)
  \/ ScanRune \/ MapMatches \/ Return

SSpec == SInit /\ [][SNext]_svars

-----------------------------------------------------------------------------
(* The initialisms of a name, by definition *)

\* Where the initialism w ends if it stands at i: its plural with it, and not
\* when it is the beginning of a word.  0 when it does not stand there.
EndAt(w, i) ==
  LET e == i + Len(w) - 1
      plural == e < Len(name) /\ name[e + 1] = Ess /\ PluralForm(w, index) = "simple"
  IN
  IF Len(w) < 2 \/ e > Len(name) \/ SubSeq(name, i, e) # w THEN 0
  ELSE IF plural THEN IF NewWordAt(e + 2) THEN 0 ELSE e + 1
  ELSE IF NewWordAt(e + 1) THEN 0 ELSE e

StandAt(i) == {w \in index : EndAt(w, i) # 0}

\* The longest that stands at i.
LongestAt(i) == CHOOSE w \in StandAt(i) : \A v \in StandAt(i) : Len(v) <= Len(w)

\* From the left, the longest first: spans[i], the ends of the initialisms
\* found from i on.
Leftmost[i \in 1 .. Len(name) + 1] ==
  IF i > Len(name) THEN <<>>
  ELSE IF StandAt(i) = {} THEN Leftmost[i + 1]
  ELSE LET e == EndAt(LongestAt(i), i) IN <<SubSeq(name, i, e)>> \o Leftmost[e + 1]

=============================================================================
