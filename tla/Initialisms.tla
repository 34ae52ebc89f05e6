----------------------------- MODULE Initialisms -----------------------------
(***************************************************************************)
(* The index of initialisms of a NameMangler: a set of words, and the      *)
(* cache in which the splitter looks them up, longest first, with the      *)
(* plural form of each.  A word is a sequence of runes; what a rune is to  *)
(* package unicode is given by the constants.                              *)
(***************************************************************************)
EXTENDS Naturals, SequencesExt

CONSTANTS
  Caps,      \* Caps[r]: the upper case of r, for a lower-case letter r
  Caseless,  \* letters of no case, East Asian ones say
  Digits,    \* other runes of a word: numbers, marks, connectors
  Blanks,
  Ess,       \* 's'
  Commons    \* the lists of initialisms a mangler is built with

VARIABLES
  index,     \* the set of initialisms
  cache      \* the same, as the splitter wants them

ASSUME InitialismsAssumption == Ess \in DOMAIN Caps

ToUpper(r) == IF r \in DOMAIN Caps THEN Caps[r] ELSE r
ToLower(r) == IF \E l \in DOMAIN Caps : Caps[l] = r
              THEN CHOOSE l \in DOMAIN Caps : Caps[l] = r ELSE r
IsLower(r) == r \in DOMAIN Caps
IsUpper(r) == r \in Range(Caps) \ DOMAIN Caps
IsLetter(r) == IsLower(r) \/ IsUpper(r) \/ r \in Caseless

Upper(word) == [i \in DOMAIN word |-> ToUpper(word[i])]
Lower(word) == [i \in DOMAIN word |-> ToLower(word[i])]

\* strings.TrimSpace
Trim(word) ==
  LET solid == {i \in DOMAIN word : word[i] \notin Blanks} IN
  IF solid = {} THEN <<>> ELSE SubSeq(word, Min(solid), Max(solid))

\* What add makes of the words it is given: trimmed, those that start with a
\* letter only, those of no upper case capitalized.
Sanitized(words) ==
  LET kept == {w \in {Trim(word) : word \in words} : w # <<>> /\ IsLetter(Head(w))}
  IN {IF w = Lower(w) THEN Upper(w) ELSE w : w \in kept}

\* The plural of an initialism takes an 's', unless it is one of its own or
\* ends with one.
PluralForm(key, known) ==
  IF \/ ToUpper(Last(key)) = Caps[Ess]
     \/ Append(key, Ess) \in known
     \/ Append(key, Caps[Ess]) \in known
  THEN "invariant" ELSE "simple"

\* byInitialism, reversed: the longest first.  (Words of one length are never
\* matched at one place, and their order is left open.)
Sorted(words) == SetToSortSeq(words, LAMBDA v, w : Len(v) > Len(w))

Built(words) ==
  LET sorted == Sorted(words) IN
  [i \in DOMAIN sorted |->
     [body |-> sorted[i], plural |-> PluralForm(sorted[i], words)]]

-----------------------------------------------------------------------------
\* NewNameMangler
IndexInit ==
  \E words \in Commons : index = Sanitized(words) /\ cache = Built(Sanitized(words))

\* AddInitialisms: the index grows and the whole cache is built again.
AddWords(words) ==
  /\ index' = index \cup Sanitized(words)
  /\ cache' = Built(index')

=============================================================================
