----------------------------- MODULE NameMangler -----------------------------
(***************************************************************************)
(* What a NameMangler makes of the lexems of a name: Go identifiers, file  *)
(* and command names, JSON names, human names.                             *)
(***************************************************************************)
EXTENDS Splitter

CONSTANTS
  Wide,     \* the runes of more than one byte
  Prefix    \* what WithGoNamePrefixFunc puts before a name that needs it

\* How a lexem whose first rune has no case is refused.
Refused == <<"refused">>

\* A word of one ASCII byte: left as it is unless it comes first.
Short(word) == Len(word) = 1 /\ Head(word) \notin Wide

Capital(word) == <<ToUpper(Head(word))>> \o Tail(word)
Uncapital(word) == <<ToLower(Head(word))>> \o Tail(word)

\* WriteTitleized
Titleized(l, alwaysUpper) ==
  LET word == l.original IN
  IF l.initialism THEN l.matched
  ELSE IF word = <<>> THEN <<>>
  ELSE LET up == ToUpper(Head(word)) IN
    IF ~IsUpper(up) \/ (Short(word) /\ ~alwaysUpper /\ Head(word) # up) THEN Refused
    ELSE IF Head(word) \in Wide THEN <<up>> \o Lower(Tail(word))
    ELSE Capital(word)

\* WriteLower
Lowered(l, alwaysLower) ==
  LET word == l.original IN
  IF l.initialism THEN Lower(Trim(l.matched))
  ELSE IF word = <<>> THEN <<>>
  ELSE LET low == ToLower(Head(word)) IN
    IF ~IsLower(low) \/ (Short(word) /\ ~alwaysLower /\ Head(word) # low) THEN Refused
    ELSE Uncapital(word)

\* The lexems after the first.
RestOfIdentifier(ls) ==
  FlattenSeq([i \in 1 .. Len(ls) - 1 |->
                LET t == Titleized(ls[i + 1], FALSE) IN
                IF t = Refused THEN ls[i + 1].original ELSE t])

\* The first lexem goes out as it is.
IdentifierUnprefixed(ls, exported) ==
  IF ls = <<>> THEN <<>> ELSE Head(ls).original \o RestOfIdentifier(ls)

\* goIdentifier
goIdentifier(ls, exported) ==
  IF ls = <<>> THEN <<>>
  ELSE LET first == IF exported THEN Titleized(Head(ls), TRUE) ELSE Lowered(Head(ls), TRUE)
           prefix == IF exported THEN Prefix ELSE Lower(Prefix)
       IN (IF first = Refused THEN prefix \o Head(ls).original ELSE first)
            \o RestOfIdentifier(ls)

ToGoName(ls) == goIdentifier(ls, TRUE)
ToVarName(ls) == goIdentifier(ls, FALSE)

Camelize(word) == IF word = <<>> THEN <<>>
                  ELSE <<ToUpper(Head(word))>> \o Lower(Tail(word))

\* The words of a file or command name, apart from what separates them.
ToFileWords(ls) == [i \in DOMAIN ls |-> Lower(Trim(ls[i].original))]

ToJSONName(ls) ==
  FlattenSeq([i \in DOMAIN ls |-> IF i = 1 THEN Lower(Trim(ls[i].original))
                                  ELSE Camelize(Trim(ls[i].original))])

ToHumanWordsLower(ls) ==
  [i \in DOMAIN ls |-> IF ls[i].initialism THEN Trim(ls[i].original)
                       ELSE Lower(ls[i].original)]

ToHumanWordsTitle(ls) ==
  [i \in DOMAIN ls |-> IF ls[i].initialism THEN Trim(ls[i].original)
                       ELSE Camelize(Trim(ls[i].original))]

-----------------------------------------------------------------------------
Initials(ls) == LET is(l) == l.initialism IN SelectSeq(ls, is)

Originals(ls) == [i \in DOMAIN ls |-> ls[i].original]

\* An initialism begins inside of another one that has its plural, and goes as
\* far as its last letter.
PluralEndsTwo ==
  \E i, j \in DOMAIN name :
    /\ i < j
    /\ \E v \in StandAt(i), w \in index :
         /\ EndAt(v, i) = i + Len(v) /\ j < i + Len(v)
         /\ i + Len(v) <= j + Len(w) /\ j + Len(w) - 1 <= Len(name)
         /\ SubSeq(name, j, j + Len(w) - 1) = w

\* The plural of one initialism of the name ends where another would, but for
\* the letter before its last, which the name does not have.
PluralSkipsLetter ==
  \E i, j \in DOMAIN name :
    /\ i < j
    /\ \E v \in StandAt(i), w \in index :
         /\ i + Len(v) = j + Len(w) - 1 /\ EndAt(v, i) = i + Len(v)
         /\ RemoveAt(w, Len(w) - 1) = SubSeq(name, j, i + Len(v) - 1)

\* The initialisms found are the longest from the left, plurals with them,
\* whatever the order in which the index was filled, when no plural moves the
\* scan of another.
InitialismsFromTheLeft ==
  phase = "split" /\ ~post /\ ~PluralEndsTwo /\ ~PluralSkipsLetter =>
    Originals(Initials(lexems)) = Leftmost[1]

\* "The NameMangler automatically detects simple plurals"
PluralsDetected ==
  phase = "split" /\ ~post => Originals(Initials(lexems)) = Leftmost[1]

\* The letters of a name, symbols spelt, in one case.
Letters ==
  FlattenSeq([i \in DOMAIN name |->
    CASE name[i] \in DOMAIN Replace -> Upper(Trim(Replace[name[i]]))
      [] name[i] \notin DOMAIN Replace /\ IsWordRune(name[i]) -> <<ToUpper(name[i])>>
      [] OTHER -> <<>>])

SameLetters(made) == Upper(made) \in {Letters, Upper(Prefix) \o Letters}

\* Whatever is made of a name has the letters of the name, all and in their
\* order, unless a plural made the scan skip one.
LettersKept ==
  phase = "split" /\ ~PluralSkipsLetter =>
    IF post
    THEN /\ SameLetters(ToGoName(lexems)) /\ SameLetters(ToVarName(lexems))
         /\ Upper(FlattenSeq(ToHumanWordsLower(lexems))) = Letters
         /\ Upper(FlattenSeq(ToHumanWordsTitle(lexems))) = Letters
    ELSE /\ Upper(FlattenSeq(ToFileWords(lexems))) = Letters
         /\ Upper(ToJSONName(lexems)) = Letters

\* "ToGoName abides by the go exported symbol rule": when the initialisms start
\* with an upper case, so does every name that has a letter, whose unexported
\* form does not.
GoNameExported ==
  phase = "split" /\ post /\ (\A w \in index : IsUpper(Head(w))) =>
    LET made == ToGoName(lexems) IN
    /\ made = <<>> <=> Letters = <<>>
    /\ made # <<>> => IsUpper(Head(made)) /\ ~IsUpper(Head(ToVarName(lexems)))

=============================================================================
