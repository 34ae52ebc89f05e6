SPECIFICATION SSpec
CONSTANTS
  Caps <- MCCaps
  Caseless <- MCCaseless
  Digits <- MCDigits
  Blanks <- MCBlanks
  Ess = "s"
  Commons <- MCCommons
  Names <- MCNames
  Replace <- MCReplace
  Additions <- MCAdditions
  Wide <- MCWide
  Prefix <- MCPrefix
INVARIANT InitialismsFromTheLeft
INVARIANT LettersKept
INVARIANT GoNameExported
