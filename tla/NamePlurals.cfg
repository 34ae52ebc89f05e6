SPECIFICATION SSpec
CONSTANTS
  Caps <- MCCaps
  Caseless <- MCCaseless
  Digits <- MCDigits
  Blanks <- MCBlanks
  Ess = "s"
  Commons <- MCDefaults
  Names <- MCPlurals
  Replace <- MCReplace
  Additions = {}
  Wide <- MCWide
  Prefix <- MCPrefix
INVARIANT PluralsDetected
