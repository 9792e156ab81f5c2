SPECIFICATION Spec
CONSTANTS
  MaxPattern = 4
  MaxLine = 5
  Patterns <- MCPatterns
  Lines <- MCLines
INVARIANT MatcherIsLanguage
INVARIANT PrefilterIsSound
CHECK_DEADLOCK FALSE
