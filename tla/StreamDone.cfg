SPECIFICATION Spec
CONSTANTS
  Chars <- MCChars
  Fields <- MCFields
  Initial <- MCInitial
  Scripts <- MCScripts
  MaxTurns = 2
  MaxRounds = 2
  MaxDrops = 1
CHECK_DEADLOCK FALSE
INVARIANT DoneCarriesInput
