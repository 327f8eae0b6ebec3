CONSTANTS
  None = None
  Tokens = {1, 2}
  Old = Old
  Good = Good
  Bad = Bad
  Attempts = 2
  MaxEvents = 1
SPECIFICATION FairSpec
INVARIANTS TypeOK TokenLast
PROPERTIES SuccessIsStored PairingEnds
CHECK_DEADLOCK FALSE
