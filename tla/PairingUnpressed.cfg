CONSTANTS
  None = None
  Tokens = {1, 2}
  Old = Old
  Good = Good
  Bad = Bad
  Attempts = 2
  MaxEvents = 0
SPECIFICATION ConsentSpec
PROPERTIES NoPressNoClaim
CHECK_DEADLOCK FALSE
