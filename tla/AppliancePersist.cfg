SPECIFICATION Spec
CONSTANTS
  HoldArm = 1
  HoldPair = 2
  HoldReset = 3
  ClickWindow = 1
  ClickCount = 3
  None = None
  PairingTimeout = 2
  ConfirmTimeout = 1
  CountdownTime = 1
  c1 = c1
  c2 = c2
  Creds <- MCCreds
  HouseholdOf <- TwoHouseholds
  MaxShots = 1
  MaxInbox = 1
INVARIANT PersistedWasConfirmed
