SPECIFICATION Spec
CONSTANTS
  HoldArm = 1
  HoldPair = 2
  HoldReset = 3
  ClickWindow = 1
  ClickCount = 2
  None = None
  PairingTimeout = 1
  ConfirmTimeout = 1
  CountdownTime = 1
  c1 = c1
  c2 = c2
  Creds <- MCCreds
  HouseholdOf <- OneHousehold
  MaxShots = 1
  MaxInbox = 1
INVARIANTS TypeOK NeverStranded ArmedTogether
PROPERTIES CaptureKept OldCredentialsSurvive
SYMMETRY MCSymmetry
