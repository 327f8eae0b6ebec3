SPECIFICATION FairSpec
CONSTANTS
  None = None
  r1 = r1
  r2 = r2
  r3 = r3
  Sums = {"base", "next", "edited"}
  Items = {"photos", "requests"}
  Body <- MCBody
  Builds <- MCBuilds
  Runners = {r1, r2}
  HolderOf <- MCHolderOf
  Servers = {s1}
  Requests = {q1, q2}
  LockStale = 0
  RecheckBehind = 1
  MaxEvents = 1
INVARIANTS ServedComplete LockExcludes
PROPERTIES Recovers
