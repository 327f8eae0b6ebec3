SPECIFICATION FairSpec
CONSTANTS
  MaxPhotos = 3
  Capacity = 2
  RejectedMax = 1
  MaxTime = 2
INVARIANTS TypeOK IdsUnique FiledOnce
PROPERTIES KeptUntilFiled OldestFirst EventuallyLeaves
