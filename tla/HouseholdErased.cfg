SPECIFICATION Spec
CONSTANTS
  u1 = u1
  u2 = u2
  p1 = p1
  p2 = p2
  Users = {u1, u2}
  Homes = {h1, h2}
  People = {p1, p2, p3}
  Cameras = {c1}
  Photos = {x1, x2}
  Ceremonies = {k1}
  Slots = {s1}
  Absent = Absent
  SmallGrid = 2
  LargeGrid = 3
  MinExamples = 1
  MaxEvents = 1
  Self <- MCSelf
  Founder = c1
INVARIANT FacesErased
CHECK_DEADLOCK FALSE
