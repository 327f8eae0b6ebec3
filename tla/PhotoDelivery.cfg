SPECIFICATION Spec
CONSTANTS
  d1 = d1
  Photos <- MCPhotos
  Unreadable <- MCUnreadable
  Clients <- MCClients
  TokenOf <- MCTokenOf
  Devices = {d1}
  Slots = {h1, h2}
  MaxTurns = 1
  Absent = Absent
  MaxPhotos = 2
  Requests = {r1}
  Nobody = Nobody
  MaxEvents = 2
INVARIANTS TypeOK FiledIsReadable TestPhotosStay TestModeSilences
PROPERTIES Implements EventuallyReleased PressServed
