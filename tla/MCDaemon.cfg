CONSTANTS
  Clients = {c1, c2}
  MaxFrames = 2
  MaxLoad = 3
  MayHang = TRUE
SPECIFICATION Spec
INVARIANTS
  TypeOK
  CountersAccountable
  OneStory
  LocksInOrder
PROPERTIES
  RequestsEnd
