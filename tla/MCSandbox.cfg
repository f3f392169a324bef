CONSTANTS
  Calls = {a, b}
  Stamps = {t}
  Openings <- SomeOpenings
  MaxLoad = 3
SPECIFICATION Spec
INVARIANTS
  TypeOK
  
  NothingLeft
  UpIsPresent
PROPERTIES
  CallsReturn
