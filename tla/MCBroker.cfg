CONSTANTS
  Campaigns = {a, c}
  Labs = {b}
  ForbiddenNames = {"id_rsa"}
  Addresses = {"127.0.0.1", "0.0.0.0"}
  NoHost = {"0.0.0.0"}
  Intents <- AnyIntent
  OwnIntents <- Own
  Manifest <- Default
  Canonical <- Real
  Symlinks <- Links
  Bodies <- Body
  MaxRequests = 2
  MaxDamage = 1
SPECIFICATION Spec
INVARIANTS
  TypeOK
  
  EvidenceIsThere
  
  PersistedIsWhole
PROPERTIES
  WriteOnceSpec
