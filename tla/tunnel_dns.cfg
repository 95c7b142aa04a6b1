SPECIFICATION Spec
CONSTANTS
  h1 = h1  h2 = h2  z1 = z1  z2 = z2
  Host = {h1, h2}  Spelling = {"h1", "H1", "h2", ""}
  Lower <- LowerOf
  Zone = {z1, z2}  InZone <- ZonesOf
  ConfigsOf <- Configs
  Foreign = Foreign
  MaxUid = 2
  Budget <- Bounds
  Nil = Nil
INVARIANTS TypeOK RecordsFollowConfig CountsAreRight
PROPERTIES WantedRecordsStay ForeignNotOverwritten
CHECK_DEADLOCK FALSE
