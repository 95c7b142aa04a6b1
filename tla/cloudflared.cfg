SPECIFICATION FairSpec
CONSTANTS
  v1 = v1  v2 = v2  t1 = t1  t2 = t2
  Version = {v1, v2}  TunnelId = {t2}
  Size = {1, 2}  One = 1
  Foreign = Foreign
  SpecsOf <- Specs
  MaxUid = 2
  Budget <- Bounds
  Nil = Nil
INVARIANTS TypeOK QuietMeansRunning
PROPERTIES KindChangeDeletesApp ComesToRest
CHECK_DEADLOCK FALSE
