SPECIFICATION FairSpec
CONSTANTS
  g1 = g1  g2 = g2  n1 = n1  n2 = n2
  Gateway = {g1, g2}  Ns = {n1, n2}
  Home <- HomeOf
  SpecsOf <- Specs
  Start <- StartOf
  GrantsOf <- Grants
  Meddled <- Others
  MaxVersion = 1
  Policies = {TRUE, FALSE}
  Budget <- Bounds
  Nil = Nil
INVARIANTS TypeOK QuietMeansReported QuietMeansOnlyThose
PROPERTIES WantedAccessStays ComesToRest
CHECK_DEADLOCK FALSE
