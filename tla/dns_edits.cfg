SPECIFICATION FairSpec
CONSTANTS
  c1 = c1  c2 = c2  z1 = z1  k1 = k1  k2 = k2
  p1 = p1  p2 = p2  x = x  t1 = t1  t2 = t2  ref = ref
  CR = {c1}
  Id = {1, 2, 3, 4}
  Zone = {z1}  Key = {k1, k2}  Opts = {p1}
  Content = {x, t1, t2}  Target = {t1, t2}
  TunnelRef = ref
  SpecsOf <- EditSpecs
  Before <- EditBefore
  Budget <- EditBudget
  Nil = Nil
INVARIANTS TypeOK QuietMeansConverged
PROPERTIES DeletionCompletes ComesToRest
CHECK_DEADLOCK FALSE
