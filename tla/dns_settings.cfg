SPECIFICATION Spec
CONSTANTS
  c1 = c1  c2 = c2  z1 = z1  k1 = k1  k2 = k2
  p1 = p1  p2 = p2  x = x  t1 = t1  t2 = t2  ref = ref
  CR = {c1}
  Id = {1, 2, 3, 4}
  Zone = {z1}  Key = {k1, k2}  Opts = {p1, p2}
  Content = {x, t1, t2}  Target = {t1, t2}
  TunnelRef = ref
  SpecsOf <- SettingsSpecs
  Before <- NothingBefore
  Budget <- SettingsBudget
  Nil = Nil
INVARIANTS SettingsFollowSpec
CHECK_DEADLOCK FALSE
