SPECIFICATION FairSpec
CONSTANTS
  c1 = c1  c2 = c2  f1 = f1  a1 = a1  a2 = a2  n1 = n1  n2 = n2
  l1 = l1  l2 = l2  d1 = d1  d2 = d2  bad = bad  m1 = m1  v1 = v1
  CT = {c1}  CF = {c1}
  Id = {1, 2}
  Account = {a1}  Name = {n1, n2}  Label = {l1}
  Cidr = {d1, d2, bad}  Net = {m1}
  Masked <- Masks
  Vnet = {v1}  DefaultVnet = v1
  SpecsOf <- RestSpecs
  Before <- NothingBefore
  Budget <- RestBudget
  Mishaps = 1
  Nil = Nil
PROPERTIES SpecProblemLeftAlone
CHECK_DEADLOCK FALSE
