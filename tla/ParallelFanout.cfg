SPECIFICATION FairSpec
CONSTANTS
  None = None
  each = each
  deep = deep
  mid = mid
  flat = flat
  lint = lint
  unit = unit
  Each = Each
  Lint1 = Lint1
  Lint2 = Lint2
  Deep = Deep
  Mid = Mid
  Unit = Unit
  Flat = Flat
  e1 = e1
  e2 = e2
  l1 = l1
  l2 = l2
  d1 = d1
  m1 = m1
  u1 = u1
  u2 = u2
  f1 = f1
  f2 = f2
  f3 = f3
  Steps = {each, deep, mid, flat, lint, unit}
  Adapters = {flat, lint, unit}
  Calls = {Each, Lint1, Lint2, Deep, Mid, Unit, Flat}
  Iters = {e1, e2, l1, l2, d1, m1, u1, u2, f1, f2, f3}
  Max <- MCMax
  OnFailure <- MCOnFailure
  MaxVisits <- MCMaxVisits
  MaxRetries = 1
  MaxPlain = 1
  MaxFanouts = 1
  RootCeiling = 0
  Step <- MCStep
  Parent <- MCParent
  Call <- MCCall
INVARIANTS ConcurrencyBounded TokensAccounted VisitsBounded CutShortIsNoSuccess
PROPERTY FanoutEnds
