CONSTANTS
  u1 = u1
  u2 = u2
  c1 = c1
  c2 = c2
  r1 = r1
  r2 = r2
  t1 = t1
  Users <- MCOneUser
  Clients <- MCClients
  BaseIds <- MCIds
  ReservedIds <- MCReserved
  TopupIds <- MCGeneratedId
  ChargeAmounts = {1, 2}
  TopupAmounts = {4}
  Limits = {0, 3}
  InflightLimit = 2
  MaxDay = 1
SYMMETRY DaySymmetry
SPECIFICATION Spec
INVARIANTS
  DailySpendCapped
