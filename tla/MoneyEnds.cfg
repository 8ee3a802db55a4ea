CONSTANTS
  u1 = u1
  u2 = u2
  q1 = q1
  q2 = q2
  r1 = r1
  r2 = r2
  t1 = t1
  t2 = t2
  Nobody = Nobody
  Users <- MCOneUser
  Clients <- MCClients
  BaseIds <- MCBaseIds
  ReservedIds <- MCReserved
  TopupIds <- MCTopupIds
  ChargeAmounts = {2}
  TopupAmounts = {3, 5}
  Limits = {0}
  InflightLimit = 1
  MaxDay = 0
  Opening <- MCOpening
  Funds = 3
  Price = 2
  MaxFaults = 1
  Sessions <- MCSessions
  Workers <- MCClients
  MaxLost = 2
SPECIFICATION MoneySpec
PROPERTIES
  EveryRequestEnds
  PaidGetsCredited
CHECK_DEADLOCK FALSE
