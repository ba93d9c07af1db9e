SPECIFICATION FairSpec
CONSTANTS
  m1 = m1  m2 = m2  r1 = r1  r2 = r2  w1 = w1  w2 = w2  i1 = i1  i2 = i2
  e0 = e0  e1 = e1  e2 = e2  p1 = p1  p2 = p2
  None = None
  Keys = {r1}
  ReservationKeys = {r1}
  ManagedWallet <- OwnerWallet
  Intents = {i1}
  SettlementIntent = i1
  Wallets = {w1}
  Amounts = {0, 1, 2}
  Deliveries = {e0, e1, e2}
  TokensOf <- TruncatedSome
  Funds <- TwoEach
  Procs = {p1, p2}
  MaxFaults = 2
  MaxReverts = 1
  MaxEvictions = 0
INVARIANTS
  TypeOK
  SettlementFollowsCdr
PROPERTIES
  ReservationsMoveForward
  PaidSettlementCompletes
