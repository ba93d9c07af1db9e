SPECIFICATION Spec
CONSTANTS
  m1 = m1  m2 = m2  r1 = r1  r2 = r2  w1 = w1  w2 = w2  i1 = i1  i2 = i2
  e0 = e0  e1 = e1  e2 = e2  p1 = p1  p2 = p2
  None = None
  Keys = {m1, r1}
  ReservationKeys = {r1}
  ManagedWallet <- OwnerWallet
  Intents = {i1, i2}
  SettlementIntent = i1
  Wallets = {w1}
  Amounts = {0, 1, 2}
  Deliveries = {e1}
  TokensOf <- TruncatedSome
  Funds <- ThreeEach
  Procs = {p1, p2}
  MaxFaults = 1
  MaxReverts = 0
  MaxEvictions = 1
SYMMETRY ProcSymmetry
INVARIANTS
  ReceiptsMatch
  AdmittedWithinFunds
