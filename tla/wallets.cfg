SPECIFICATION FairSpec
CONSTANTS
  u1 = u1  x1 = x1  x2 = x2  m1 = m1
  t1 = t1  a1 = a1  s1 = s1  p1 = p1  p2 = p2
  None = None
  Uids = {u1}
  Externals = {x1, x2}
  ManagedOf <- OneManaged
  Txs = {t1, a1}
  Transfers = {t1}
  SenderOf <- FirstSends
  Sessions = {None, s1}
  Procs = {p1, p2}
  MaxLinked = 1
  MaxFaults = 1
INVARIANTS
  OneSelection
  ClaimsAreTrue
PROPERTIES
  ChoicesLast
  ReceiptIsEventuallyRecorded
