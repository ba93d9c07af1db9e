SPECIFICATION MCSpec
CONSTANTS
  q1 = q1  q2 = q2
  Requests = {q1, q2}
  SpendKinds = {"manual", "managed", "linked"}
  NoValue = NoValue
  MaxFailures = 2
  MaxStarts = 3
  w1 = w1  x1 = x1  i1 = i1  t1 = t1  r1 = r1  m1 = m1  p1 = p1  p2 = p2
  None = None
  Managed = {w1}
  Keys <- ManagedKeys
  TopUpKeys = {t1}
  RevokeKeys = {r1}
  MoveKeys = {m1}
  OwnerOf <- OneOwner
  Targets = {x1}
  HostOf <- TwoHosts
  Tokens <- OneToken
  Intents = {i1}
  Wallets = {w1, x1}
  Amounts = {0, 1, 2}
  Procs = {p1, p2}
  MaxFaults = 2
  MaxReverts = 1
  MaxEvictions = 1
  MaxDeposits = 1
  MaxRequests = 3
  Shortfalls = {1}
  MaxWalletTxs = 2
  k0 = k0  h0 = h0  h1 = h1  o1 = o1  o2 = o2  polygon = polygon  amoy = amoy
  n1 = n1  n2 = n2  admin = admin
  Absent = Absent
  Ops = {k0}
  Hashes = {h0, h1}
  Plan <- MCPlan
  Retained <- MCRetained
  Owners = {o1, o2}
  Assets = {polygon, amoy}
  Queries <- MCQueries
  Annotators = {n1, n2}
  Bodies <- MCBodies
  LastPeriod = 1
  Computed = {2}
  SourceCap = 1
  MaxEvidenceFaults = 1
  MaxWrites = 3
SYMMETRY Symmetric
CHECK_DEADLOCK FALSE
INVARIANTS
  StatedNoMovementIsTrue
  RetryKeepsTheHash
  OperatorSeesTheSame
  ManagedIsTrue
  ReportIsTrue
PROPERTIES
  NewerAttemptKept
  AnnotationsHold
