SPECIFICATION FairSpec
CONSTANTS
  award = award  spend = spend  session = session  alice = alice
  r1 = r1  r2 = r2  i1 = i1  w1 = w1
  None = None
  Keys = {award, spend, session}
  Intents = {i1}
  Wallets = {w1}
  Amounts = {0, 1, 2}
  FirstAmounts = {0, 1}
  Awards = {award}
  Reserved = {session}
  Snapshots = {award}
  Admins = {alice}
  Requests = {r1, r2}
  MaxOps = 1
  MaxFaults = 1
INVARIANTS
  RecoveryIsTrue
PROPERTIES
  RetryFinishes
