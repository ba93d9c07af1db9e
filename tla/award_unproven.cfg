SPECIFICATION Spec
CONSTANTS
  k1 = k1  k2 = k2  k3 = k3  s1 = s1  s2 = s2  w1 = w1  w2 = w2
  c1 = c1  c2 = c2  d1 = d1  d2 = d2  p1 = p1  p2 = p2
  None = None
  Keys = {k1}
  Sessions = {s1, s2}
  SessionOf <- SingleSession
  DedupOf <- SingleDedup
  Intents = {c1}
  Wallets = {w1}
  Amounts = {0, 1}
  Procs = {p1, p2}
  LegacyAwards <- NoLegacy
  MaxFaults = 1
  MaxRuleEdits = 0
  MaxRelinks = 0
  MaxReverts = 0
  MaxEvictions = 0
INVARIANTS
  ConfirmedIsProven
