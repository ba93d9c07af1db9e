SPECIFICATION FairSpec
CONSTANTS
  o1 = o1  o2 = o2  s1 = s1  s2 = s2  p1 = p1  p2 = p2
  None = None
  Owners = {o1, o2}
  Sessions = {s1, s2}
  Hosts <- Pages
  Custodial = {o1}
  Ops = {p1, p2}
  MaxRenders = 2
  MaxPrompts = 2
  MaxFaults = 1
CHECK_DEADLOCK FALSE
INVARIANTS
  OneOpenApproval
PROPERTIES
  CardIsCurrent
  
