SPECIFICATION MCSpec
CONSTANTS
  None = None
  Panels = {a}
  Scripts = {b}
  Requests = {i, j}
  Countries <- MCCountries
  DefaultZones <- MCDefaultZones
  Slots <- MCSlots
  Windows0 <- MCWindows0
  Cdrs <- MCCdrs
  Rates = {1, 2, 3}
  Edited = {"offPeakRate"}
  Patched = {"v2gOn"}
  Day = 4
  EnergyUnit = 2
  Cap = 2
  MaxRevision = 3
  MaxFaults = 1
  MaxDeliveries = 2
  Records <- MCRecords
  ZoneOf <- MCZoneOf
  Blank = Blank
SYMMETRY RequestSymmetry
INVARIANTS
  AwardsFollowThePolicy
  IntakeIsFaithful
