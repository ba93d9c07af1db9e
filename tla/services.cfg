SPECIFICATION MCSpec
CONSTANTS
  api = api  cli = cli  call = call  primary = primary  fallback = fallback
  e1 = e1  t1 = t1  p1 = p1  p2 = p2  owner = owner  deputy = deputy
  Containers = {api, cli}
  Service = {api}
  Releases = {0, 6, 14}
  MaxEvents = 2
  Nil = Nil
  Calls = {call}
  Candidates <- MCCandidates
  Errors <- MCErrors
  EndpointTimeout = 2
  ReadTimeout = 8
  RetryDelay = 1
  MaxAttempts = 3
  MaxEndpoints = 2
  Unset = Unset
  Events = {e1}
  Tests = {t1}
  Editors = {p1, p2}
  Recipients = {owner, deputy}
  Environments <- MCEnvironments
  Patches <- MCPatches
  Kinds <- MCKinds
  MaxAlertFaults = 1
CHECK_DEADLOCK FALSE
INVARIANTS
  ReadyWhenUp
PROPERTIES
  MigrationsFinish
  CallsAreServed
  AlertsAreTruthful
