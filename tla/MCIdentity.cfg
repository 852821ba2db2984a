SPECIFICATION Spec
CONSTANTS
  Calls <- MCCalls
  Kind <- MCKind
  Input <- MCInput
  Workloads <- MCWorkloads
  MaxRestarts = 1
  PodOf <- MCPodOf
  Within <- MCWithin
  Template <- MCTemplate
  WebIdOf <- MCWebIdOf
  PodIds <- MCPodIds
  WebIds <- MCWebIds
  Stored <- MCStored
INVARIANTS
  TypeOK
  UsableAccountsAreComplete
  PodsAreFound
  RevocationIsComplete
  KeysAreKept
PROPERTIES
  SecretsWorkOnce
CHECK_DEADLOCK FALSE
