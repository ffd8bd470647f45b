\* One pass, every role, two concurrent requests, edits among them.
SPECIFICATION Spec
CONSTANTS
  adm = adm  inv = inv  iss = iss  sec = sec
  NoUser = NoUser  NoPass = NoPass  Free = Free  NaN = NaN
  Users = {adm, inv, iss, sec}
  RoleOf <- MCRoleOf
  PassIds = {p1}
  Requests = {r1, r2}
  Headers <- WorkflowHeaders
  Scopes <- WorkflowScopes
  ScopeOf <- WorkflowScopeOf
  Prefixes <- WorkflowScopes
  PrefixOf <- WorkflowPrefixOf
  Drafts <- WorkflowDrafts
  PadLimit = 9999
  Base = 10
  MaxEdits = 1
SYMMETRY Sym
INVARIANTS
  TypeOK
  PolicyHoldsAtWrite
  SeparationOfDuty
  TrailIsPath
  TrailNamesActors
  SealIntact
  SavedWhole
PROPERTIES
  ImplementsLifecycle
  FrozenAfterSubmit
