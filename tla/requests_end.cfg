\* Two scopes that share the text of their labels; no symmetry, fair.
SPECIFICATION FairSpec
CONSTANTS
  adm = adm  inv = inv  iss = iss  sec = sec
  NoUser = NoUser  NoPass = NoPass  Free = Free  NaN = NaN
  Users = {inv, iss}
  RoleOf <- MCRoleOf
  PassIds = {p1, p2}
  Requests = {r1, r2}
  Headers <- RegisterHeaders
  Scopes <- RegisterScopes
  ScopeOf <- RegisterScopeOf
  Prefixes <- RegisterScopes
  PrefixOf <- SharedPrefixOf
  Drafts <- TwoScopeDrafts
  PadLimit = 9999
  Base = 10
  MaxEdits = 0
INVARIANTS
  NumbersGapless
  WaitsOnward
PROPERTIES
  RequestsEnd
