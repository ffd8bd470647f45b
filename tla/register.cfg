\* Several passes: numbering, revisions, failing inserts.
SPECIFICATION Spec
CONSTANTS
  adm = adm  inv = inv  iss = iss  sec = sec
  NoUser = NoUser  NoPass = NoPass  Free = Free  NaN = NaN
  Users = {inv, iss}
  RoleOf <- MCRoleOf
  PassIds = {p1, p2, p3}
  Requests = {r1, r2}
  Headers <- RegisterHeaders
  Scopes <- RegisterScopes
  ScopeOf <- RegisterScopeOf
  Prefixes <- RegisterScopes
  PrefixOf <- DistinctPrefixOf
  Drafts <- OneScopeDrafts
  PadLimit = 9999
  Base = 10
  MaxEdits = 0
SYMMETRY Sym
INVARIANTS
  NumbersGapless
  RevisionLineage
