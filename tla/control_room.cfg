\* One browser before a register of one pass: every role but the viewer, stale pages.
SPECIFICATION RoomSpec
CONSTANTS
  adm = adm  inv = inv  iss = iss  sec = sec
  NoUser = NoUser  NoPass = NoPass  Free = Free  NaN = NaN
  Users = {adm, inv, iss, sec}
  RoleOf <- RoomRoleOf
  PassIds = {p1}
  Requests = {r1}
  Headers <- RoomHeaders
  Scopes <- RoomScopes
  ScopeOf <- RoomScopeOf
  Prefixes <- RoomScopes
  PrefixOf <- RoomPrefixOf
  Drafts <- RoomDrafts
  PadLimit = 9999
  Base = 10
  MaxEdits = 1
  Reserved = {"s2"}
INVARIANTS
  RoomTypeOK
  DecidedAsShown
  NoDeadLink
  OfferedAsAllowed
