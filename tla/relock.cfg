\* limiter.go:9, five failures lock an account.
SPECIFICATION Spec
CONSTANTS
  NoUser = NoUser  NoPin = NoPin  NoId = NoId
  Names = {adm}
  FirstAdmin = adm
  Pins = {pin1, pin2}
  FirstPin = pin1
  SessionIds = {s1}
  Requests = {r1, r2}
  Offered = {"LOGIN", "LOGOUT"}
  NewRoles = {}
  MaxFailures = 5
  LockTicks = 3
  SessionTicks = 2
  MaxEvents = 0
INVARIANTS
  LockNeedsFailures
