\* One account with two sessions: right and wrong PINs, suspension, time.
SPECIFICATION FairSpec
CONSTANTS
  NoUser = NoUser  NoPin = NoPin  NoId = NoId
  Names = {adm}
  FirstAdmin = adm
  Pins = {pin1, pin2}
  FirstPin = pin1
  SessionIds = {s1, s2}
  Requests = {r1, r2}
  Offered = {"LOGIN", "LOGOUT", "SET_STATUS"}
  NewRoles = {"ADMIN"}
  MaxFailures = 2
  LockTicks = 2
  SessionTicks = 1
  MaxEvents = 2
PROPERTIES
  LockStands
  LockoutEnds
  SuspensionBites

