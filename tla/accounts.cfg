\* An administrator changes accounts beside mgp-admin.
SPECIFICATION Spec
CONSTANTS
  NoUser = NoUser  NoPin = NoPin  NoId = NoId
  Names = {adm, usr}
  FirstAdmin = adm
  Pins = {pin1}
  FirstPin = pin1
  SessionIds = {s1}
  Requests = {r1, r2}
  Offered = {"LOGIN", "CREATE_USER", "RESET_PIN", "TOOL"}
  NewRoles = {"ADMIN", "VIEWER"}
  MaxFailures = 2
  LockTicks = 1
  SessionTicks = 1
  MaxEvents = 1
SYMMETRY Sym
INVARIANTS
  TypeOK
  CreatedOnce
  ToldOfAdmins
  SignatureHasFile
PROPERTIES
  RolesFixed
