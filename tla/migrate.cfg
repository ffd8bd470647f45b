\* The server and two runs of mgp-admin start on an empty database.
SPECIFICATION FairSpec
CONSTANTS
  Procs = {server, tool1, tool2}
  Server = server
  N = 3
  MaxFaults = 2
INVARIANTS
  MigrateTypeOK
  AppliedOnceInOrder
  WorksOnWholeSchema
PROPERTIES
  ServerComesUp
