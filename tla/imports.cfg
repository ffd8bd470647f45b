\* Three requests: files in opposite orders, forms and stale archive buttons.
SPECIFICATION FairSpec
CONSTANTS
  Requests = {r1, r2, r3}
  Keys <- MasterKeys
  Forms <- MasterForms
  Files <- MasterFiles
  MaxRows = 4
INVARIANTS
  MasterTypeOK
  ActiveOnce
  StuckIsACycle
PROPERTIES
  ImplementsCatalogue
  ImportsEnd
