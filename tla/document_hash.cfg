\* One download at a time of one pass, which is passed out between two of them.
SPECIFICATION DocSpec
CONSTANTS
  NoUser = NoUser  NaN = NaN
  p1 = p1  p2 = p2  j1 = j1  j2 = j2
  PassIds = {p1}
  Users = {u1}
  Jobs = {j1}
  PassNo <- OneNumber
  Asked <- OneClient
  MaxForm <- NoEdit
INVARIANTS
  HashIsOfFile
