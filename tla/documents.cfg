\* Two downloads at a time of two passes whose numbers share a file name, while
\* the passes are edited and decided.
SPECIFICATION DocSpec
CONSTANTS
  NoUser = NoUser  NaN = NaN
  p1 = p1  p2 = p2  j1 = j1  j2 = j2
  PassIds = {p1, p2}
  Users = {u1}
  Jobs = {j1, j2}
  PassNo <- Numbers
  Asked <- Clients
  MaxForm <- Edits
INVARIANTS
  DocTypeOK
  
  RowHasFile
