CONSTANTS
  Users = {u1}
  Scopes = {none}
  Requests = {q1}
  MaxRow = 2
  MaxTime = 0
  RefreshTTL = 1
SPECIFICATION Spec
INVARIANTS
  LogoutInvalidates
