\* One account with two tenant claims, three rows, two handlers at a time, the clock
\* beyond the expiry.
CONSTANTS
  Users = {u1}
  Scopes = {none, t1}
  Requests = {q1, q2}
  MaxRow = 3
  MaxTime = 2
  RefreshTTL = 1
SPECIFICATION Spec
SYMMETRY Symmetry
INVARIANTS
  RotatedIsSpent
  OneSuccessorPerSlot
  LogoutEndsUniqueToken
  IndInv
  SessionKeepsIdentity
  SessionsHaveOwners
PROPERTIES
  EndedForGood
  OnlyLoginBegins
  ExpiredNeedsLogin
  EndedByHolderOnly
