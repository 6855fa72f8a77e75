CONSTANTS
  Addresses = {a1}
  Passwords = {p1, p2}
  Requests = {q1, q2}
  MaxUser = 1
  MaxTime = 0
  VerifyTTL = 1
SPECIFICATION Spec
PROPERTIES
  ResetTokenIsOneTime
