\* One address, registered at most twice, and tokens that expire.
CONSTANTS
  Addresses = {a1}
  Passwords = {p1, p2}
  Requests = {q1, q2}
  MaxUser = 2
  MaxTime = 1
  VerifyTTL = 1
SPECIFICATION Spec
SYMMETRY Symmetry
INVARIANTS
  VerifiedByMail
  PasswordWasChosen
  KeptUnlessOverlapped
  OneAccountPerAddress
  IndInv
PROPERTIES
  KeepsBook
