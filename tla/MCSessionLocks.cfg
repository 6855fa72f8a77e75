CONSTANTS
  Users = {u1}
  Scopes = {none}
  Requests = {q1, q2}
  MaxRow = 2
  MaxTime = 0
  RefreshTTL = 1
  MaxConns = 1
  MaxMail = 1
SPECIFICATION FairLockSpec
INVARIANTS
  LocksTypeOK
  DeadlocksAreOpposed
PROPERTIES
  TransactionsAreAtomic
  KeepsLedger
  EveryRequestEnds
  ShutdownEnds
