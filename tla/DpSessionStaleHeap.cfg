CONSTANTS
  c1 = c1
  c2 = c2
  c3 = c3
  c4 = c4
  e1 = e1
  e2 = e2
  e3 = e3
  Sessions = {s1}
  Cards <- MCTwoCards
  EumTrusted = {c1, c2}
  EuiccTrusted = {c1, c2}
  Eids <- MCTwoEids
  DecimalEids <- MCTwoEids
  EidOf <- MCEidOf
  TransactionIds = {t1}
  EuiccChallenges = {n1}
  ServerChallenges = {k1, k2}
  Salts = {x1}
  OneTimeKeys = {p1}
  OneTimeSecrets = {d1}
  Metadata = {m1, m2}
  Profiles = {u1}
  ZeroedHeap = FALSE
  MemoryMayFail = FALSE
  Installed = Installed
  NotInstalled = NotInstalled
  None = None
  Untouched = Untouched
  Wild = Wild
SPECIFICATION Spec
INVARIANT EidOnlyAfterAuthentication
CHECK_DEADLOCK FALSE
