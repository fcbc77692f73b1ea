CONSTANTS
  c1 = c1
  c2 = c2
  c3 = c3
  c4 = c4
  e1 = e1
  e2 = e2
  e3 = e3
  Sessions = {s1}
  Cards <- MCCards
  EumTrusted = {c1, c2, c3}
  EuiccTrusted = {c1, c2, c3}
  Eids <- MCEids
  DecimalEids <- MCDecimalEids
  EidOf <- MCEidOf
  TransactionIds = {t1, t2}
  EuiccChallenges = {n1}
  ServerChallenges = {k1, k2}
  Salts = {x1}
  OneTimeKeys = {p1}
  OneTimeSecrets = {d1, d2}
  Metadata = {m1, m2}
  Profiles = {u1}
  ZeroedHeap = TRUE
  MemoryMayFail = TRUE
  Installed = Installed
  NotInstalled = NotInstalled
  None = None
  Untouched = Untouched
  Wild = Wild
SPECIFICATION Spec
INVARIANT OutUntouchedOnFailure
