CONSTANTS
  c1 = c1
  c2 = c2
  e1 = e1
  e2 = e2
  n1 = n1
  n2 = n2
  t1 = t1
  t2 = t2
  m1 = m1
  m2 = m2
  Sessions = {s1, s2}
  Cards = {c1, c2}
  EumTrusted = {c1, c2}
  EuiccTrusted = {c1, c2}
  Eids = {e1, e2}
  DecimalEids = {e1, e2}
  EidOf <- MCEidOf
  TransactionIds = {t1, t2}
  EuiccChallenges = {n1, n2}
  ServerChallenges = {k1, k2}
  Salts = {x1}
  OneTimeKeys = {p1, p2}
  OneTimeSecrets = {d1}
  Metadata = {m1, m2}
  Profiles = {u1}
  ZeroedHeap = TRUE
  MemoryMayFail = FALSE
  Installed = Installed
  NotInstalled = NotInstalled
  None = None
  Untouched = Untouched
  Wild = Wild
  IssuedBy <- MCIssuedBy
  OrderedMetadata <- MCOneMetadata
  TransactionIdsFresh = TRUE
SYMMETRY MCSymmetry
SPECIFICATION DownloadSpec
INVARIANTS
  DownloadTypeOK
  SessionCardIsChallenger
  InstalledMeansLoaded
  ShownIsLoaded
PROPERTIES
  KeepsPromise
