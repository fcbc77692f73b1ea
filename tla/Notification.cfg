CONSTANTS
  c1 = c1
  c2 = c2
  c3 = c3
  q1 = q1
  q2 = q2
  i1 = i1
  Cards = {c1, c2, c3}
  Eums = {q1, q2}
  EumOf <- MCEumOf
  TrustedEums = {q1}
  Iccids = {i1}
  NotTen = NotTen
  TooWide = TooWide
  OctetBits = 3
  Metas <- MCMetas
  Contents <- MCContents
  MaxSigned = 1
  None = None
SYMMETRY MCSymmetry
SPECIFICATION NotifSpec
INVARIANTS
  NotifTypeOK
  ToldIsSigned
  FiledUnderHolder
  ReadIsVerified
  OperationIsTheOneBit
  GenuineIsAccepted
