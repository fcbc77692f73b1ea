SPECIFICATION Spec
CONSTANTS
  Keys = {k1, k2}
  TooShort = TooShort
  Garbled = Garbled
  NoMac = NoMac
  Upps <- MCUpps
  Metadatas = {m1, m2}
  FittingMetadatas = {m1}
  SegmentSize <- MCSegmentSize
  Configure = Configure
  None = None
  MemoryMayFail = TRUE
  MaxDamage = 2
  MaxRecoveries = 1
INVARIANTS
  BppTypeOK
  CounterCountsTlvs
  SegmentsCoverUpp
  SuccessIsPrefixOfSent
  IntactRecovers
PROPERTY
  KeepsOrder
CHECK_DEADLOCK FALSE
