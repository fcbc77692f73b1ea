SPECIFICATION Spec
CONSTANTS
  Keys = {k1}
  TooShort = TooShort
  Garbled = Garbled
  NoMac = NoMac
  Upps <- MCTwoSegments
  Metadatas = {m1}
  FittingMetadatas = {m1}
  SegmentSize <- MCSegmentSize
  Configure = Configure
  None = None
  MemoryMayFail = TRUE
  MaxDamage = 3
  MaxRecoveries = 2
INVARIANTS
  RecoveredIsOnePiece
PROPERTY
  KeepsOrder
CHECK_DEADLOCK FALSE
