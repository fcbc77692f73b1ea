CONSTANTS
  OctetBase = 16
  TagNumbers = 4
  WordOctets = 2
  LengthOctetsMax = 2
  SizeLimit = 256
  AddressSpace = 255
  FirstCapacity = 8
  Responses <- MCResponses
  SequenceTag <- MCSequenceTag
  ChoiceTag <- MCChoiceTag
  StrayOctets = {0, 1, 3, 4, 7, 8, 9, 10, 11, 12, 15}
SPECIFICATION RespSpec
INVARIANTS
  RespTypeOK
  LengthsAgree
  AppendsStayInside
  LoopAdvances
  RespIsWhole
  FieldsAreMembers
  TruncatedIsRefused
  WalkStaysInside
PROPERTIES
  ReachableAppendReturns
CHECK_DEADLOCK FALSE
