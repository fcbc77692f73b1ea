CONSTANTS
  a1 = a1
  a2 = a2
  BlockCount <- MCBlockCount
  Answers <- MCAnswers
SPECIFICATION MemSpec
INVARIANTS
  MemTypeOK
  NothingDangles
  NothingLeaks
  FailureChangesNothing
  AllOfOneAnswer
