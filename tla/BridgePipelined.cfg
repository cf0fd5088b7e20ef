CONSTANTS
  Commands = 3
  TooLong = {}
  Window = 2
  TimesOut = FALSE
  BodyPieces = 2
  Longest = 3
SPECIFICATION Spec
INVARIANTS MatchedReplies
CHECK_DEADLOCK FALSE
