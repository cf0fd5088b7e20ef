CONSTANTS
  Commands = 4
  TooLong = {3}
  Window = 2
  TimesOut = TRUE
  BodyPieces = 3
  Longest = 4
SPECIFICATION FairSpec
INVARIANTS TypeOK MatchedAlone NeverAhead
PROPERTIES CommandsAnswered Released
CHECK_DEADLOCK FALSE
