CONSTANTS
  p = p
  q = q
  NaN = NaN
  Text = Text
  Page <- MCOnePage
  Player <- MCPlayer
  Start = {1}
  Award = {1}
  QueryLimit = 3
  ResetLimit = 10
  UserCommand <- MCNobody
  MaxRuns = 3
  MaxTimeouts = 0
SPECIFICATION Spec
INVARIANTS ResetClears
