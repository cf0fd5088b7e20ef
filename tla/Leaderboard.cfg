CONSTANTS
  p = p
  q = q
  NaN = NaN
  Text = Text
  Page <- MCTwoPages
  Player <- MCPlayer
  Start = {1}
  Award = {1}
  QueryLimit = 3
  ResetLimit = 10
  UserCommand <- MCUser
  MaxRuns = 3
  MaxTimeouts = 1
SPECIFICATION Spec
INVARIANTS TypeOK NeverOvercounted ScoresEarned
PROPERTIES RefusedChangesNothing TypeKept
VIEW State
SYMMETRY Alike
