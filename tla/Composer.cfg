SPECIFICATION Spec
CONSTANTS
  Versions = {v, w}
  WithVariable = {v}
  Values = {x, y}
  None = None
  MaxEdits = 4
  MaxClicks = 3
  MaxMoves = 2
INVARIANTS
  SecondPurchaseIsDeliberate
  TextMatchesRecord
  SubmissionsResolve
CHECK_DEADLOCK FALSE
