SPECIFICATION Spec
CONSTANTS
  Prompts = {a, b, c}
  Library = {a, b}
  Contents = {x, y}
  Names = {n}
  None = None
  MaxActs = 2
PROPERTY
  SlowAnswersAreDiscarded
CHECK_DEADLOCK FALSE
