SPECIFICATION Spec
CONSTANTS
  Prompts = {a, b, c}
  Library = {a, b}
  Contents = {x, y}
  Names = {n}
  None = None
  MaxActs = 3
INVARIANTS
  OneVersionAtATime
  FormIsOfPage
  QuietPageIsCurrent
PROPERTY
  RestoresOwnContent
CHECK_DEADLOCK FALSE
