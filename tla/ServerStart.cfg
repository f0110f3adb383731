SPECIFICATION FairSpec
CONSTANTS
  Servers = {s1, s2}
  Commands = {m}
  Seeders = {s1}
  Rows = {r1, r2}
  Samples = 3
  None = None
  MaxKills = 2
INVARIANTS
  SchemaMatchesRecord
  SeededAtMostOnce
PROPERTIES
  RowsSurvive
  EventuallyServes
