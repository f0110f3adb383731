SPECIFICATION Spec
CONSTANTS
  Prompts = {p1, p2}
  VersionIds = {v1, v2, v3}
  Contents = {c1, c2}
  Names = {n1, n2}
  NoVersion = NoVersion
INVARIANTS
  WellFormed
  AnsweredIsCommitted
PROPERTIES
  CopiesAreFaithful
  KeepsPromise
