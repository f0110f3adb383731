SPECIFICATION FairSpec
CONSTANTS
  Values = {v1, v0}
  Incomplete = {v0}
  Cued = {cue}
  Keys = {k1, k2}
  Durations = {10}
  Resolutions = {"768P", "1080P"}
  Asked = {"success", "failure", "slow", "provider_error", None}
  None = None
  Jobs = {1, 2}
  MaxRestarts = 1
INVARIANTS
  AnswersWhatWasAsked
  RegenerateRepeats
  OnlySupportedClips
  EndsByItsScenario
PROPERTY
  EveryMockJobEnds
CHECK_DEADLOCK FALSE
