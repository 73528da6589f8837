CONSTANTS
  Videos = {v1}
  NoVideo = NoVideo
  Library = {}
  Candidates = 1
  MaxCrashes = 0
SPECIFICATION Spec
INVARIANT CompletedIsWhole
