CONSTANTS
  Videos = {v1}
  NoVideo = NoVideo
  Library = {}
  Candidates = 2
  MaxCrashes = 0
SPECIFICATION Spec
INVARIANT CompletedIsForTheTV
