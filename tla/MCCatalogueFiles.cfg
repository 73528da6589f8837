CONSTANTS
  Videos = {v1}
  NoVideo = NoVideo
  Library = {v1}
  Candidates = 2
  MaxCrashes = 2
SPECIFICATION FairSpec
INVARIANT TypeOK
INVARIANT CompletedIsWholeOrHalfway
INVARIANT MissingIsExplained
INVARIANT FilesInv
PROPERTY VideoIsKept
PROPERTY PartsAreSwept
