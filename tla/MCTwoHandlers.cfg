CONSTANTS
  Videos = {f1}
  NoVideo = NoVideo
  Handlers = {h1, h2}
  Fragments = {f1}
  Subscribed = {f1}
  ScanWait = 1
  FailWait = 1
  AccessWait = 2
  GapWait = 1
  StorageWait = 1
  PromptHandlers = FALSE
  SlowClock = FALSE
  MaxCrashes = 1
  MaxLoopErrors = 1
SPECIFICATION Spec
INVARIANT FileInv
INVARIANT CompletedHasFile
PROPERTY DownloadsStartRunnable
PROPERTY ExpiredStaysExpired
PROPERTY OnlyResumesLoseDueTime
