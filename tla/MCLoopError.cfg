CONSTANTS
  Videos = {v1, v2}
  NoVideo = NoVideo
  Handlers = {h1}
  Fragments = {}
  Subscribed = {v1}
  ScanWait = 1
  FailWait = 1
  AccessWait = 2
  GapWait = 1
  StorageWait = 1
  PromptHandlers = FALSE
  SlowClock = FALSE
  MaxCrashes = 0
  MaxLoopErrors = 1
SPECIFICATION Spec
INVARIANT OneActiveDownload
