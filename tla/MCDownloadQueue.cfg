CONSTANTS
  Videos = {v1, v2}
  NoVideo = NoVideo
  Handlers = {h1}
  Fragments = {}
  Subscribed = {v1}
  ScanWait = 1
  FailWait = 1
  AccessWait = 1
  GapWait = 1
  StorageWait = 1
  PromptHandlers = TRUE
  SlowClock = FALSE
  MaxCrashes = 1
  MaxLoopErrors = 0
SPECIFICATION Spec
INVARIANT TypeOK
INVARIANT OneActiveDownload
INVARIANT SerialInv
INVARIANT RunnableHasDueTime
INVARIANT DueInv
PROPERTY ServiceSpec
