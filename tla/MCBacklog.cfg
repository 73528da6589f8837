CONSTANTS
  Videos = {v1, v2}
  NoVideo = NoVideo
  Handlers = {}
  Fragments = {}
  Subscribed = {v1}
  ScanWait = 1
  FailWait = 1
  AccessWait = 2
  GapWait = 1
  StorageWait = 1
  PromptHandlers = FALSE
  SlowClock = TRUE
  MaxCrashes = 1
  MaxLoopErrors = 1
SPECIFICATION FairPauseSpec
PROPERTY NoStartOncePaused
PROPERTY DownloadsEnd
PROPERTY WaitingRowsAreTried
PROPERTY SchedulerKeepsLooking
