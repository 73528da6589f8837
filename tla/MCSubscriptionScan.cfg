CONSTANTS
  Subs = {s1}
  NoSub = NoSub
  Scheduler = Scheduler
  Requests = {r1}
  PickLimit = 3
  MaxVideos = 2
  Playlist <- Whole
  LastN <- AllOne
  MaxRaises = 1
  MaxRestarts = 1
SPECIFICATION FairSpec
INVARIANT TypeOK
PROPERTY HistoryComesFirst
PROPERTY FirstRowsAreLastN
PROPERTY SeenIsNotNew
PROPERTY VideosAreFound
PROPERTY DownloadsGetTheirTurn
