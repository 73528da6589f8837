CONSTANTS
  Calls = {c1, c2}
  NoCall = NoCall
  WgReliable = TRUE
  MaxGatewayRestarts = 0
  Videos = {v1}
  NoVideo = NoVideo
  Handlers = {h1}
SPECIFICATION FairSpec
INVARIANT RoutingTypeOK
INVARIANT UndisturbedHasItsTunnel
INVARIANT NeverDirectWhenForbidden
PROPERTY DownloadsFinish
