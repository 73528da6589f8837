CONSTANTS
  Calls = {c1, c2, c3}
  NoCall = NoCall
  WgReliable = TRUE
  MaxGatewayRestarts = 1
SPECIFICATION FairGatewaySpec
INVARIANT GatewayTypeOK
INVARIANT TunnelIsRecorded
INVARIANT OneTunnel
INVARIANT RecordInv
PROPERTY CallsAreAnswered
