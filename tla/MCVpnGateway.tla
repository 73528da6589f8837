----------------------------- MODULE MCVpnGateway -----------------------------
(* The instance of VpnGateway for TLC: three requests at once.              *)
EXTENDS VpnGateway
=============================================================================
