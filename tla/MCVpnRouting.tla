----------------------------- MODULE MCVpnRouting -----------------------------
(* Instances of VpnRouting for TLC.                                         *)
EXTENDS VpnRouting
=============================================================================
