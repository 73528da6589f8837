---------------------------- MODULE MCVpnProfiles ----------------------------
(* The instance of VpnProfiles for TLC.                                    *)
EXTENDS VpnProfiles, TLC

(* Profiles and requests are interchangeable.                              *)
Symmetric == Permutations(Profiles) \union Permutations(Handlers)
=============================================================================
