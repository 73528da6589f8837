--------------------------- MODULE VpnGatewayProofs ---------------------------
(* What holds of the gateway for any number of requests at once.           *)
EXTENDS VpnGateway, TLAPS

(* A step of the server, by what it does to the lock.                      *)
LEMMA StepsOfTheGateway ==
    ASSUME GatewayNext
    PROVE  \/ \E c \in Calls : \/ \E op \in {"connect", "disconnect"} : Receive(c, op)
                               \/ Respond(c) \/ Acquire(c)
                               \/ Disconnect(c) \/ ReplaceTunnel(c) \/ Reject(c)
                               \/ StartOpenvpn(c) \/ OpenvpnIsReady(c)
                               \/ OpenvpnFails(c) \/ StartWireguard(c)
                               \/ WireguardIsUp(c) \/ WireguardFails(c)
           \/ OpenvpnExits \/ GatewayRestarts
BY DEF GatewayNext, GatewayStep, ThreadStep

-----------------------------------------------------------------------------
(* Types and mutual exclusion.                                             *)

(* The clean-up keeps the types of what it touches.                        *)
LEMMA CleanupTypes ==
    ASSUME GatewayTypeOK, Cleanup
    PROVE  /\ record' = NoTunnel /\ record' \in Records
           /\ processes' \subseteq Calls
           /\ interface' \in Calls \union {NoCall}
BY DEF Cleanup, AfterDown, GatewayTypeOK, Records, NoTunnel

(* Every step keeps the types, and the lock with the thread that holds it. *)
LEMMA GatewayTypesStep ==
    ASSUME GatewayTypeOK, [GatewayNext]_gateway
    PROVE  GatewayTypeOK'
<1> USE GatewayAssumption
<1>1. CASE UNCHANGED gateway
  BY <1>1 DEF gateway, tunnel, GatewayTypeOK
<1>2. ASSUME NEW c \in Calls, NEW op \in {"connect", "disconnect"}, Receive(c, op)
      PROVE  GatewayTypeOK'
  BY <1>2 DEF Receive, Unused, At, tunnel, GatewayTypeOK, Places
<1>3. ASSUME NEW c \in Calls, Respond(c)
      PROVE  GatewayTypeOK'
  BY <1>3 DEF Respond, At, tunnel, GatewayTypeOK, IdleCall, Places
<1>4. ASSUME NEW c \in Calls, Acquire(c)
      PROVE  GatewayTypeOK'
  BY <1>4 DEF Acquire, At, GoTo, tunnel, GatewayTypeOK, Places
<1>5. ASSUME NEW c \in Calls, Disconnect(c)
      PROVE  GatewayTypeOK'
  BY ZenonT(60), <1>5, CleanupTypes DEF Disconnect, At, Release, GatewayTypeOK, Places
<1>6. ASSUME NEW c \in Calls, ReplaceTunnel(c)
      PROVE  GatewayTypeOK'
  BY <1>6, CleanupTypes DEF ReplaceTunnel, At, GoTo, GatewayTypeOK, Places
<1>7. ASSUME NEW c \in Calls, Reject(c)
      PROVE  GatewayTypeOK'
  BY ZenonT(60), <1>7 DEF Reject, At, Release, tunnel, GatewayTypeOK, Places
<1>8. ASSUME NEW c \in Calls, StartOpenvpn(c)
      PROVE  GatewayTypeOK'
  BY <1>8 DEF StartOpenvpn, At, GoTo, GatewayTypeOK, Records, Places
<1>9. ASSUME NEW c \in Calls, OpenvpnIsReady(c)
      PROVE  GatewayTypeOK'
  BY ZenonT(60), <1>9 DEF OpenvpnIsReady, At, Release, GatewayTypeOK, Records, Places
<1>10. ASSUME NEW c \in Calls, OpenvpnFails(c)
       PROVE  GatewayTypeOK'
  BY ZenonT(60), <1>10, CleanupTypes DEF OpenvpnFails, At, Release, GatewayTypeOK, Places
<1>11. ASSUME NEW c \in Calls, StartWireguard(c)
       PROVE  GatewayTypeOK'
  BY <1>11 DEF StartWireguard, At, GoTo, GatewayTypeOK, Records, Places
<1>12. ASSUME NEW c \in Calls, WireguardIsUp(c)
       PROVE  GatewayTypeOK'
  BY ZenonT(60), <1>12 DEF WireguardIsUp, At, Release, GatewayTypeOK, Records, Places
<1>13. ASSUME NEW c \in Calls, WireguardFails(c)
       PROVE  GatewayTypeOK'
  BY ZenonT(60), <1>13 DEF WireguardFails, At, Release, AfterDown, GatewayTypeOK, Records,
               NoTunnel, Places
<1>14. CASE OpenvpnExits
  BY <1>14 DEF OpenvpnExits, GatewayTypeOK
<1>15. CASE GatewayRestarts
  BY <1>15 DEF GatewayRestarts, AfterDown, GatewayTypeOK, Records, NoTunnel, IdleCall, Places
<1> QED
  BY <1>1, <1>2, <1>3, <1>4, <1>5, <1>6, <1>7, <1>8, <1>9, <1>10, <1>11, <1>12,
     <1>13, <1>14, <1>15, StepsOfTheGateway

(* GatewayTypeOK holds of every behaviour: in particular only the thread   *)
(* that holds the lock is between its clean-up and its result.             *)
THEOREM GatewayTypeCorrect == GatewaySpec => []GatewayTypeOK
<1>1. GatewayInit => GatewayTypeOK
  BY GatewayAssumption
  DEF GatewayInit, GatewayTypeOK, Records, NoTunnel, IdleCall, Places
<1>2. GatewayTypeOK /\ [GatewayNext]_gateway => GatewayTypeOK'
  BY GatewayTypesStep
<1> QED
  BY <1>1, <1>2, PTL DEF GatewaySpec

-----------------------------------------------------------------------------
(* One tunnel.                                                             *)

TunnelInv == TunnelIsRecorded /\ RecordInv

(* A clean-up that works leaves nothing.                                   *)
LEMMA CleanupLeavesNothing ==
    ASSUME WgReliable, GatewayTypeOK, TunnelInv, Cleanup
    PROVE  record' = NoTunnel /\ processes' = {} /\ interface' = NoCall
BY DEF Cleanup, AfterDown, TunnelInv, TunnelIsRecorded

(* With nothing left, and no other thread inside, the invariant holds.     *)
LEMMA NothingLeft ==
    ASSUME record' = NoTunnel, processes' = {}, interface' = NoCall,
           \A c \in Calls : call'[c].pc \notin {"listening", "raising"}
    PROVE  TunnelInv'
BY DEF TunnelInv, TunnelIsRecorded, RecordInv, At, NoTunnel

(* Every step keeps what runs in the record.                               *)
LEMMA TunnelStep ==
    ASSUME WgReliable, GatewayTypeOK, TunnelInv, [GatewayNext]_gateway
    PROVE  TunnelInv'
<1> USE GatewayAssumption DEF At
<1>1. CASE UNCHANGED gateway
  BY <1>1 DEF gateway, tunnel, TunnelInv, TunnelIsRecorded, RecordInv
<1>2. ASSUME NEW c \in Calls, NEW op \in {"connect", "disconnect"}, Receive(c, op)
      PROVE  TunnelInv'
  BY <1>2 DEF Receive, Unused, tunnel, GatewayTypeOK, TunnelInv, TunnelIsRecorded, RecordInv
<1>3. ASSUME NEW c \in Calls, Respond(c)
      PROVE  TunnelInv'
  BY <1>3 DEF Respond, IdleCall, tunnel, GatewayTypeOK, TunnelInv, TunnelIsRecorded, RecordInv
<1>4. ASSUME NEW c \in Calls, Acquire(c)
      PROVE  TunnelInv'
  BY <1>4 DEF Acquire, GoTo, tunnel, GatewayTypeOK, TunnelInv, TunnelIsRecorded, RecordInv
<1>5. ASSUME NEW c \in Calls, Disconnect(c)
      PROVE  TunnelInv'
  BY <1>5, CleanupLeavesNothing, NothingLeft DEF Disconnect, Release, GatewayTypeOK
<1>6. ASSUME NEW c \in Calls, ReplaceTunnel(c)
      PROVE  TunnelInv'
  BY <1>6, CleanupLeavesNothing, NothingLeft DEF ReplaceTunnel, GoTo, GatewayTypeOK
<1>7. ASSUME NEW c \in Calls, Reject(c)
      PROVE  TunnelInv'
  BY <1>7 DEF Reject, Release, tunnel, GatewayTypeOK, TunnelInv, TunnelIsRecorded, RecordInv
<1>8. ASSUME NEW c \in Calls, StartOpenvpn(c)
      PROVE  TunnelInv'
  BY <1>8 DEF StartOpenvpn, GoTo, NoTunnel, GatewayTypeOK, TunnelInv, TunnelIsRecorded, RecordInv
<1>9. ASSUME NEW c \in Calls, OpenvpnIsReady(c)
      PROVE  TunnelInv'
  BY <1>9 DEF OpenvpnIsReady, Release, NoTunnel, GatewayTypeOK, Records, TunnelInv,
              TunnelIsRecorded, RecordInv
<1>10. ASSUME NEW c \in Calls, OpenvpnFails(c)
       PROVE  TunnelInv'
  BY <1>10, CleanupLeavesNothing, NothingLeft DEF OpenvpnFails, Release, GatewayTypeOK
<1>11. ASSUME NEW c \in Calls, StartWireguard(c)
       PROVE  TunnelInv'
  BY <1>11 DEF StartWireguard, GoTo, NoTunnel, GatewayTypeOK, TunnelInv, TunnelIsRecorded,
               RecordInv
<1>12. ASSUME NEW c \in Calls, WireguardIsUp(c)
       PROVE  TunnelInv'
  BY <1>12 DEF WireguardIsUp, Release, NoTunnel, GatewayTypeOK, Records, TunnelInv,
               TunnelIsRecorded, RecordInv
<1>13. ASSUME NEW c \in Calls, WireguardFails(c)
       PROVE  TunnelInv'
  BY <1>13 DEF WireguardFails, Release, AfterDown, NoTunnel, GatewayTypeOK, TunnelInv,
               TunnelIsRecorded, RecordInv
<1>14. CASE OpenvpnExits
  BY <1>14 DEF OpenvpnExits, TunnelInv, TunnelIsRecorded, RecordInv
<1>15. CASE GatewayRestarts
  BY <1>15, NothingLeft DEF GatewayRestarts, AfterDown, IdleCall
<1> QED
  BY <1>1, <1>2, <1>3, <1>4, <1>5, <1>6, <1>7, <1>8, <1>9, <1>10, <1>11, <1>12,
     <1>13, <1>14, <1>15, StepsOfTheGateway

(* The record says OpenVPN or WireGuard, so only one of them runs.         *)
LEMMA RecordedIsOne ==
    ASSUME GatewayTypeOK, TunnelInv
    PROVE  OneTunnel
BY GatewayAssumption DEF GatewayTypeOK, TunnelInv, TunnelIsRecorded, RecordInv, OneTunnel

(* Everything that runs is in the record, whatever fails and in whatever   *)
(* order requests come, as long as wg0 can be taken down.                  *)
THEOREM GatewayForgetsNothing ==
    ASSUME WgReliable
    PROVE  GatewaySpec => []TunnelIsRecorded
<1>1. GatewayInit => TunnelInv
  BY GatewayAssumption
  DEF GatewayInit, TunnelInv, TunnelIsRecorded, RecordInv, NoTunnel, IdleCall, At
<1>2. GatewayTypeOK /\ TunnelInv /\ [GatewayNext]_gateway => TunnelInv'
  BY TunnelStep
<1>3. TunnelInv => TunnelIsRecorded
  BY DEF TunnelInv
<1> QED
  BY <1>1, <1>2, <1>3, GatewayTypeCorrect, PTL DEF GatewaySpec

(* And there is never more than one tunnel.                                *)
THEOREM GatewayHasOneTunnel ==
    ASSUME WgReliable
    PROVE  GatewaySpec => []OneTunnel
<1>1. GatewayInit => TunnelInv
  BY GatewayAssumption
  DEF GatewayInit, TunnelInv, TunnelIsRecorded, RecordInv, NoTunnel, IdleCall, At
<1>2. GatewayTypeOK /\ TunnelInv /\ [GatewayNext]_gateway => TunnelInv'
  BY TunnelStep
<1>3. GatewayTypeOK /\ TunnelInv => OneTunnel
  BY RecordedIsOne
<1> QED
  BY <1>1, <1>2, <1>3, GatewayTypeCorrect, PTL DEF GatewaySpec

(* Its record names one kind of tunnel, or none, and never what has been   *)
(* taken down.                                                             *)
THEOREM GatewayRecordIsExact ==
    ASSUME WgReliable
    PROVE  GatewaySpec => []RecordInv
<1>1. GatewayInit => TunnelInv
  BY GatewayAssumption
  DEF GatewayInit, TunnelInv, TunnelIsRecorded, RecordInv, NoTunnel, IdleCall, At
<1>2. GatewayTypeOK /\ TunnelInv /\ [GatewayNext]_gateway => TunnelInv'
  BY TunnelStep
<1>3. TunnelInv => RecordInv
  BY DEF TunnelInv
<1> QED
  BY <1>1, <1>2, <1>3, GatewayTypeCorrect, PTL DEF GatewaySpec
=============================================================================
