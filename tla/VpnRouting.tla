------------------------------ MODULE VpnRouting ------------------------------
(***************************************************************************)
(* Who uses the VPN tunnel, and when: the download that may be routed      *)
(* through it (src/app/vpn/runtime.py), the handlers of the VPN page       *)
(* (src/app/main.py) and the gateway both drive over HTTP                  *)
(* (src/app/vpn/manager.py, VpnGateway).                                   *)
(*                                                                         *)
(* Downloads are those of DownloadService, which the queue implements: one *)
(* is current at a time, and its video is active at first, but may cease   *)
(* to be, since a user may ignore or delete what is being downloaded.      *)
(*                                                                         *)
(* A client waits for its call until the response, an error or its own     *)
(* timeout.  A call whose client has gone stays at the gateway.            *)
(***************************************************************************)
EXTENDS VpnGateway

CONSTANTS
    Videos, NoVideo,
    Handlers      \* requests of the VPN page at once

ASSUME RoutingAssumption == NoVideo \notin Videos

VARIABLES
    phase, current, running,      \* of DownloadService
    route,      \* [pc, call, fallback, then]: the download in download_with_vpn
    visitor,    \* handler -> [op, pc, call]
    enabled,    \* app_state vpn_enabled
    fallback,   \* vpn_fallback_to_direct, and the profile's own
    undisturbed, \* history: the current download began with no request and no
                 \* call open; since then its video has been active, the gateway
                 \* up, and no OpenVPN of its own has exited by itself
    permitted    \* history: the user's settings have allowed the current download
                 \* to go direct at some time since it began

download == <<phase, current, running>>
choices  == <<enabled, fallback>>
clients  == <<route, visitor>>
history  == <<undisturbed, permitted>>
vars     == <<gateway, download, choices, clients, history>>

Download == INSTANCE DownloadService

NoRoute == [pc |-> "none", call |-> NoCall, fallback |-> FALSE, then |-> "ended"]

NoVisit == [op |-> "none", pc |-> "idle", call |-> NoCall]

Init ==
    /\ GatewayInit /\ Download!Init
    /\ route = NoRoute
    /\ visitor = [h \in Handlers |-> NoVisit]
    /\ enabled \in BOOLEAN /\ fallback \in BOOLEAN
    /\ undisturbed = FALSE /\ permitted = FALSE

(* download_in_progress: some row is DOWNLOADING.                          *)
InProgress == \E v \in Videos : phase[v] = "active"

(* Settings under which a download may go direct.                          *)
MayGoDirect == ~enabled \/ fallback

-----------------------------------------------------------------------------
(* The HTTP client.                                                        *)

Awaited == {route.call} \union {visitor[h].call : h \in Handlers}

(* A request reaches the gateway.                                          *)
Sent(c, op) == c \notin Awaited /\ Receive(c, op)

Answered(c, ok) == At(c, "done") /\ call[c].ok = ok /\ Respond(c)

(* The request could not be sent, the gateway was restarted under it, or   *)
(* the client's timeout (5 s for /disconnect, the connect timeout and 5 s  *)
(* for /connect) passed first and the call goes on without it.             *)
NotAnswered(c) == ~At(c, "done") /\ UNCHANGED gateway

(* The response to a client that has gone.                                 *)
DropResponse ==
    /\ \E c \in Calls \ Awaited : Respond(c)
    /\ UNCHANGED <<download, choices, clients, history>>

-----------------------------------------------------------------------------
(* download_with_vpn.                                                      *)

BeginDownload ==
    /\ route = NoRoute
    /\ \E v \in Videos : Download!Begin(v)
    /\ route' = [NoRoute EXCEPT !.pc = "decide"]
    /\ undisturbed' = (/\ \A h \in Handlers : visitor[h] = NoVisit
                       /\ \A c \in Calls : At(c, "idle"))
    /\ permitted' = MayGoDirect
    /\ UNCHANGED <<gateway, choices, visitor>>

(* Where a download without a tunnel goes on.                              *)
Without(allowed) == IF allowed THEN "direct" ELSE "ended"

(* is_vpn_enabled, in a session of its own.                                *)
ReadEnabled ==
    /\ route.pc = "decide"
    /\ route' = [route EXCEPT !.pc = IF enabled THEN "choose" ELSE "direct"]
    /\ UNCHANGED <<gateway, download, choices, visitor, history>>

(* Faulty variant: no profile means a direct download.                     *)
ChooseDirectWithoutProfile ==
    /\ route.pc = "choose"
    /\ \E then \in {"connect", "direct"} :
          route' = [route EXCEPT !.fallback = fallback, !.pc = then]
    /\ UNCHANGED <<gateway, download, choices, visitor, history>>

(* The fallback is read once, before anything is awaited, with the         *)
(* profile.  Whether selected_profile finds an enabled one is VpnProfiles' *)
(* matter: here it may or may not, at any time.                            *)
ChooseProfile ==
    /\ route.pc = "choose"
    /\ \E then \in {"connect", Without(fallback)} :
          route' = [route EXCEPT !.fallback = fallback, !.pc = then]
    /\ UNCHANGED <<gateway, download, choices, visitor, history>>

SendConnect ==
    /\ route.pc = "connect"
    /\ \E c \in Calls :
          /\ Sent(c, "connect")
          /\ route' = [route EXCEPT !.pc = "connecting", !.call = c]
    /\ UNCHANGED <<download, choices, visitor, history>>

Connected ==
    /\ route.pc = "connecting"
    /\ Answered(route.call, TRUE)
    /\ route' = [route EXCEPT !.pc = "proxied"]
    /\ UNCHANGED <<download, choices, visitor, history>>

(* Faulty variant: the client has no timeout.                              *)
ConnectFailsWhenTold ==
    /\ route.pc = "connecting"
    /\ Answered(route.call, FALSE)
    /\ route' = [route EXCEPT !.pc = Without(route.fallback), !.call = NoCall]
    /\ UNCHANGED <<download, choices, visitor, history>>

(* A connection that failed is not taken down again.                       *)
ConnectFails ==
    /\ \/ route.pc = "connecting" /\ Answered(route.call, FALSE)
       \/ route.pc = "connecting" /\ NotAnswered(route.call)
       \/ route.pc = "connect" /\ UNCHANGED gateway
    /\ route' = [route EXCEPT !.pc = Without(route.fallback), !.call = NoCall]
    /\ UNCHANGED <<download, choices, visitor, history>>

(* It succeeds, or fails with or without a direct attempt to follow; an    *)
(* exception ends it in the same two ways.                                 *)
ProxiedEnds ==
    /\ route.pc = "proxied"
    /\ \E then \in {"ended", Without(route.fallback)} :
          route' = [route EXCEPT !.pc = "disconnect", !.call = NoCall, !.then = then]
    /\ UNCHANGED <<gateway, download, choices, visitor, history>>

SendDisconnect ==
    /\ route.pc = "disconnect"
    /\ \E c \in Calls :
          /\ Sent(c, "disconnect")
          /\ route' = [route EXCEPT !.pc = "closing", !.call = c]
    /\ UNCHANGED <<download, choices, visitor, history>>

(* manager.disconnect swallows every error.                                *)
Closed ==
    /\ \/ route.pc = "closing" /\ Answered(route.call, TRUE)
       \/ route.pc = "closing" /\ NotAnswered(route.call)
       \/ route.pc = "disconnect" /\ UNCHANGED gateway
    /\ route' = [route EXCEPT !.pc = route.then, !.call = NoCall]
    /\ UNCHANGED <<download, choices, visitor, history>>

(* Faulty variant: it returns and leaves the download without an outcome.  *)
DirectEndsUnfinished ==
    /\ route.pc = "direct"
    /\ route' = NoRoute
    /\ UNCHANGED <<gateway, download, choices, visitor, history>>

DirectEnds ==
    /\ route.pc = "direct"
    /\ route' = [route EXCEPT !.pc = "ended"]
    /\ UNCHANGED <<gateway, download, choices, visitor, history>>

FinishDownload ==
    /\ route.pc = "ended"
    /\ Download!End(current)
    /\ route' = NoRoute
    /\ undisturbed' = FALSE /\ permitted' = FALSE
    /\ UNCHANGED <<gateway, choices, visitor>>

RouteStep ==
    \/ ReadEnabled \/ ChooseProfile \/ SendConnect \/ Connected \/ ConnectFails
    \/ ProxiedEnds \/ SendDisconnect \/ Closed \/ DirectEnds \/ FinishDownload

-----------------------------------------------------------------------------
(* Handlers of the VPN page.                                               *)

(* DELETE and DISCONNECT disconnect.                                       *)
Ops == {"disable", "disconnect", "connect", "test", "failed_test", "untest"}

(* Faulty variant: a handler does not ask for a download.                  *)
VisitUnchecked(h, op) ==
    /\ visitor[h] = NoVisit
    /\ visitor' = [visitor EXCEPT ![h] = [op |-> op, pc |-> "sending", call |-> NoCall]]
    /\ UNCHANGED <<gateway, download, choices, route, history>>

(* A handler is refused while a download is in progress.  Then it awaits   *)
(* the gateway.                                                            *)
Visit(h, op) ==
    /\ visitor[h] = NoVisit /\ ~InProgress
    /\ visitor' = [visitor EXCEPT ![h] = [op |-> op, pc |-> "sending", call |-> NoCall]]
    /\ UNCHANGED <<gateway, download, choices, route, history>>

(* The endpoint of the gateway that a handler awaits first.                *)
GatewayOp(op) == IF op \in {"connect", "test"} THEN "connect" ELSE "disconnect"

VisitorSends(h) ==
    /\ visitor[h].pc = "sending"
    /\ \E c \in Calls :
          /\ Sent(c, GatewayOp(visitor[h].op))
          /\ visitor' = [visitor EXCEPT ![h].pc = "awaiting", ![h].call = c]
    /\ UNCHANGED <<download, choices, route, history>>

(* TEST disconnects once more after an exit check that failed.             *)
Remaining(op, ok) ==
    CASE op = "test" /\ ok     -> {"untest", "failed_test"}
      [] op = "test" /\ ~ok    -> {"untest"}
      [] op = "failed_test"    -> {"untest"}
      [] OTHER                 -> {"none"}

(* The handler goes on: DISABLE turns the VPN off.                         *)
Resumed(h, ok) ==
    /\ \E op \in Remaining(visitor[h].op, ok) :
          visitor' = [visitor EXCEPT ![h] =
              IF op = "none" THEN NoVisit
              ELSE [op |-> op, pc |-> "sending", call |-> NoCall]]
    /\ enabled' = (enabled /\ visitor[h].op # "disable")
    /\ UNCHANGED <<download, fallback, route, undisturbed>>
    /\ permitted' = (permitted \/ (route # NoRoute /\ MayGoDirect'))

VisitorResumes(h) ==
    \/ /\ visitor[h].pc = "awaiting"
       /\ \/ \E ok \in BOOLEAN : Answered(visitor[h].call, ok) /\ Resumed(h, ok)
          \/ NotAnswered(visitor[h].call) /\ Resumed(h, FALSE)
    \/ /\ visitor[h].pc = "sending"
       /\ UNCHANGED gateway /\ Resumed(h, FALSE)

(* The settings that are changed without the gateway.                      *)
ChooseSettings ==
    /\ \/ enabled' = TRUE /\ UNCHANGED fallback
       \/ fallback' \in BOOLEAN /\ UNCHANGED enabled
    /\ UNCHANGED <<gateway, download, clients, undisturbed>>
    /\ permitted' = (permitted \/ (route # NoRoute /\ MayGoDirect'))

-----------------------------------------------------------------------------
(* The rest of the system.                                                 *)

OwnOpenvpnExits == OpenvpnExits /\ route.call \in processes \ processes'

GatewayWorks ==
    /\ GatewayStep
    /\ undisturbed' = (undisturbed /\ restarts' = restarts /\ ~OwnOpenvpnExits)
    /\ UNCHANGED <<download, choices, clients, permitted>>

(* The application's process ends, and all its requests with it.           *)
InterruptDownload ==
    /\ Download!Interrupt
    /\ route' = NoRoute
    /\ visitor' = [h \in Handlers |-> NoVisit]
    /\ undisturbed' = FALSE /\ permitted' = FALSE
    /\ UNCHANGED <<gateway, choices>>

ManageDownloads ==
    /\ Download!Manage
    /\ undisturbed' = (undisturbed /\ phase'[current] = phase[current])
    /\ UNCHANGED <<gateway, choices, clients, permitted>>

ResumeDownloads ==
    /\ Download!Resume
    /\ UNCHANGED <<gateway, choices, clients, history>>

Next ==
    \/ BeginDownload \/ RouteStep
    \/ \E h \in Handlers :
          \/ \E op \in Ops \ {"failed_test", "untest"} : Visit(h, op)
          \/ VisitorSends(h) \/ VisitorResumes(h)
    \/ ChooseSettings \/ DropResponse \/ GatewayWorks
    \/ InterruptDownload \/ ResumeDownloads \/ ManageDownloads

Spec == Init /\ [][Next]_vars

(* Only the application's own steps are fair: it has its timeouts, whatever *)
(* the gateway does.                                                       *)
FairSpec == Spec /\ WF_vars(RouteStep)

-----------------------------------------------------------------------------
(* Properties.                                                             *)

RouteTypes ==
    [pc : {"none", "decide", "choose", "connect", "connecting", "proxied", "disconnect",
           "closing", "direct", "ended"},
     call : Calls \union {NoCall}, fallback : BOOLEAN, then : {"ended", "direct"}]

(* Every variable has its type, and download_with_vpn runs for the current *)
(* download.                                                               *)
RoutingTypeOK ==
    /\ GatewayTypeOK
    /\ phase \in [Videos -> Download!Phases]
    /\ current \in Videos \union {NoVideo}
    /\ running \in BOOLEAN
    /\ undisturbed \in BOOLEAN /\ permitted \in BOOLEAN
    /\ route \in RouteTypes
    /\ visitor \in [Handlers -> [op : Ops \union {"none"},
                                 pc : {"idle", "sending", "awaiting"},
                                 call : Calls \union {NoCall}]]
    /\ choices \in BOOLEAN \X BOOLEAN
    /\ route = NoRoute <=> current = NoVideo

(* What the operating system has of the tunnel that a call built.          *)
TunnelIsUp(c) == c \in processes \/ interface = c

(* The proxy is "Passed to yt-dlp as `--proxy` only while a tunnel is in   *)
(* use" (README.md:92): from the response to its own /connect to the end   *)
(* of the transfer, the process or the interface of that call is there,    *)
(* and the gateway has it in its record.                                   *)
TransferHasItsTunnel ==
    route.pc = "proxied" =>
        TunnelIsUp(route.call) /\ record.connected /\ record.workdir = route.call

(* So it is when the handlers' question, whether a download is in          *)
(* progress, was asked after this one began and had the right answer, and  *)
(* OpenVPN did not exit by itself: nothing in the application or in the    *)
(* gateway's threads takes a tunnel from a transfer.                       *)
UndisturbedHasItsTunnel == undisturbed => TransferHasItsTunnel

(* Whoever has the VPN on and the fallback off from before a download      *)
(* begins sees no attempt without the proxy, whatever the gateway, the     *)
(* other handlers and the timeouts do: a direct attempt was allowed by the *)
(* settings at some time since this download began.                        *)
NeverDirectWhenForbidden == route.pc = "direct" => permitted

(* A download ends although the gateway may never answer.                  *)
DownloadsFinish == current # NoVideo ~> current = NoVideo
=============================================================================
