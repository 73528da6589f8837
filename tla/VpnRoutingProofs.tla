--------------------------- MODULE VpnRoutingProofs ---------------------------
(* What holds of downloads through the VPN for any number of downloads,    *)
(* handlers and requests at the gateway.                                   *)
EXTENDS VpnRouting, VpnGatewayProofs

-----------------------------------------------------------------------------
(* Types.                                                                  *)

Waits == {"connecting", "proxied", "closing"}

(* Whoever waits for a response, or has had its own, names the call.       *)
CallsAreNamed ==
    /\ route.pc \in Waits => route.call \in Calls
    /\ \A h \in Handlers : visitor[h].pc = "awaiting" => visitor[h].call \in Calls

RouteInv ==
    /\ RoutingTypeOK
    /\ CallsAreNamed
    /\ current # NoVideo => running

(* Where a download that has begun may be.                                 *)
Positions == {"decide", "choose", "connect", "connecting", "proxied", "disconnect",
              "closing", "direct", "ended"}

Called == Calls \union {NoCall}

Ends == {"ended", "direct"}

Visits == [op : Ops \union {"none"}, pc : {"idle", "sending", "awaiting"},
           call : Calls \union {NoCall}]

(* The gateway sees one request, one response, a step of its own, or none. *)
LEMMA GatewayIsDriven ==
    ASSUME RouteInv, [Next]_vars
    PROVE  [GatewayNext]_gateway
<1> USE DEF GatewayNext
<1>1. \A c \in Calls, op \in {"connect", "disconnect"} : Sent(c, op) => GatewayNext
  BY DEF Sent
<1>2. \A c \in Calls : Respond(c) => GatewayNext
  OBVIOUS
<1>3. route.pc \in Waits => \A ok : Answered(route.call, ok) => GatewayNext
  BY <1>2 DEF RouteInv, CallsAreNamed, Answered
<1>4. \A h \in Handlers : visitor[h].pc = "awaiting" =>
         \A ok : Answered(visitor[h].call, ok) => GatewayNext
  BY <1>2 DEF RouteInv, CallsAreNamed, Answered
<1>5. RouteStep => [GatewayNext]_gateway
  BY <1>1, <1>3
  DEF RouteStep, ReadEnabled, ChooseProfile, SendConnect, Connected, ConnectFails,
      ProxiedEnds, SendDisconnect, Closed, DirectEnds, FinishDownload, NotAnswered, Waits
<1>6. ASSUME NEW h \in Handlers
      PROVE  /\ \A op : Visit(h, op) => UNCHANGED gateway
             /\ VisitorSends(h) => [GatewayNext]_gateway
             /\ VisitorResumes(h) => [GatewayNext]_gateway
  <2>1. \A op : GatewayOp(op) \in {"connect", "disconnect"}
    BY DEF GatewayOp
  <2> QED
    BY <1>1, <1>4, <2>1 DEF Visit, VisitorSends, VisitorResumes, NotAnswered
<1>7. /\ ChooseSettings \/ BeginDownload \/ InterruptDownload \/ ManageDownloads
            \/ ResumeDownloads => UNCHANGED gateway
      /\ DropResponse \/ GatewayWorks => GatewayNext
  BY <1>2 DEF ChooseSettings, BeginDownload, InterruptDownload, ManageDownloads,
              ResumeDownloads, DropResponse, GatewayWorks
<1> QED
  BY <1>5, <1>6, <1>7 DEF Next, vars

(* What a step makes of the route's record.                                *)
LEMMA RouteGoes ==
    ASSUME NEW r \in RouteTypes, NEW p \in Positions
    PROVE  /\ [r EXCEPT !.pc = p] \in RouteTypes
           /\ [r EXCEPT !.pc = p].pc = p /\ [r EXCEPT !.pc = p].call = r.call
BY DEF RouteTypes, Positions, Called, Ends

LEMMA RouteCalls ==
    ASSUME NEW r \in RouteTypes, NEW p \in Positions, NEW c \in Called
    PROVE  /\ [r EXCEPT !.pc = p, !.call = c] \in RouteTypes
           /\ [r EXCEPT !.pc = p, !.call = c].pc = p
           /\ [r EXCEPT !.pc = p, !.call = c].call = c
BY DEF RouteTypes, Positions, Called, Ends

LEMMA RouteReads ==
    ASSUME NEW r \in RouteTypes, NEW p \in Positions, NEW b \in BOOLEAN
    PROVE  /\ [r EXCEPT !.fallback = b, !.pc = p] \in RouteTypes
           /\ [r EXCEPT !.fallback = b, !.pc = p].pc = p
BY DEF RouteTypes, Positions, Called, Ends

LEMMA RoutePlans ==
    ASSUME NEW r \in RouteTypes, NEW p \in Positions, NEW c \in Called,
           NEW t \in Ends
    PROVE  /\ [r EXCEPT !.pc = p, !.call = c, !.then = t] \in RouteTypes
           /\ [r EXCEPT !.pc = p, !.call = c, !.then = t].pc = p
BY DEF RouteTypes, Positions, Called, Ends

LEMMA NoRouteIsARoute == NoRoute \in RouteTypes /\ NoRoute.pc = "none"
BY DEF NoRoute, RouteTypes

(* The route: where it waits it names its call, and it is NoRoute again    *)
(* only when the download ends.                                            *)
LEMMA RouteStepTypes ==
    ASSUME RouteInv, RouteStep
    PROVE  /\ route' \in RouteTypes
           /\ route'.pc \in Waits => route'.call \in Calls
           /\ route # NoRoute
           /\ route' = NoRoute \/ route'.pc # "none"
           /\ route' = NoRoute => FinishDownload
<1> USE NoRouteIsARoute DEF Waits
<1>t. route \in RouteTypes
  BY DEF RouteInv, RoutingTypeOK
<1>p. {"choose", "connect", "connecting", "proxied", "disconnect", "closing", "direct", "ended"}
         \subseteq Positions
  BY DEF Positions
<1>1. CASE ReadEnabled
  <2>1. PICK p \in {"choose", "direct"} :
           route' = [route EXCEPT !.pc = p] /\ route.pc = "decide"
    BY <1>1 DEF ReadEnabled
  <2> DEFINE x == [route EXCEPT !.pc = p]
  <2>p. p \in Positions
    BY <1>p
  <2>2. x \in RouteTypes /\ x.pc = p
    BY <1>t, <2>p, RouteGoes
  <2> HIDE DEF x
  <2> QED
    BY <2>1, <2>2 DEF x
<1>2. CASE ChooseProfile
  <2>1. PICK then \in {"connect", "direct", "ended"} :
           /\ route.pc = "choose"
           /\ route' = [route EXCEPT !.fallback = fallback, !.pc = then]
    BY <1>2 DEF ChooseProfile, Without
  <2> DEFINE x == [route EXCEPT !.fallback = fallback, !.pc = then]
  <2>2. fallback \in BOOLEAN
    BY DEF RouteInv, RoutingTypeOK, choices
  <2>p. then \in Positions
    BY <1>p
  <2>3. x \in RouteTypes /\ x.pc = then
    BY <1>t, <2>2, <2>p, RouteReads
  <2>4. route' = x
    BY <2>1
  <2> HIDE DEF x
  <2> QED
    BY <2>1, <2>3, <2>4
<1>3. CASE SendConnect
  <2>1. PICK c \in Calls : /\ route.pc = "connect"
                           /\ route' = [route EXCEPT !.pc = "connecting", !.call = c]
    BY <1>3 DEF SendConnect
  <2> DEFINE x == [route EXCEPT !.pc = "connecting", !.call = c]
  <2>p. "connecting" \in Positions /\ c \in Called
    BY <1>p DEF Called
  <2>2. x \in RouteTypes /\ x.pc = "connecting" /\ x.call = c
    BY ZenonT(60), <1>t, <2>p, RouteCalls
  <2>3. route' = x
    BY <2>1
  <2> HIDE DEF x
  <2> QED
    BY <2>1, <2>2, <2>3
<1>4. CASE Connected
  <2>1. route.pc = "connecting" /\ route' = [route EXCEPT !.pc = "proxied"]
    BY <1>4 DEF Connected
  <2> DEFINE x == [route EXCEPT !.pc = "proxied"]
  <2>2. x \in RouteTypes /\ x.pc = "proxied" /\ x.call = route.call
    BY <1>t, <1>p, RouteGoes
  <2>3. route' = x
    BY <2>1
  <2> HIDE DEF x
  <2> QED
    BY <2>1, <2>2, <2>3 DEF RouteInv, CallsAreNamed
<1>5. CASE ConnectFails
  <2>1. PICK then \in Ends, c \in Called :
           /\ route.pc \in {"connect", "connecting"}
           /\ route' = [route EXCEPT !.pc = then, !.call = c]
    BY <1>5 DEF ConnectFails, Without, Called, Ends
  <2> DEFINE x == [route EXCEPT !.pc = then, !.call = c]
  <2>p. then \in Positions
    BY <1>p DEF Ends
  <2>n. then # "none" /\ then \notin Waits
    BY DEF Ends
  <2>2. x \in RouteTypes /\ x.pc = then
    BY ZenonT(60), <1>t, <2>p, RouteCalls
  <2>3. route' = x
    BY <2>1
  <2> HIDE DEF x
  <2> QED
    BY <2>1, <2>n, <2>2, <2>3
<1>6. CASE ProxiedEnds
  <2>1. PICK then \in Ends, c \in Called :
           /\ route.pc = "proxied"
           /\ route' = [route EXCEPT !.pc = "disconnect", !.call = c, !.then = then]
    BY <1>6 DEF ProxiedEnds, Without, Called, Ends
  <2> DEFINE x == [route EXCEPT !.pc = "disconnect", !.call = c, !.then = then]
  <2>p. "disconnect" \in Positions
    BY <1>p
  <2>2. x \in RouteTypes /\ x.pc = "disconnect"
    BY <1>t, <2>p, RoutePlans
  <2>3. route' = x
    BY <2>1
  <2> HIDE DEF x
  <2> QED
    BY <2>1, <2>2, <2>3
<1>7. CASE SendDisconnect
  <2>1. PICK c \in Calls : /\ route.pc = "disconnect"
                           /\ route' = [route EXCEPT !.pc = "closing", !.call = c]
    BY <1>7 DEF SendDisconnect
  <2> DEFINE x == [route EXCEPT !.pc = "closing", !.call = c]
  <2>p. "closing" \in Positions /\ c \in Called
    BY <1>p DEF Called
  <2>2. x \in RouteTypes /\ x.pc = "closing" /\ x.call = c
    BY ZenonT(60), <1>t, <2>p, RouteCalls
  <2>3. route' = x
    BY <2>1
  <2> HIDE DEF x
  <2> QED
    BY <2>1, <2>2, <2>3
<1>8. CASE Closed
  <2>1. PICK then \in Ends, c \in Called :
           /\ route.pc \in {"disconnect", "closing"}
           /\ route' = [route EXCEPT !.pc = then, !.call = c]
    <3>1. route.then \in {"direct", "ended"}
      BY <1>t DEF RouteTypes
    <3> QED
      BY <1>8, <3>1 DEF Closed, Called, Ends
  <2> DEFINE x == [route EXCEPT !.pc = then, !.call = c]
  <2>p. then \in Positions
    BY <1>p DEF Ends
  <2>n. then # "none" /\ then \notin Waits
    BY DEF Ends
  <2>2. x \in RouteTypes /\ x.pc = then
    BY ZenonT(60), <1>t, <2>p, RouteCalls
  <2>3. route' = x
    BY <2>1
  <2> HIDE DEF x
  <2> QED
    BY <2>1, <2>n, <2>2, <2>3
<1>9. CASE DirectEnds
  <2>1. route.pc = "direct" /\ route' = [route EXCEPT !.pc = "ended"]
    BY <1>9 DEF DirectEnds
  <2> DEFINE x == [route EXCEPT !.pc = "ended"]
  <2>2. x \in RouteTypes /\ x.pc = "ended"
    BY <1>t, <1>p, RouteGoes
  <2>3. route' = x
    BY <2>1
  <2> HIDE DEF x
  <2> QED
    BY <2>1, <2>2, <2>3
<1>10. CASE FinishDownload
  BY <1>10 DEF FinishDownload
<1> QED
  BY <1>1, <1>2, <1>3, <1>4, <1>5, <1>6, <1>7, <1>8, <1>9, <1>10 DEF RouteStep

(* What becomes of the video that is current, and of the settings, in a    *)
(* step of the download that is routed.                                    *)
LEMMA RouteStepRest ==
    ASSUME RouteInv, RouteStep
    PROVE  /\ UNCHANGED <<choices, visitor>>
           /\ FinishDownload \/ UNCHANGED <<download, history>>
BY DEF RouteStep, ReadEnabled, ChooseProfile, SendConnect, Connected, ConnectFails,
       ProxiedEnds, SendDisconnect, Closed, DirectEnds, FinishDownload

(* A handler moves.                                                        *)
LEMMA VisitTypes ==
    ASSUME RouteInv, NEW h \in Handlers,
           \/ \E op \in Ops \ {"failed_test", "untest"} : Visit(h, op)
           \/ VisitorSends(h) \/ VisitorResumes(h)
    PROVE  /\ visitor' \in [Handlers -> Visits]
           /\ \A g \in Handlers : visitor'[g].pc = "awaiting" => visitor'[g].call \in Calls
           /\ UNCHANGED <<download, fallback, route, undisturbed>>
<1> USE DEF RouteInv, RoutingTypeOK, CallsAreNamed, Visits
<1>1. ASSUME NEW op \in Ops, Visit(h, op)
      PROVE  /\ visitor' \in [Handlers -> Visits]
             /\ \A g \in Handlers : visitor'[g].pc = "awaiting" => visitor'[g].call \in Calls
  BY <1>1 DEF Visit
<1>2. ASSUME VisitorSends(h)
      PROVE  /\ visitor' \in [Handlers -> Visits]
             /\ \A g \in Handlers : visitor'[g].pc = "awaiting" => visitor'[g].call \in Calls
  <2>1. PICK c \in Calls : visitor' = [visitor EXCEPT ![h] =
                                          [visitor[h] EXCEPT !.pc = "awaiting", !.call = c]]
    BY <1>2 DEF VisitorSends
  <2> DEFINE x == [visitor[h] EXCEPT !.pc = "awaiting", !.call = c]
  <2>2. x \in Visits /\ x.call \in Calls
    OBVIOUS
  <2>3. visitor' = [visitor EXCEPT ![h] = x]
    BY <2>1
  <2> HIDE DEF x
  <2> QED
    BY <2>2, <2>3
<1>3. ASSUME VisitorResumes(h)
      PROVE  /\ visitor' \in [Handlers -> Visits]
             /\ \A g \in Handlers : visitor'[g].pc = "awaiting" => visitor'[g].call \in Calls
  <2>1. PICK ok \in BOOLEAN : Resumed(h, ok)
    BY <1>3 DEF VisitorResumes
  <2>2. Remaining(visitor[h].op, ok) \subseteq {"untest", "failed_test", "none"}
    BY DEF Remaining
  <2>3. PICK op \in {"untest", "failed_test", "none"} :
           visitor' = [visitor EXCEPT ![h] =
              IF op = "none" THEN NoVisit
              ELSE [op |-> op, pc |-> "sending", call |-> NoCall]]
    BY <2>1, <2>2 DEF Resumed
  <2> QED
    BY <2>3 DEF NoVisit, Ops
<1>4. /\ \A op : Visit(h, op) => UNCHANGED <<download, fallback, route, undisturbed>>
      /\ VisitorSends(h) \/ VisitorResumes(h) => UNCHANGED <<download, fallback, route, undisturbed>>
  BY DEF Visit, VisitorSends, VisitorResumes, Resumed, choices, history
<1> QED
  BY <1>1, <1>2, <1>3, <1>4

(* The settings and the histories stay Boolean.                            *)
LEMMA SettingsTypes ==
    ASSUME RouteInv, [Next]_vars
    PROVE  /\ enabled' \in BOOLEAN /\ fallback' \in BOOLEAN
           /\ undisturbed' \in BOOLEAN /\ permitted' \in BOOLEAN
<1>1. /\ enabled \in BOOLEAN /\ fallback \in BOOLEAN
      /\ undisturbed \in BOOLEAN /\ permitted \in BOOLEAN
  BY DEF RouteInv, RoutingTypeOK, choices
<1>2. ASSUME NEW h \in Handlers, NEW ok, Resumed(h, ok)
      PROVE  /\ enabled' \in BOOLEAN /\ fallback' \in BOOLEAN
             /\ undisturbed' \in BOOLEAN /\ permitted' \in BOOLEAN
  BY <1>1, <1>2 DEF Resumed
<1>3. RouteStep => UNCHANGED choices /\ (FinishDownload \/ UNCHANGED history)
  BY RouteStepRest
<1>4. FinishDownload => undisturbed' \in BOOLEAN /\ permitted' \in BOOLEAN
  BY DEF FinishDownload
<1>5. ASSUME NEW h \in Handlers
      PROVE  /\ \A op : Visit(h, op) => UNCHANGED <<choices, history>>
             /\ VisitorSends(h) => UNCHANGED <<choices, history>>
             /\ VisitorResumes(h) => \E ok : Resumed(h, ok)
  BY DEF Visit, VisitorSends, VisitorResumes
<1>6. DropResponse \/ ResumeDownloads => UNCHANGED <<choices, history>>
  BY DEF DropResponse, ResumeDownloads
<1>7. ChooseSettings \/ BeginDownload \/ GatewayWorks \/ InterruptDownload \/ ManageDownloads =>
         /\ enabled' \in BOOLEAN /\ fallback' \in BOOLEAN
         /\ undisturbed' \in BOOLEAN /\ permitted' \in BOOLEAN
  BY <1>1 DEF ChooseSettings, BeginDownload, MayGoDirect, GatewayWorks, InterruptDownload,
              ManageDownloads, choices
<1> QED
  BY <1>1, <1>2, <1>3, <1>4, <1>5, <1>6, <1>7 DEF Next, vars, choices, history

(* The downloads, with the route that belongs to the current one.          *)
DownloadTypes ==
    /\ phase \in [Videos -> Download!Phases]
    /\ current \in Videos \union {NoVideo}
    /\ running \in BOOLEAN
    /\ current # NoVideo => running
    /\ route \in RouteTypes
    /\ route.pc \in Waits => route.call \in Calls
    /\ route = NoRoute <=> current = NoVideo

LEMMA DownloadStepTypes ==
    ASSUME RouteInv, [Next]_vars
    PROVE  DownloadTypes'
<1> USE RoutingAssumption, NoRouteIsARoute
<1>1. DownloadTypes
  BY DEF RouteInv, RoutingTypeOK, CallsAreNamed, DownloadTypes
<1>2. ASSUME UNCHANGED <<download, route>>
      PROVE  DownloadTypes'
  BY <1>1, <1>2 DEF DownloadTypes, download
<1>3. CASE RouteStep
  <2>1. CASE FinishDownload
    <3>1. /\ route' = NoRoute /\ current' = NoVideo /\ UNCHANGED running
          /\ phase' \in [Videos -> Download!Phases]
      BY <2>1 DEF FinishDownload, Download!End, Download!Lasting
    <3> QED
      BY <1>1, <3>1 DEF DownloadTypes, Waits
  <2>2. CASE ~FinishDownload
    <3>1. UNCHANGED <<phase, current, running>>
      BY <1>3, <2>2, RouteStepRest DEF download
    <3> QED
      BY <1>1, <1>3, <2>2, <3>1, RouteStepTypes DEF DownloadTypes
  <2> QED
    BY <2>1, <2>2
<1>4. CASE BeginDownload
  <2>1. PICK v \in Videos : Download!Begin(v)
    BY <1>4 DEF BeginDownload
  <2>2. /\ current' = v /\ running /\ running' = running
        /\ phase' = [phase EXCEPT ![v] = "active"]
    BY <2>1 DEF Download!Begin
  <2>3. phase' \in [Videos -> Download!Phases]
    BY <1>1, <2>2 DEF DownloadTypes, Download!Phases
  <2> DEFINE x == [NoRoute EXCEPT !.pc = "decide"]
  <2>4. x \in RouteTypes /\ x.pc = "decide"
    <3>1. "decide" \in Positions
      BY DEF Positions
    <3> QED
      BY <3>1, RouteGoes
  <2>5. route' = x
    BY <1>4 DEF BeginDownload
  <2> HIDE DEF x
  <2> QED
    BY <1>1, <2>2, <2>3, <2>4, <2>5 DEF DownloadTypes, Waits
<1>5. CASE InterruptDownload
  <2>1. route' = NoRoute /\ current' = NoVideo /\ running' = FALSE /\ UNCHANGED phase
    BY <1>5 DEF InterruptDownload, Download!Interrupt
  <2> QED
    BY <1>1, <2>1 DEF DownloadTypes, Waits
<1>6. CASE ManageDownloads
  <2>1. UNCHANGED <<route, current, running>> /\ phase' \in [Videos -> Download!Phases]
    BY <1>6 DEF ManageDownloads, Download!Manage, Download!Lasting, clients
  <2> QED
    BY <1>1, <2>1 DEF DownloadTypes
<1>7. CASE ResumeDownloads
  <2>1. /\ UNCHANGED <<route, current>> /\ running' = TRUE
        /\ phase' \in [Videos -> Download!Phases]
    BY <1>7 DEF ResumeDownloads, Download!Resume, Download!Lasting, clients
  <2> QED
    BY <1>1, <2>1 DEF DownloadTypes
<1>8. ASSUME NEW h \in Handlers,
             \/ \E op \in Ops \ {"failed_test", "untest"} : Visit(h, op)
             \/ VisitorSends(h) \/ VisitorResumes(h)
      PROVE  DownloadTypes'
  BY <1>2, <1>8, VisitTypes
<1>9. ChooseSettings \/ DropResponse \/ GatewayWorks => UNCHANGED <<download, route>>
  BY DEF ChooseSettings, DropResponse, GatewayWorks, clients
<1>10. UNCHANGED vars => UNCHANGED <<download, route>>
  BY DEF vars, clients
<1> QED
  BY <1>2, <1>3, <1>4, <1>5, <1>6, <1>7, <1>8, <1>9, <1>10 DEF Next

(* The handlers.                                                           *)
LEMMA HandlersStepTypes ==
    ASSUME RouteInv, [Next]_vars
    PROVE  /\ visitor' \in [Handlers -> Visits]
           /\ \A h \in Handlers : visitor'[h].pc = "awaiting" => visitor'[h].call \in Calls
<1> DEFINE Typed == /\ visitor \in [Handlers -> Visits]
                    /\ \A h \in Handlers : visitor[h].pc = "awaiting" => visitor[h].call \in Calls
<1>1. Typed
  BY DEF RouteInv, RoutingTypeOK, CallsAreNamed, Visits
<1>2. UNCHANGED visitor => Typed'
  BY <1>1
<1>3. RouteStep => UNCHANGED visitor
  BY RouteStepRest
<1>4. InterruptDownload => Typed'
  BY DEF InterruptDownload, NoVisit, Visits
<1>5. BeginDownload \/ ChooseSettings \/ DropResponse \/ GatewayWorks \/ ResumeDownloads
         \/ ManageDownloads => UNCHANGED visitor
  BY DEF BeginDownload, ChooseSettings, DropResponse, GatewayWorks, ResumeDownloads,
         ManageDownloads, clients
<1>6. UNCHANGED vars => UNCHANGED visitor
  BY DEF vars, clients
<1>7. ASSUME NEW h \in Handlers,
             \/ \E op \in Ops \ {"failed_test", "untest"} : Visit(h, op)
             \/ VisitorSends(h) \/ VisitorResumes(h)
      PROVE  Typed'
  BY <1>7, VisitTypes
<1> QED
  BY <1>2, <1>3, <1>4, <1>5, <1>6, <1>7 DEF Next

LEMMA RouteInvStep ==
    ASSUME RouteInv, [Next]_vars
    PROVE  RouteInv'
<1>1. GatewayTypeOK'
  BY GatewayIsDriven, GatewayTypesStep DEF RouteInv, RoutingTypeOK
<1>2. (choices \in BOOLEAN \X BOOLEAN)' /\ (undisturbed \in BOOLEAN)' /\ (permitted \in BOOLEAN)'
  BY SettingsTypes DEF choices
<1>3. DownloadTypes'
  BY DownloadStepTypes
<1>4. /\ (visitor \in [Handlers -> Visits])'
      /\ (\A h \in Handlers : visitor[h].pc = "awaiting" => visitor[h].call \in Calls)'
  BY HandlersStepTypes
<1> QED
  BY <1>1, <1>2, <1>3, <1>4 DEF RouteInv, RoutingTypeOK, CallsAreNamed, DownloadTypes, Visits

LEMMA RouteInvInit == Init => RouteInv
<1> SUFFICES ASSUME Init PROVE RouteInv
  OBVIOUS
<1>1. GatewayTypeOK
  BY GatewayAssumption DEF Init, GatewayInit, GatewayTypeOK, Records, NoTunnel, IdleCall, Places
<1>2. /\ choices \in BOOLEAN \X BOOLEAN
      /\ undisturbed \in BOOLEAN /\ permitted \in BOOLEAN
  BY DEF Init, choices
<1>3. /\ phase \in [Videos -> Download!Phases] /\ current = NoVideo /\ running \in BOOLEAN
      /\ route = NoRoute
  BY DEF Init, Download!Init
<1>4. visitor \in [Handlers -> Visits] /\ \A h \in Handlers : visitor[h].pc = "idle"
  BY DEF Init, NoVisit, Visits
<1> QED
  BY <1>1, <1>2, <1>3, <1>4, NoRouteIsARoute
  DEF RouteInv, RoutingTypeOK, CallsAreNamed, Waits, Visits

LEMMA RouteInvAlways == Spec => []RouteInv
<1>1. RouteInv /\ [Next]_vars => RouteInv'
  BY RouteInvStep
<1> QED
  BY <1>1, RouteInvInit, PTL DEF Spec

(* Every variable has its type, and download_with_vpn runs exactly while a *)
(* download is current, through interruptions and deleted rows.            *)
THEOREM RoutingTypeCorrect == Spec => []RoutingTypeOK
<1>1. RouteInv => RoutingTypeOK
  BY DEF RouteInv
<1> QED
  BY <1>1, RouteInvAlways, PTL

-----------------------------------------------------------------------------
(* Direct downloads.                                                       *)

(* Whatever leads to a direct attempt was allowed when it was read, and    *)
(* the settings of now count for the download of now.                      *)
PermitInv ==
    /\ route.pc = "direct" => permitted
    /\ route.fallback => permitted
    /\ route.then = "direct" => permitted
    /\ route # NoRoute /\ MayGoDirect => permitted

LEMMA PermitInvOfRoute ==
    ASSUME RouteInv, PermitInv, RouteStep, ~FinishDownload
    PROVE  /\ route'.pc = "direct" => permitted
           /\ route'.fallback => permitted
           /\ route'.then = "direct" => permitted
<1> USE DEF PermitInv
<1>t. route \in RouteTypes /\ route # NoRoute
  BY RouteStepTypes DEF RouteInv, RoutingTypeOK
<1>1. CASE ReadEnabled
  <2>1. CASE enabled
    BY <1>1, <1>t, <2>1 DEF ReadEnabled, RouteTypes
  <2>2. CASE ~enabled
    BY <1>1, <1>t, <2>2 DEF ReadEnabled, RouteTypes, MayGoDirect
  <2> QED
    BY <2>1, <2>2
<1>2. CASE ChooseProfile
  <2>1. CASE fallback
    BY <1>2, <1>t, <2>1 DEF ChooseProfile, RouteTypes, MayGoDirect
  <2>2. CASE ~fallback
    BY <1>2, <1>t, <2>2 DEF ChooseProfile, Without, RouteTypes
  <2> QED
    BY <2>1, <2>2
<1>3. CASE ConnectFails
  BY <1>3, <1>t DEF ConnectFails, Without, RouteTypes
<1>4. CASE ProxiedEnds
  BY <1>4, <1>t DEF ProxiedEnds, Without, RouteTypes
<1>5. CASE Closed
  BY <1>5, <1>t DEF Closed, RouteTypes
<1>6. CASE SendConnect \/ Connected \/ SendDisconnect \/ DirectEnds
  BY <1>6, <1>t DEF SendConnect, Connected, SendDisconnect, DirectEnds, RouteTypes
<1> QED
  BY <1>1, <1>2, <1>3, <1>4, <1>5, <1>6 DEF RouteStep

LEMMA PermitInvStep ==
    ASSUME RouteInv, PermitInv, [Next]_vars
    PROVE  PermitInv'
<1>n. ~NoRoute.fallback /\ NoRoute.then # "direct" /\ NoRoute.pc = "none"
  BY DEF NoRoute
<1>1. ASSUME UNCHANGED <<choices, route, permitted>>
      PROVE  PermitInv'
  BY <1>1 DEF PermitInv, MayGoDirect, choices
<1>2. ASSUME route' = NoRoute
      PROVE  PermitInv'
  BY <1>n, <1>2 DEF PermitInv
<1>3. ASSUME UNCHANGED route, permitted' = (permitted \/ (route # NoRoute /\ MayGoDirect'))
      PROVE  PermitInv'
  BY <1>3 DEF PermitInv
<1>4. CASE RouteStep
  <2>1. CASE FinishDownload
    BY <1>2, <2>1 DEF FinishDownload
  <2>2. CASE ~FinishDownload
    <3>1. UNCHANGED <<choices, permitted>> /\ route # NoRoute
      BY <1>4, <2>2, RouteStepRest, RouteStepTypes DEF history
    <3>2. MayGoDirect' = MayGoDirect
      BY <3>1 DEF MayGoDirect, choices
    <3> QED
      BY <1>4, <2>2, <3>1, <3>2, PermitInvOfRoute DEF PermitInv
  <2> QED
    BY <2>1, <2>2
<1>5. CASE BeginDownload
  <2>1. /\ route' = [NoRoute EXCEPT !.pc = "decide"]
        /\ permitted' = MayGoDirect /\ UNCHANGED choices
    BY <1>5 DEF BeginDownload
  <2>2. ~route'.fallback /\ route'.then # "direct" /\ route'.pc = "decide"
    BY <2>1 DEF NoRoute
  <2> QED
    BY <2>1, <2>2 DEF PermitInv, MayGoDirect, choices
<1>6. CASE InterruptDownload
  BY <1>2, <1>6 DEF InterruptDownload
<1>7. CASE ChooseSettings
  BY <1>3, <1>7 DEF ChooseSettings, clients
<1>8. ManageDownloads \/ ResumeDownloads \/ DropResponse \/ GatewayWorks
         => UNCHANGED <<choices, route, permitted>>
  BY DEF ManageDownloads, ResumeDownloads, DropResponse, GatewayWorks, clients, history
<1>9. ASSUME NEW h \in Handlers, VisitorResumes(h)
      PROVE  PermitInv'
  BY <1>3, <1>9 DEF VisitorResumes, Resumed
<1>10. ASSUME NEW h \in Handlers
       PROVE  VisitorSends(h) \/ (\E op \in Ops \ {"failed_test", "untest"} : Visit(h, op))
                  => UNCHANGED <<choices, route, permitted>>
  BY DEF VisitorSends, Visit, history
<1>11. UNCHANGED vars => UNCHANGED <<choices, route, permitted>>
  BY DEF vars, clients, history
<1> QED
  BY <1>1, <1>4, <1>5, <1>6, <1>7, <1>8, <1>9, <1>10, <1>11 DEF Next

(* With the VPN on and the fallback off since before a download began, it  *)
(* is not downloaded directly, whatever fails, times out or is clicked.    *)
THEOREM NoUnwantedDirectDownload == Spec => []NeverDirectWhenForbidden
<1>1. Init => PermitInv
  BY DEF Init, PermitInv, NoRoute
<1>2. RouteInv /\ PermitInv /\ [Next]_vars => PermitInv'
  BY PermitInvStep
<1>3. PermitInv => NeverDirectWhenForbidden
  BY DEF PermitInv, NeverDirectWhenForbidden
<1> QED
  BY <1>1, <1>2, <1>3, RouteInvAlways, PTL DEF Spec

-----------------------------------------------------------------------------
(* The tunnel of a transfer.                                               *)

AllIdle == \A c \in Calls : At(c, "idle")

(* The gateway has no call but the download's own, which, once it has its  *)
(* result, has left its tunnel up and in the record.                       *)
OwnCallOnly ==
    /\ \A c \in Calls \ {route.call} : At(c, "idle")
    /\ call[route.call].op = "connect"
    /\ At(route.call, "listening") => route.call \in processes
    /\ At(route.call, "done") /\ call[route.call].ok
          => /\ TunnelIsUp(route.call)
             /\ record.connected /\ record.workdir = route.call

(* What an undisturbed download relies on, from its beginning on.          *)
UndisturbedInv ==
    undisturbed =>
        /\ current \in Videos /\ phase[current] = "active"
        /\ \A h \in Handlers : visitor[h] = NoVisit
        /\ route.pc \in {"decide", "choose", "connect", "proxied"} => AllIdle
        /\ route.pc = "connecting" => OwnCallOnly
        /\ TransferHasItsTunnel

(* The step of its thread.                                                 *)
LEMMA OwnCallStep ==
    ASSUME RouteInv, TunnelInv, OwnCallOnly, route.pc = "connecting",
           GatewayStep, restarts' = restarts, ~OwnOpenvpnExits, UNCHANGED route
    PROVE  OwnCallOnly'
<1> DEFINE own == route.call
<1>1. /\ own \in Calls /\ restarts \in Nat
      /\ call \in [Calls -> [op : {"none", "connect", "disconnect"}, pc : Places, ok : BOOLEAN]]
      /\ record \in Records
  BY DEF RouteInv, RoutingTypeOK, CallsAreNamed, Waits, GatewayTypeOK
<1>2. /\ At(own, "listening") => record.workdir = own
      /\ At(own, "raising") => record.workdir = own
  BY <1>1, GatewayAssumption DEF TunnelInv, RecordInv
<1>3. ~GatewayRestarts
  BY <1>1 DEF GatewayRestarts
<1>4. ASSUME OpenvpnExits
      PROVE  OwnCallOnly'
  <2>1. own \in processes => own \in processes'
    BY <1>4 DEF OwnOpenvpnExits
  <2>2. UNCHANGED <<call, record, interface>>
    BY <1>4 DEF OpenvpnExits
  <2> QED
    BY <2>1, <2>2 DEF OwnCallOnly, At, TunnelIsUp
<1>5. ASSUME NEW c \in Calls, Acquire(c) \/ ThreadStep(c)
      PROVE  c = own
  BY <1>5 DEF OwnCallOnly, Acquire, ThreadStep, Disconnect, ReplaceTunnel, Reject,
              StartOpenvpn, OpenvpnIsReady, OpenvpnFails, StartWireguard, WireguardIsUp,
              WireguardFails, At
<1>6. ASSUME NEW place, place # "done", GoTo(own, place),
             place = "listening" => own \in processes'
      PROVE  OwnCallOnly'
  BY <1>1, <1>6 DEF GoTo, OwnCallOnly, At
<1>7. ASSUME Release(own, FALSE)
      PROVE  OwnCallOnly'
  BY <1>1, <1>7 DEF Release, OwnCallOnly, At
<1>8. ASSUME Release(own, TRUE), record' = [record EXCEPT !.connected = TRUE],
             record.workdir = own, TunnelIsUp(own)'
      PROVE  OwnCallOnly'
  <2>1. record'.connected /\ record'.workdir = own
    BY <1>1, <1>8 DEF Records
  <2> QED
    BY <1>1, <1>8, <2>1 DEF Release, OwnCallOnly, At, TunnelIsUp
<1>9. Acquire(own) \/ ReplaceTunnel(own) \/ StartOpenvpn(own) \/ StartWireguard(own)
         => OwnCallOnly'
  BY <1>6 DEF Acquire, ReplaceTunnel, StartOpenvpn, StartWireguard
<1>10. Reject(own) \/ OpenvpnFails(own) \/ WireguardFails(own) => OwnCallOnly'
  BY <1>7 DEF Reject, OpenvpnFails, WireguardFails
<1>11. OpenvpnIsReady(own) \/ WireguardIsUp(own) => OwnCallOnly'
  BY <1>2, <1>8 DEF OpenvpnIsReady, WireguardIsUp, TunnelIsUp, OwnCallOnly
<1>12. ~Disconnect(own)
  BY DEF Disconnect, OwnCallOnly
<1> QED
  BY <1>3, <1>4, <1>5, <1>9, <1>10, <1>11, <1>12 DEF GatewayStep, ThreadStep

(* With no call at the gateway, it does nothing to its record.             *)
LEMMA IdleGatewayStep ==
    ASSUME RouteInv, AllIdle, GatewayStep, restarts' = restarts,
           ~OwnOpenvpnExits, UNCHANGED route
    PROVE  /\ UNCHANGED <<call, record>>
           /\ TunnelIsUp(route.call) => TunnelIsUp(route.call)'
<1>1. restarts \in Nat
  BY DEF RouteInv, RoutingTypeOK, GatewayTypeOK
<1>2. ~GatewayRestarts
  BY <1>1 DEF GatewayRestarts
<1>3. ASSUME NEW c \in Calls
      PROVE  ~(Acquire(c) \/ ThreadStep(c))
  BY DEF AllIdle, Acquire, ThreadStep, Disconnect, ReplaceTunnel, Reject,
         StartOpenvpn, OpenvpnIsReady, OpenvpnFails, StartWireguard, WireguardIsUp,
         WireguardFails, At
<1> QED
  BY <1>2, <1>3 DEF GatewayStep, OpenvpnExits, OwnOpenvpnExits, TunnelIsUp

(* The download's own steps.                                               *)
LEMMA UndisturbedRouteStep ==
    ASSUME RouteInv, UndisturbedInv, undisturbed, RouteStep, ~FinishDownload
    PROVE  UndisturbedInv'
<1>t. /\ route \in RouteTypes
      /\ call \in [Calls -> [op : {"none", "connect", "disconnect"}, pc : Places, ok : BOOLEAN]]
  BY DEF RouteInv, RoutingTypeOK, GatewayTypeOK
<1>r. UNCHANGED <<phase, current, visitor>>
  BY RouteStepRest DEF download
<1>u. ASSUME route'.pc \notin {"decide", "choose", "connect", "connecting", "proxied"}
      PROVE  UndisturbedInv'
  BY <1>r, <1>u DEF UndisturbedInv, TransferHasItsTunnel
<1>i. ASSUME AllIdle', route'.pc \in {"choose", "connect"}
      PROVE  UndisturbedInv'
  BY <1>r, <1>i DEF UndisturbedInv, TransferHasItsTunnel
<1>1. CASE ReadEnabled
  <2>1. route.pc = "decide" /\ UNCHANGED gateway /\ route'.pc \in {"choose", "direct"}
    BY <1>1, <1>t DEF ReadEnabled, RouteTypes
  <2>2. AllIdle'
    BY <2>1 DEF UndisturbedInv, AllIdle, At, gateway
  <2> QED
    BY <1>i, <1>u, <2>1, <2>2
<1>2. CASE ChooseProfile
  <2>1. /\ route.pc = "choose" /\ UNCHANGED gateway
        /\ route'.pc \in {"connect", "direct", "ended"}
    BY <1>2, <1>t DEF ChooseProfile, Without, RouteTypes
  <2>2. AllIdle'
    BY <2>1 DEF UndisturbedInv, AllIdle, At, gateway
  <2> QED
    BY <1>i, <1>u, <2>1, <2>2
<1>3. CASE SendConnect
  <2>1. PICK c \in Calls : /\ route.pc = "connect" /\ Receive(c, "connect")
                           /\ route' = [route EXCEPT !.pc = "connecting", !.call = c]
    BY <1>3 DEF SendConnect, Sent
  <2>2. route'.pc = "connecting" /\ route'.call = c
    BY <1>t, <2>1 DEF RouteTypes
  <2>3. AllIdle
    BY <2>1 DEF UndisturbedInv
  <2>4. OwnCallOnly'
    BY <1>t, <2>1, <2>2, <2>3 DEF OwnCallOnly, Receive, AllIdle, At
  <2> QED
    BY <1>r, <2>2, <2>4 DEF UndisturbedInv, TransferHasItsTunnel
<1>4. CASE Connected
  <2>1. /\ route.pc = "connecting" /\ route' = [route EXCEPT !.pc = "proxied"]
        /\ At(route.call, "done") /\ call[route.call].ok = TRUE /\ Respond(route.call)
    BY <1>4 DEF Connected, Answered
  <2>2. route'.pc = "proxied" /\ route'.call = route.call
    BY <1>t, <2>1 DEF RouteTypes
  <2>3. OwnCallOnly
    BY <2>1 DEF UndisturbedInv
  <2>4. AllIdle'
    BY <1>t, <2>1, <2>3 DEF OwnCallOnly, Respond, IdleCall, AllIdle, At
  <2>5. TransferHasItsTunnel'
    BY <2>1, <2>2, <2>3 DEF OwnCallOnly, Respond, tunnel, TransferHasItsTunnel, TunnelIsUp
  <2> QED
    BY <1>r, <2>2, <2>4, <2>5 DEF UndisturbedInv
<1>5. CASE ConnectFails \/ ProxiedEnds \/ SendDisconnect \/ Closed \/ DirectEnds
  <2>1. route'.pc \in {"direct", "ended", "disconnect", "closing"}
    BY <1>5, <1>t DEF ConnectFails, ProxiedEnds, SendDisconnect, Closed, DirectEnds,
                      Without, RouteTypes
  <2> QED
    BY <1>u, <2>1
<1> QED
  BY <1>1, <1>2, <1>3, <1>4, <1>5 DEF RouteStep

(* Every step keeps what it relies on, or ends the history.                *)
LEMMA UndisturbedStep ==
    ASSUME RouteInv, TunnelInv, UndisturbedInv, [Next]_vars
    PROVE  UndisturbedInv'
<1> SUFFICES ASSUME undisturbed' PROVE UndisturbedInv'
  BY DEF UndisturbedInv
<1>s. ASSUME undisturbed, UNCHANGED <<phase, current, route, visitor, gateway>>
      PROVE  UndisturbedInv'
  BY <1>s DEF UndisturbedInv, AllIdle, OwnCallOnly, At, TransferHasItsTunnel, TunnelIsUp,
              gateway, tunnel
<1>p. undisturbed => InProgress
  BY DEF UndisturbedInv, InProgress
<1>v. undisturbed => \A h \in Handlers : visitor[h].pc = "idle"
  BY DEF UndisturbedInv, NoVisit
<1>1. CASE RouteStep
  <2>1. ~FinishDownload /\ undisturbed
    BY <1>1, RouteStepRest DEF FinishDownload, history
  <2> QED
    BY <1>1, <2>1, UndisturbedRouteStep
<1>2. CASE BeginDownload
  <2>1. PICK v \in Videos : Download!Begin(v)
    BY <1>2 DEF BeginDownload
  <2>2. current' = v /\ phase'[v] = "active"
    BY <2>1 DEF Download!Begin, RouteInv, RoutingTypeOK
  <2>3. route'.pc = "decide"
    BY <1>2 DEF BeginDownload, NoRoute
  <2>4. AllIdle' /\ \A h \in Handlers : visitor'[h] = NoVisit
    BY <1>2 DEF BeginDownload, AllIdle, At, gateway
  <2> QED
    BY <2>2, <2>3, <2>4 DEF UndisturbedInv, TransferHasItsTunnel
<1>3. CASE InterruptDownload
  BY <1>3 DEF InterruptDownload
<1>4. CASE ManageDownloads
  <2>1. /\ undisturbed /\ phase'[current] = phase[current]
        /\ UNCHANGED <<current, route, visitor, gateway>>
    BY <1>4 DEF ManageDownloads, Download!Manage, clients
  <2> QED
    BY <2>1 DEF UndisturbedInv, AllIdle, OwnCallOnly, At, TransferHasItsTunnel, TunnelIsUp,
                gateway, tunnel
<1>5. CASE ResumeDownloads
  <2>1. ~running /\ undisturbed
    BY <1>5 DEF ResumeDownloads, Download!Resume, history
  <2>2. current \in Videos
    BY <2>1 DEF UndisturbedInv
  <2> QED
    BY <2>1, <2>2, RoutingAssumption DEF RouteInv
<1>6. CASE ChooseSettings
  BY <1>6, <1>s DEF ChooseSettings, download, clients
<1>7. CASE DropResponse
  <2>1. undisturbed /\ UNCHANGED <<phase, current, route, visitor, tunnel>>
    BY <1>7 DEF DropResponse, Respond, download, clients, history
  <2>2. PICK c \in Calls \ Awaited : Respond(c)
    BY <1>7 DEF DropResponse
  <2>3. c # route.call /\ ~At(c, "idle")
    BY <2>2 DEF Awaited, Respond, At
  <2>4. ~AllIdle /\ ~OwnCallOnly
    BY <2>2, <2>3 DEF AllIdle, OwnCallOnly
  <2> QED
    BY <2>1, <2>4 DEF UndisturbedInv, TransferHasItsTunnel, TunnelIsUp, tunnel
<1>8. CASE GatewayWorks
  <2>1. /\ GatewayStep /\ undisturbed /\ restarts' = restarts /\ ~OwnOpenvpnExits
        /\ UNCHANGED <<phase, current, route, visitor>>
    BY <1>8 DEF GatewayWorks, download, clients
  <2>2. CASE route.pc = "connecting"
    BY <2>1, <2>2, OwnCallStep DEF UndisturbedInv, TransferHasItsTunnel
  <2>3. CASE route.pc \in {"decide", "choose", "connect", "proxied"}
    <3>1. AllIdle
      BY <2>1, <2>3 DEF UndisturbedInv
    <3> QED
      BY <2>1, <2>3, <3>1, IdleGatewayStep DEF UndisturbedInv, AllIdle, At, TransferHasItsTunnel
  <2>4. CASE route.pc \notin {"decide", "choose", "connect", "proxied", "connecting"}
    BY <2>1, <2>4 DEF UndisturbedInv, TransferHasItsTunnel
  <2> QED
    BY <2>2, <2>3, <2>4
<1>9. ASSUME NEW h \in Handlers,
             \/ \E op \in Ops \ {"failed_test", "untest"} : Visit(h, op)
             \/ VisitorSends(h) \/ VisitorResumes(h)
      PROVE  FALSE
  <2>1. undisturbed
    BY <1>9, VisitTypes
  <2> QED
    BY <1>9, <1>p, <1>v, <2>1 DEF Visit, VisitorSends, VisitorResumes
<1>10. CASE UNCHANGED vars
  BY <1>10, <1>s DEF vars, download, clients, history
<1> QED
  BY <1>1, <1>2, <1>3, <1>4, <1>5, <1>6, <1>7, <1>8, <1>9, <1>10 DEF Next

(* While wg0 can be taken down, a transfer that no handler's question      *)
(* missed has the process or the interface of its own call, and the record *)
(* of it, from the response to the end, unless OpenVPN exits by itself or  *)
(* the gateway's container restarts: no thread of the gateway, timeout or  *)
(* abandoned call takes it away.                                           *)
THEOREM UndisturbedTransfersAreTunnelled ==
    ASSUME WgReliable
    PROVE  Spec => []UndisturbedHasItsTunnel
<1>1. Init => TunnelInv
  BY GatewayAssumption
  DEF Init, GatewayInit, TunnelInv, TunnelIsRecorded, RecordInv, NoTunnel, IdleCall, At
<1>2. RouteInv /\ TunnelInv /\ [Next]_vars => TunnelInv'
  BY GatewayIsDriven, TunnelStep DEF RouteInv, RoutingTypeOK
<1>3. Init => UndisturbedInv
  BY DEF Init, UndisturbedInv
<1>4. RouteInv /\ TunnelInv /\ UndisturbedInv /\ [Next]_vars => UndisturbedInv'
  BY UndisturbedStep
<1>5. UndisturbedInv => UndisturbedHasItsTunnel
  BY DEF UndisturbedInv, UndisturbedHasItsTunnel
<1> QED
  BY <1>1, <1>2, <1>3, <1>4, <1>5, RouteInvAlways, PTL DEF Spec
-----------------------------------------------------------------------------
(* What the gateway and the download service see of it all.                *)

(* Whoever calls it, in whatever order, after whatever timeouts, the       *)
(* gateway is used as its own specification allows: every behaviour of the *)
(* application with it is a behaviour of VpnGateway.                       *)
THEOREM RoutingUsesTheGateway == Spec => GatewaySpec
<1>1. Init => GatewayInit
  BY DEF Init
<1>2. RouteInv /\ [Next]_vars => [GatewayNext]_gateway
  BY GatewayIsDriven
<1> QED
  BY <1>1, <1>2, RouteInvAlways, PTL DEF Spec, GatewaySpec

(* So what is proved of the gateway holds under the application: as long   *)
(* as wg0 can be taken down, nothing runs that the record does not name,   *)
(* and there is one tunnel at most, under abandoned calls too.             *)
THEOREM TheGatewayInUseHasOneTunnel ==
    ASSUME WgReliable
    PROVE  Spec => [](TunnelIsRecorded /\ OneTunnel)
BY RoutingUsesTheGateway, GatewayForgetsNothing, GatewayHasOneTunnel, PTL

(* Routing is a download service still: it begins, ends and interrupts     *)
(* downloads as the queue does, and marks no video of its own.             *)
THEOREM RoutingIsADownloadService == Spec => Download!Spec
<1>1. Init => Download!Init
  BY DEF Init
<1>2. ASSUME RouteInv, [Next]_vars
      PROVE  [Download!Next]_<<phase, current, running>>
  <2>1. FinishDownload => Download!Next
    <3> SUFFICES ASSUME FinishDownload PROVE Download!Next
      OBVIOUS
    <3>1. current \in Videos
      BY <1>2 DEF RouteInv, RoutingTypeOK, FinishDownload, NoRoute
    <3> QED
      BY <3>1 DEF FinishDownload, Download!Next
  <2>2. RouteStep => FinishDownload \/ UNCHANGED download
    BY DEF RouteStep, ReadEnabled, ChooseProfile, SendConnect, Connected, ConnectFails,
           ProxiedEnds, SendDisconnect, Closed, DirectEnds
  <2>3. \A h \in Handlers :
           /\ \A op : Visit(h, op) => UNCHANGED download
           /\ VisitorSends(h) => UNCHANGED download
           /\ VisitorResumes(h) => UNCHANGED download
    BY DEF Visit, VisitorSends, VisitorResumes, Resumed
  <2>4. ChooseSettings \/ DropResponse \/ GatewayWorks => UNCHANGED download
    BY DEF ChooseSettings, DropResponse, GatewayWorks
  <2>5. BeginDownload \/ InterruptDownload \/ ManageDownloads \/ ResumeDownloads
           => Download!Next
    BY DEF BeginDownload, InterruptDownload, ManageDownloads, ResumeDownloads,
           Download!Next
  <2>6. UNCHANGED vars => UNCHANGED download
    BY DEF vars
  <2> QED
    BY <1>2, <2>1, <2>2, <2>3, <2>4, <2>5, <2>6 DEF Next, download
<1> QED
  BY <1>1, <1>2, RouteInvAlways, PTL DEF Spec, Download!Spec

(* In a download service that runs, only the current video is marked; in   *)
(* one that was interrupted, at most one is.                               *)
OnlyCurrentIsActive ==
    /\ \A v \in Videos : running /\ phase[v] = "active" => v = current
    /\ \A v, w \in Videos : phase[v] = "active" /\ phase[w] = "active" => v = w

(* Every download service keeps it, the queue's among them: the handlers'  *)
(* question, whether a row is DOWNLOADING, is about the current download.  *)
THEOREM ServicesAreSerial == Download!Spec => []OnlyCurrentIsActive
<1> USE DEF OnlyCurrentIsActive
<1>1. Download!Init => OnlyCurrentIsActive
  BY DEF Download!Init
<1>2. ASSUME OnlyCurrentIsActive, [Download!Next]_<<phase, current, running>>
      PROVE  OnlyCurrentIsActive'
  <2>1. ASSUME NEW v \in Videos, Download!Begin(v)
        PROVE  OnlyCurrentIsActive'
    <3>1. \A w \in Videos : phase'[w] = "active" => w = v
      BY <2>1 DEF Download!Begin, Download!NoneActive
    <3> QED
      BY <2>1, <3>1 DEF Download!Begin
  <2>2. ASSUME NEW v \in Videos, Download!End(v)
        PROVE  OnlyCurrentIsActive'
    BY <2>2 DEF Download!End, Download!NoneActive
  <2>3. CASE Download!Interrupt
    BY <1>2, <2>3 DEF Download!Interrupt
  <2>4. CASE Download!Resume
    BY <2>4 DEF Download!Resume, Download!NoneActive
  <2>5. CASE Download!Manage
    BY <1>2, <2>5 DEF Download!Manage
  <2>6. CASE UNCHANGED <<phase, current, running>>
    BY <1>2, <2>6
  <2> QED
    BY <1>2, <2>1, <2>2, <2>3, <2>4, <2>5, <2>6 DEF Download!Next
<1> QED
  BY <1>1, <1>2, PTL DEF Download!Spec
=============================================================================
