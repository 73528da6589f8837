------------------------------ MODULE VpnGateway ------------------------------
(***************************************************************************)
(* The VPN gateway (src/vpn-gateway/server.py): an HTTP server with one    *)
(* thread per request and one tunnel, an OpenVPN process or the WireGuard  *)
(* interface wg0.  /connect replaces the tunnel and /disconnect takes it   *)
(* down; each holds the one lock from its clean-up to its result, so the   *)
(* requests queue up, in no order, behind one that waits for a server far  *)
(* away.                                                                   *)
(*                                                                         *)
(* A call is a request with its thread.  The tunnel a call builds is named *)
(* after the call.                                                         *)
(***************************************************************************)
EXTENDS Integers, FiniteSets

CONSTANTS
    Calls,            \* requests that can be at the gateway at once
    NoCall,
    WgReliable,       \* whether nothing can keep wg0 up: wg-quick down never
                      \* fails, and a restart starts in a new namespace
    MaxGatewayRestarts \* bound: container restarts

ASSUME GatewayAssumption ==
    /\ NoCall \notin Calls
    /\ MaxGatewayRestarts \in Nat
    /\ WgReliable \in BOOLEAN

VARIABLES
    lock,        \* the call whose thread holds _lock
    call,        \* call -> [op, pc, ok]: its path, where its thread is, its result
    record,      \* _state
    processes,   \* OpenVPN processes that are alive, by the call that began them
    interface,   \* the call that brought wg0 up
    restarts

tunnel  == <<record, processes, interface>>
gateway == <<lock, call, tunnel, restarts>>

NoTunnel == [connected |-> FALSE, type |-> "none", workdir |-> NoCall, proc |-> NoCall]

IdleCall == [op |-> "none", pc |-> "idle", ok |-> FALSE]

GatewayInit ==
    /\ lock = NoCall
    /\ call = [c \in Calls |-> IdleCall]
    /\ record = NoTunnel
    /\ processes = {}
    /\ interface = NoCall
    /\ restarts = 0

-----------------------------------------------------------------------------
(* Steps of a thread.                                                      *)

At(c, place) == call[c].pc = place

GoTo(c, place) == call' = [call EXCEPT ![c].pc = place]

(* A call's name is free again once nothing of its tunnel is left.         *)
Unused(c) ==
    At(c, "idle") /\ c \notin processes \union {interface, record.workdir}

(* What may be left of wg0 after an attempt to take it down.               *)
AfterDown(iface) == IF WgReliable THEN {NoCall} ELSE {NoCall, iface}

(* Faulty variant: the process is forgotten and left running.              *)
CleanupForgets ==
    /\ UNCHANGED processes
    /\ interface' \in IF record.type = "wireguard" THEN AfterDown(interface)
                      ELSE {interface}
    /\ record' = NoTunnel

(* Faulty variant: the record is left as it is.                            *)
CleanupKeepsRecord ==
    /\ processes' = processes \ {record.proc}
    /\ interface' \in IF record.type = "wireguard" THEN AfterDown(interface)
                      ELSE {interface}
    /\ UNCHANGED record

(* _cleanup_locked: the process is terminated and waited for, wg0 is taken *)
(* down when the record says WireGuard, whether that works or not, and the *)
(* record is reset.                                                        *)
Cleanup ==
    /\ processes' = processes \ {record.proc}
    /\ interface' \in IF record.type = "wireguard" THEN AfterDown(interface)
                      ELSE {interface}
    /\ record' = NoTunnel

(* The lock is released and the response is sent.                          *)
Release(c, ok) ==
    /\ lock' = NoCall
    /\ call' = [call EXCEPT ![c].pc = "done", ![c].ok = ok]

Receive(c, op) ==
    /\ Unused(c)
    /\ call' = [call EXCEPT ![c] = [op |-> op, pc |-> "waiting", ok |-> FALSE]]
    /\ UNCHANGED <<lock, tunnel, restarts>>

(* Faulty variant: the lock is not looked at.                              *)
AcquireHeld(c) ==
    /\ At(c, "waiting")
    /\ lock' = c
    /\ GoTo(c, "cleaning")
    /\ UNCHANGED <<tunnel, restarts>>

Acquire(c) ==
    /\ At(c, "waiting") /\ lock = NoCall
    /\ lock' = c
    /\ GoTo(c, "cleaning")
    /\ UNCHANGED <<tunnel, restarts>>

Disconnect(c) ==
    /\ At(c, "cleaning") /\ call[c].op = "disconnect"
    /\ Cleanup /\ Release(c, TRUE)
    /\ UNCHANGED restarts

(* connect_request: the old tunnel goes before the new one is looked at.   *)
ReplaceTunnel(c) ==
    /\ At(c, "cleaning") /\ call[c].op = "connect"
    /\ Cleanup
    /\ GoTo(c, "configuring")
    /\ UNCHANGED <<lock, restarts>>

(* An unknown type, a configuration that is refused, a file that cannot be *)
(* written, a program that does not start.                                 *)
Reject(c) ==
    /\ At(c, "configuring")
    /\ Release(c, FALSE)
    /\ UNCHANGED <<tunnel, restarts>>

StartOpenvpn(c) ==
    /\ At(c, "configuring")
    /\ processes' = processes \union {c}
    /\ record' = [connected |-> FALSE, type |-> "openvpn", workdir |-> c, proc |-> c]
    /\ GoTo(c, "listening")
    /\ UNCHANGED <<lock, interface, restarts>>

(* _wait_for_openvpn reads "Initialization Sequence Completed", perhaps    *)
(* from a process that has exited since.                                   *)
OpenvpnIsReady(c) ==
    /\ At(c, "listening")
    /\ record' = [record EXCEPT !.connected = TRUE]
    /\ Release(c, TRUE)
    /\ UNCHANGED <<processes, interface, restarts>>

(* Faulty variant: it is tried again, with the lock still held.            *)
OpenvpnFailsAndRetries(c) ==
    /\ At(c, "listening")
    /\ Cleanup
    /\ GoTo(c, "configuring")
    /\ UNCHANGED <<lock, restarts>>

(* It reads a TLS or authentication failure, the end of the output, or,    *)
(* past the deadline, any line at all.  While OpenVPN prints nothing,      *)
(* readline does not return and the deadline is not looked at.             *)
OpenvpnFails(c) ==
    /\ At(c, "listening")
    /\ Cleanup /\ Release(c, FALSE)
    /\ UNCHANGED restarts

(* The record comes before `wg-quick up`.                                  *)
StartWireguard(c) ==
    /\ At(c, "configuring")
    /\ record' = [connected |-> FALSE, type |-> "wireguard",
                  workdir |-> c, proc |-> NoCall]
    /\ GoTo(c, "raising")
    /\ UNCHANGED <<lock, processes, interface, restarts>>

(* `wg-quick up`, then `wg show`.                                          *)
WireguardIsUp(c) ==
    /\ At(c, "raising") /\ interface = NoCall
    /\ interface' = c
    /\ record' = [record EXCEPT !.connected = TRUE]
    /\ Release(c, TRUE)
    /\ UNCHANGED <<processes, restarts>>

(* It fails, also because wg0 exists, or times out with wg0 up or not, or  *)
(* `wg show` does; then the clean-up.                                      *)
WireguardFails(c) ==
    /\ At(c, "raising")
    /\ interface' \in AfterDown(IF interface = NoCall THEN c ELSE interface)
    /\ record' = NoTunnel
    /\ Release(c, FALSE)
    /\ UNCHANGED <<processes, restarts>>

(* The response is written, or the client has gone.                        *)
Respond(c) ==
    /\ At(c, "done")
    /\ call' = [call EXCEPT ![c] = IdleCall]
    /\ UNCHANGED <<lock, tunnel, restarts>>

-----------------------------------------------------------------------------
(* What happens to the gateway.                                            *)

OpenvpnExits ==
    /\ \E c \in processes : processes' = processes \ {c}
    /\ UNCHANGED <<lock, call, record, interface, restarts>>

(* The container is stopped and started: threads and processes are gone.   *)
GatewayRestarts ==
    /\ restarts < MaxGatewayRestarts
    /\ restarts' = restarts + 1
    /\ lock' = NoCall
    /\ call' = [c \in Calls |-> IdleCall]
    /\ record' = NoTunnel
    /\ processes' = {}
    /\ interface' \in AfterDown(interface)

ThreadStep(c) ==
    \/ Disconnect(c) \/ ReplaceTunnel(c) \/ Reject(c)
    \/ StartOpenvpn(c) \/ OpenvpnIsReady(c) \/ OpenvpnFails(c)
    \/ StartWireguard(c) \/ WireguardIsUp(c) \/ WireguardFails(c)

GatewayStep ==
    \/ \E c \in Calls : Acquire(c) \/ ThreadStep(c)
    \/ OpenvpnExits \/ GatewayRestarts

GatewayNext ==
    \/ GatewayStep
    \/ \E c \in Calls : Respond(c) \/ \E op \in {"connect", "disconnect"} : Receive(c, op)

GatewaySpec == GatewayInit /\ [][GatewayNext]_gateway

(* The lock is handed on without starvation, threads run, and OpenVPN      *)
(* prints something in the end: it gives up on a silent server by itself.  *)
GatewayFairness ==
    \A c \in Calls : /\ SF_gateway(Acquire(c))
                     /\ WF_gateway(ThreadStep(c))
                     /\ WF_gateway(Respond(c))

FairGatewaySpec == GatewaySpec /\ GatewayFairness

-----------------------------------------------------------------------------
(* Properties.                                                             *)

Records ==
    [connected : BOOLEAN, type : {"none", "openvpn", "wireguard"},
     workdir : Calls \union {NoCall}, proc : Calls \union {NoCall}]

Places == {"idle", "waiting", "cleaning", "configuring", "listening", "raising", "done"}

(* Every variable has its type, and the thread that is inside the critical *)
(* section is the one that holds the lock.                                 *)
GatewayTypeOK ==
    /\ lock \in Calls \union {NoCall}
    /\ call \in [Calls -> [op : {"none", "connect", "disconnect"},
                           pc : Places, ok : BOOLEAN]]
    /\ record \in Records
    /\ processes \subseteq Calls
    /\ interface \in Calls \union {NoCall}
    /\ restarts \in Nat
    /\ \A c \in Calls :
          call[c].pc \in {"cleaning", "configuring", "listening", "raising"}
              <=> lock = c

(* Whatever runs is in the record, so that the next clean-up finds it: a   *)
(* failed or replaced connection leaves no process and no interface that   *)
(* the gateway has forgotten.                                              *)
TunnelIsRecorded ==
    /\ processes \subseteq {record.proc}
    /\ interface # NoCall => record.type = "wireguard" /\ record.workdir = interface

(* "Replace the tunnel" (vpn-gateway/server.py:291): there are never two.  *)
OneTunnel ==
    /\ \A c, d \in processes : c = d
    /\ processes # {} => interface = NoCall

(* Why it is inductive: the record is empty where a thread is about to     *)
(* begin a tunnel, and names one process or one interface otherwise.       *)
RecordInv ==
    /\ record.proc # NoCall => record.type = "openvpn"
    /\ record.proc # NoCall => record.proc = record.workdir
    /\ \A c \in Calls :
          /\ At(c, "configuring") => record = NoTunnel
          /\ At(c, "listening") => record.proc = c
          /\ At(c, "raising") => record.type = "wireguard" /\ record.workdir = c
                                 /\ record.proc = NoCall

(* Every request is answered: none waits for ever for the lock.            *)
CallsAreAnswered == \A c \in Calls : At(c, "waiting") ~> At(c, "idle")
=============================================================================
