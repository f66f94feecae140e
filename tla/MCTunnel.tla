------------------------------ MODULE MCTunnel ------------------------------
(* Instances of AccessTunnel and TunnelSockets for TLC, explored in one run.
   What a HostTunnel does for requests and what it does for WebSockets meet in
   the end of the tunnel only, which each of the two models for itself, so that
   the initial state chooses the one that runs. *)
EXTENDS AccessTunnel

CONSTANTS Ws, Frames

VARIABLES part, tunnel, bpc, bsock, clients, ready, opc, lsock, locals, pend, flush, toLocal,
          toBrowser, bsent, lsent, bgot, lgot, early

sockets == <<tunnel, bpc, bsock, clients, ready, opc, lsock, locals, pend, flush, toLocal,
             toBrowser, bsent, lsent, bgot, lgot, early>>
all == <<part, vars, sockets>>

Sockets == INSTANCE TunnelSockets WITH toHost <- toLocal, toHub <- toBrowser
ASSUME SocketsAssumption == Sockets!ConstantsAssumption

Asks(A)   == part = "requests" /\ A /\ UNCHANGED <<part, sockets>>
Relays(A) == part = "sockets" /\ A /\ UNCHANGED <<part, vars>>

TunnelInit == part \in {"requests", "sockets"} /\ Init /\ Sockets!Init
TunnelsNext == Asks(Next) \/ Relays(Sockets!Next)

\* The fairness of each part.
TunnelFairness ==
  /\ WF_vars(Asks(ClientNext))
  /\ \A t \in Tun : WF_vars(Asks(TunnelNext(t)))
  /\ \A r \in Req : WF_vars(Asks(Send(r) \/ Resume(r) \/ Timeout(r)))
  /\ \A w \in Ws : /\ WF_sockets(Relays(Sockets!Proxy(w)))
                   /\ WF_sockets(Relays(Sockets!Opening(w)))
                   /\ WF_sockets(Relays(Sockets!Relay(w)))
  /\ WF_sockets(Relays(Sockets!HubReads)) /\ WF_sockets(Relays(Sockets!TaskRuns))
  /\ WF_sockets(Relays(Sockets!HostReads)) /\ WF_sockets(Relays(Sockets!Tunnel))

TunnelSpec == TunnelInit /\ [][TunnelsNext]_all /\ TunnelFairness

-----------------------------------------------------------------------------
(* The properties of TunnelSockets *)

\* Frames reach the browser in order and none is skipped; towards the local app
\* none is doubled or invented.
BrowserReceivesInOrder == Sockets!BrowserReceivesInOrder

\* A close on either side, or the loss of the tunnel, closes the other side.
CloseReachesOtherSide == Sockets!CloseReachesOtherSide
=============================================================================
