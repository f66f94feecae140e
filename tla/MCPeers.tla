------------------------------ MODULE MCPeers ------------------------------
(* Instances of PeerRegistry and ProxiedSockets for TLC: what a P2P host keeps
   of its browsers, and what it proxies for one of them, explored in one run.
   They share no state; the initial state chooses the one that runs. *)
EXTENDS PeerRegistry

CONSTANTS Ids, Opened, Texts, Images  \* ProxiedSockets

VARIABLES
  part, link, toHost, toPage, bstate, clients, hpc, opc, conns, lstate, reader, latest, http, client,
  stops, texts, gotText, images, gotImage, wrong, orphans, late

proxy == <<link, toHost, toPage, bstate, clients, hpc, opc, conns, lstate, reader, latest, http, client,
           stops, texts, gotText, images, gotImage, wrong, orphans, late>>
all   == <<part, vars, proxy>>

Proxied == INSTANCE ProxiedSockets
ASSUME ProxiedAssumption == Proxied!ConstantsAssumption

Serves(A)  == part = "peers" /\ A /\ UNCHANGED <<part, proxy>>
Proxies(A) == part = "proxy" /\ A /\ UNCHANGED <<part, vars>>

PeersInit == part \in {"peers", "proxy"} /\ Init /\ Proxied!Init
PeersNext == Serves(Next) \/ Proxies(Proxied!Next)

\* The fairness of the proxy.
ProxyFairness ==
  /\ WF_proxy(Proxies(Proxied!PageReceives)) /\ WF_proxy(Proxies(Proxied!HostReceives))
  /\ WF_proxy(Proxies(Proxied!Request)) /\ WF_proxy(Proxies(Proxied!StopBegun))
  /\ WF_proxy(Proxies(Proxied!Stop))
  /\ \A b \in Proxied!Sock : /\ WF_proxy(Proxies(Proxied!Opening(b)))
                             /\ WF_proxy(Proxies(Proxied!SenderSends(b)))
                             /\ WF_proxy(Proxies(Proxied!ReaderEnds(b)))

PeersSpec == PeersInit /\ [][PeersNext]_all /\ ProxyFairness

-----------------------------------------------------------------------------
(* The properties of ProxiedSockets *)

\* Frames of a socket reach its other end only, although ids are used again;
\* text is complete and in order and binary frames never go back.
FramesReachTheirSocket == Proxied!FramesReachTheirSocket

\* A session that was stopped holds nothing that it could know of.
ProxyInv == Proxied!ProxyInv

\* A socket that one side closes is closed on the other, while the link is up.
CloseReachesOtherSide == Proxied!CloseReachesOtherSide

\* The newest binary frame is shown in the end, however many it overtook.
NewestImageArrives == Proxied!NewestImageArrives
=============================================================================
