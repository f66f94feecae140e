---------------------------- MODULE PeerRegistry ----------------------------
(***************************************************************************)
(* The WebRTC peers of a P2P host that browsers reach by HTTP              *)
(* (p2p/host.py, mount_p2p_host): WebRTCPeerRegistry and WebRTCPeer        *)
(* (p2p/webrtc.py) under overlapping offers, replaced session ids, peers   *)
(* that fail, the state callbacks that arrive later, and the shutdown.     *)
(*                                                                         *)
(* A peer is named after the offer it was made for.  Its RTCPeerConnection *)
(* (aiortc) is external: it closes in several steps and schedules the      *)
(* state callback as a task of its own, which may run before or after      *)
(* close returns.                                                          *)
(***************************************************************************)
EXTENDS FiniteSets

CONSTANTS Offer, Session, None

\* What the theorems need of the constants.
ConstantsAssumption == None \notin Offer
ASSUME ConstantsHold == ConstantsAssumption

VARIABLES
  pc,      \* offer -> "new", "replacing", "negotiating", "answered", "failed"
  sid,     \* offer -> its session id
  prev,    \* offer -> the peer whose close it awaits
  peers,   \* _peers: session id -> peer or None
  state,   \* peer -> "none", "open", "closing", "telling", "closed", "failed"
  channel, \* peers whose DataChannel is open, _connected
  proxied, \* offers whose proxy_holder is filled
  untold,  \* peers whose failed or closed callback has not run
  frames,  \* peers that sent a frame which has not been handled
  down,    \* shutdown: "no", "closing" or "done"
  todo,    \* peers that close_all has still to close
  \* History
  lost,    \* peers that the callback of another peer removed
  crossed, \* offers that overlapped one of the same session id
  unheard  \* peers that had a frame dropped for want of a proxy

offers == <<pc, sid, prev>>
vars == <<offers, peers, state, channel, proxied, untold, frames, down, todo, lost, crossed, unheard>>

Init ==
  /\ pc = [o \in Offer |-> "new"]
  /\ sid = [o \in Offer |-> None] /\ prev = [o \in Offer |-> None]
  /\ peers = [s \in Session |-> None]
  /\ state = [o \in Offer |-> "none"]
  /\ channel = {} /\ proxied = {} /\ untold = {} /\ frames = {}
  /\ down = "no" /\ todo = {}
  /\ lost = {} /\ crossed = {} /\ unheard = {}

Busy == {o \in Offer : pc[o] \in {"replacing", "negotiating"}}
Go(o, place) == pc' = [pc EXCEPT ![o] = place]

-----------------------------------------------------------------------------
(* Offers *)

Registers(o, s) ==
  /\ Go(o, "negotiating")
  /\ peers' = [peers EXCEPT ![s] = o]

\* Mutant: the peer of the session id is dropped and not closed.
TakeOfferDropping(o, s) ==
  /\ pc[o] = "new" /\ down = "no"
  /\ sid' = [sid EXCEPT ![o] = s]
  /\ crossed' = LET same == {q \in Busy : sid[q] = s}
                IN IF same = {} THEN crossed ELSE crossed \cup same \cup {o}
  /\ Registers(o, s)
  /\ state' = [state EXCEPT ![o] = "open"]
  /\ UNCHANGED <<prev, channel, proxied, untold, frames, down, todo, lost, unheard>>

\* p2p_offer and create_peer up to an await: the peer of the session id, if
\* there is one that close was not called for, is closed first.
TakeOffer(o, s) ==
  /\ pc[o] = "new" /\ down = "no"
  /\ sid' = [sid EXCEPT ![o] = s]
  /\ crossed' = LET same == {q \in Busy : sid[q] = s}
                IN IF same = {} THEN crossed ELSE crossed \cup same \cup {o}
  /\ IF peers[s] # None /\ state[peers[s]] \in {"open", "failed"}
     THEN /\ Go(o, "replacing")
          /\ prev' = [prev EXCEPT ![o] = peers[s]]
          /\ peers' = [peers EXCEPT ![s] = None]
          /\ state' = [state EXCEPT ![peers[s]] = "closing"]
     ELSE /\ Registers(o, s)
          /\ state' = [state EXCEPT ![o] = "open"]
          /\ UNCHANGED prev
  /\ UNCHANGED <<channel, proxied, untold, frames, down, todo, lost, unheard>>

\* A connection that closes schedules its callback, before close returns.
ReportsClosing(p) ==
  /\ state[p] = "closing"
  /\ state' = [state EXCEPT ![p] = "telling"]
  /\ untold' = untold \cup {p}
  /\ UNCHANGED <<offers, peers, channel, proxied, frames, down, todo, lost, crossed, unheard>>

Closes(p) ==
  /\ state[p] = "telling"
  /\ state' = [state EXCEPT ![p] = "closed"]
  /\ channel' = channel \ {p}
  /\ UNCHANGED <<offers, peers, proxied, untold, frames, down, todo, lost, crossed, unheard>>

\* create_peer goes on when close returned.
Insert(o) ==
  /\ pc[o] = "replacing"
  /\ state[prev[o]] = "closed"
  /\ Registers(o, sid[o])
  /\ state' = [state EXCEPT ![o] = "open"]
  /\ UNCHANGED <<sid, prev, channel, proxied, untold, frames, down, todo, lost, crossed, unheard>>

\* accept_offer returned: the proxy is made before the answer is sent.
Answer(o) ==
  /\ pc[o] = "negotiating"
  /\ state[o] = "open"
  /\ proxied' = proxied \cup {o}
  /\ Go(o, "answered")
  /\ UNCHANGED <<sid, prev, peers, state, channel, untold, frames, down, todo, lost, crossed, unheard>>

\* The offer cannot be applied, or its connection is no longer open.
NegotiationFails(o) ==
  /\ pc[o] = "negotiating"
  /\ Go(o, "failed")
  /\ UNCHANGED <<sid, prev, peers, state, channel, proxied, untold, frames, down, todo, lost, crossed, unheard>>

-----------------------------------------------------------------------------
(* Connections *)

\* The browser applied the answer: the channel opens, on_open.
ChannelOpens(p) ==
  /\ pc[p] = "answered"
  /\ state[p] = "open"
  /\ p \notin channel
  /\ channel' = channel \cup {p}
  /\ UNCHANGED <<offers, peers, state, proxied, untold, frames, down, todo, lost, crossed, unheard>>

ChannelCloses(p) ==
  /\ p \in channel
  /\ channel' = channel \ {p}
  /\ UNCHANGED <<offers, peers, state, proxied, untold, frames, down, todo, lost, crossed, unheard>>

BrowserSends(p) ==
  /\ p \in channel \ frames
  /\ frames' = frames \cup {p}
  /\ UNCHANGED <<offers, peers, state, channel, proxied, untold, down, todo, lost, crossed, unheard>>

\* on_message
HandleMessage(p) ==
  /\ p \in frames
  /\ frames' = frames \ {p}
  /\ unheard' = IF p \in proxied THEN unheard ELSE unheard \cup {p}
  /\ UNCHANGED <<offers, peers, state, channel, proxied, untold, down, todo, lost, crossed>>

Fails(p) ==
  /\ state[p] = "open"
  /\ state' = [state EXCEPT ![p] = "failed"]
  /\ untold' = untold \cup {p}
  /\ UNCHANGED <<offers, peers, channel, proxied, frames, down, todo, lost, crossed, unheard>>

\* _state: whatever peer the session id names is removed.
StateCallback(p) ==
  /\ p \in untold
  /\ untold' = untold \ {p}
  /\ peers' = [peers EXCEPT ![sid[p]] = None]
  /\ lost' = lost \cup ({peers[sid[p]]} \ {None, p})
  /\ channel' = channel \ {p}
  /\ UNCHANGED <<offers, state, proxied, frames, down, todo, crossed, unheard>>

-----------------------------------------------------------------------------
(* Shutdown *)

\* The server has finished its requests; close_all lists the peers.
Shutdown ==
  /\ down = "no"
  /\ Busy = {}
  /\ down' = "closing"
  /\ todo' = {peers[s] : s \in Session} \ {None}
  /\ UNCHANGED <<offers, peers, state, channel, proxied, untold, frames, lost, crossed, unheard>>

\* The next of them: close returns at once for one it was called for before.
CloseNext(p) ==
  /\ down = "closing"
  /\ p \in todo
  /\ \A q \in Offer : state[q] \notin {"closing", "telling"}
  /\ todo' = todo \ {p}
  /\ state' = IF state[p] = "closed" THEN state ELSE [state EXCEPT ![p] = "closing"]
  /\ UNCHANGED <<offers, peers, channel, proxied, untold, frames, down, lost, crossed, unheard>>

AllClosed ==
  /\ down = "closing"
  /\ todo = {}
  /\ \A q \in Offer : state[q] \notin {"closing", "telling"}
  /\ down' = "done"
  /\ peers' = [s \in Session |-> None]
  /\ UNCHANGED <<offers, state, channel, proxied, untold, frames, todo, lost, crossed, unheard>>

Next ==
  \/ \E o \in Offer :
       \/ \E s \in Session : TakeOffer(o, s)
       \/ Insert(o) \/ Answer(o) \/ NegotiationFails(o)
       \/ Closes(o) \/ ReportsClosing(o) \/ Fails(o) \/ StateCallback(o)
       \/ ChannelOpens(o) \/ ChannelCloses(o) \/ BrowserSends(o) \/ HandleMessage(o)
       \/ CloseNext(o)
  \/ Shutdown \/ AllClosed

Spec == Init /\ [][Next]_vars

-----------------------------------------------------------------------------
(* Properties *)

\* Every variable has its type.
TypeOK ==
  /\ pc \in [Offer -> {"new", "replacing", "negotiating", "answered", "failed"}]
  /\ sid \in [Offer -> Session \cup {None}] /\ \A o \in Offer : pc[o] # "new" => sid[o] \in Session
  /\ prev \in [Offer -> Offer \cup {None}] /\ \A o \in Offer : pc[o] = "replacing" => prev[o] \in Offer
  /\ peers \in [Session -> Offer \cup {None}]
  /\ state \in [Offer -> {"none", "open", "closing", "telling", "closed", "failed"}]
  /\ channel \in SUBSET Offer /\ proxied \in SUBSET Offer /\ untold \in SUBSET Offer
  /\ frames \in SUBSET Offer
  /\ down \in {"no", "closing", "done"} /\ todo \in SUBSET Offer
  /\ lost \in SUBSET Offer /\ crossed \in SUBSET Offer /\ unheard \in SUBSET Offer

\* A connection that is open is the one the registry has for its session id,
\* so that it is replaced, reported and closed with it, and none is open once
\* close_all is done.  The exceptions: the callback of the peer it replaced
\* came late and removed it, or its offer overlapped another of the same id.
OpenPeerIsKnown ==
  \A p \in Offer :
    state[p] = "open" /\ p \notin lost \cup crossed => peers[sid[p]] = p /\ down # "done"

\* No frame of a browser is dropped because its proxy is not there yet.
FramesFindTheirProxy == unheard = {}

\* The connection of a browser is known, and what comes over it is heard.
PeersServeTheirSessions == OpenPeerIsKnown /\ FramesFindTheirProxy

\* The parts of the inductive invariant behind it.
\* A connection exists once its offer has registered it, under its own id, and
\* reports its end only when it is no longer open.
ConnectionInv ==
  /\ \A o \in Offer : pc[o] \in {"new", "replacing"} <=> state[o] = "none"
  /\ \A s \in Session : peers[s] # None => state[peers[s]] # "none" /\ sid[peers[s]] = s
  /\ \A p \in untold : state[p] \notin {"none", "open"}
  /\ \A p \in todo : state[p] # "none"

\* Offers of one id that are handled at a time are known to have crossed, and
\* so is a peer that was registered while another offer replaces its peer.
CrossingInv ==
  /\ \A o, q \in Busy : sid[o] = sid[q] /\ o # q => o \in crossed
  /\ \A o \in Offer : pc[o] = "replacing" => peers[sid[o]] \in {None} \cup crossed
  /\ Busy # {} => down = "no"

\* Nothing is open that the shutdown will not close.
ShutdownInv ==
  \A p \in Offer : down = "closing" /\ state[p] = "open" /\ p \notin lost \cup crossed => p \in todo

\* A channel opens when its proxy is there.
ChannelInv ==
  /\ \A o \in Offer : pc[o] = "answered" => o \in proxied
  /\ channel \cup frames \subseteq proxied

PeersInv == PeersServeTheirSessions /\ ConnectionInv /\ CrossingInv /\ ShutdownInv /\ ChannelInv
=============================================================================
