--------------------------- MODULE RelaySignaling ---------------------------
(***************************************************************************)
(* SDP exchange through one relay room: browser viewers on WebSockets      *)
(* (static/p2p/viewer.html), the Durable Object SignalRelay                *)
(* (server/p2p/relay/cloudflare/index.js) and the host's polling loop      *)
(* RelayHost (p2p/relay_host.py) with its peers (p2p/webrtc.py).           *)
(*                                                                         *)
(* A viewer makes one offer, without an id, so an offer and its answer are *)
(* named by the viewer.  An offer forwarded to another viewer is ignored   *)
(* there and leaves no trace in the model.                                 *)
(***************************************************************************)
EXTENDS Naturals, Sequences, FiniteSets, SequencesExt

CONSTANTS
  Viewers,
  Impatient,   \* the viewers whose 15 s may run out
  MaxFaults    \* bound: lost HTTP calls, failed peers, evictions, lapsed grants

ConstantsAssumption == MaxFaults \in Nat

VARIABLES
  \* Viewers
  vpc,        \* "idle", "open", "waiting", "done" (answered) or "gone"
  vgot,       \* viewer -> set of the offers it took an answer for
  arriving,   \* viewers whose offer is on its way to the relay
  down,       \* viewer -> answers on their way to it
  \* Durable Object
  sockets,    \* getWebSockets
  inbox,      \* sdpInbox
  outbox,     \* sdpOutbox
  grant,      \* the room grant is active
  \* Host
  running,    \* "yes", "stopping" (tasks cancelled) or "no"
  hpc,        \* _loop: "polling", "handling", "negotiating", "answering" or "ended"
  batch,      \* offers of the last poll still to be handled
  peers,      \* the registry's peers
  sessions,   \* _sessions
  \* History
  handled,    \* offers it made a peer for
  crowded,    \* two sockets were in the room at once
  gaveUp,     \* a viewer that had connected timed out
  faults

viewer == <<vpc, vgot>>
wire   == <<arriving, down>>
relay  == <<sockets, inbox, outbox>>
conns  == <<peers, sessions>>
loop   == <<hpc, batch>>
past   == <<crowded, gaveUp, faults>>
vars == <<viewer, wire, relay, grant, running, loop, conns, handled, past>>

Init ==
  /\ vpc = [v \in Viewers |-> "idle"]
  /\ vgot = [v \in Viewers |-> {}]
  /\ arriving = {}
  /\ down = [v \in Viewers |-> <<>>]
  /\ sockets = {}
  /\ inbox = <<>>
  /\ outbox = <<>>
  /\ grant = TRUE
  /\ running = "yes"
  /\ hpc = "polling"
  /\ batch = <<>>
  /\ peers = {}
  /\ sessions = {}
  /\ handled = {}
  /\ crowded = FALSE
  /\ gaveUp = FALSE
  /\ faults = 0

Fault == faults < MaxFaults /\ faults' = faults + 1

-----------------------------------------------------------------------------
(* Viewers *)

\* The upgrade is refused in a room without a grant.
Connect(v) ==
  /\ vpc[v] = "idle"
  /\ vpc' = [vpc EXCEPT ![v] = IF grant THEN "open" ELSE "gone"]
  /\ sockets' = IF grant THEN sockets \cup {v} ELSE sockets
  /\ crowded' = (crowded \/ (grant /\ sockets # {}))
  /\ UNCHANGED <<vgot, wire, inbox, outbox, grant, running, loop, conns, handled, gaveUp, faults>>

Offer(v) ==
  /\ vpc[v] = "open"
  /\ vpc' = [vpc EXCEPT ![v] = "waiting"]
  /\ arriving' = arriving \cup {v}
  /\ UNCHANGED <<vgot, down, relay, grant, running, loop, conns, handled, past>>

\* The first answer is taken, whatever it answers, and the socket is closed.
TakeAnswer(v) ==
  /\ vpc[v] = "waiting"
  /\ down[v] # <<>>
  /\ vpc' = [vpc EXCEPT ![v] = "done"]
  /\ vgot' = [vgot EXCEPT ![v] = @ \cup {Head(down[v])}]
  /\ down' = [down EXCEPT ![v] = Tail(@)]
  /\ UNCHANGED <<arriving, relay, grant, running, loop, conns, handled, past>>

GiveUp(v) ==
  /\ v \in Impatient
  /\ vpc[v] \in {"open", "waiting"}
  /\ vpc' = [vpc EXCEPT ![v] = "gone"]
  /\ gaveUp' = TRUE
  /\ UNCHANGED <<vgot, wire, relay, grant, running, loop, conns, handled, crowded, faults>>

-----------------------------------------------------------------------------
(* SignalRelay *)

\* webSocketMessage: forwarded to the other sockets; buffered for the host
\* only if there is none, and then the buffered answers are flushed to v.
ReceiveOffer(v) ==
  /\ v \in arriving
  /\ arriving' = arriving \ {v}
  /\ IF sockets \ {v} # {}
     THEN UNCHANGED <<inbox, outbox, down>>
     ELSE /\ inbox' = Append(inbox, v)
          /\ down' = [down EXCEPT ![v] = @ \o outbox]
          /\ outbox' = <<>>
  /\ UNCHANGED <<viewer, sockets, grant, running, loop, conns, handled, past>>

\* The close of a socket follows what was sent on it.
SocketCloses(v) ==
  /\ v \in sockets \ arriving
  /\ vpc[v] \in {"done", "gone"}
  /\ sockets' = sockets \ {v}
  /\ UNCHANGED <<viewer, wire, inbox, outbox, grant, running, loop, conns, handled, past>>

\* The object's memory is lost; storage and hibernating sockets stay.
Evict ==
  /\ Fault
  /\ inbox' = <<>>
  /\ outbox' = <<>>
  /\ UNCHANGED <<viewer, wire, sockets, grant, running, loop, conns, handled, crowded, gaveUp>>

GrantLapses ==
  /\ grant
  /\ Fault
  /\ grant' = FALSE
  /\ UNCHANGED <<viewer, wire, relay, running, loop, conns, handled, crowded, gaveUp>>

-----------------------------------------------------------------------------
(* RelayHost *)

\* _renew_loop
Renew ==
  /\ running = "yes"
  /\ ~grant
  /\ grant' = TRUE
  /\ UNCHANGED <<viewer, wire, relay, running, loop, conns, handled, past>>

\* _handleSdpInbox empties the inbox into the answer.
Poll ==
  /\ hpc = "polling"
  /\ grant
  /\ batch' = inbox
  /\ inbox' = <<>>
  /\ hpc' = "handling"
  /\ UNCHANGED <<viewer, wire, sockets, outbox, grant, running, conns, handled, past>>

\* sdp_inbox: the inbox was emptied and the answer did not arrive.
PollLost ==
  /\ hpc = "polling"
  /\ grant
  /\ inbox # <<>>
  /\ Fault
  /\ inbox' = <<>>
  /\ UNCHANGED <<viewer, wire, sockets, outbox, grant, running, loop, conns, handled, crowded, gaveUp>>

BatchDone ==
  /\ hpc = "handling"
  /\ batch = <<>>
  /\ hpc' = "polling"
  /\ UNCHANGED <<viewer, wire, relay, grant, running, batch, conns, handled, past>>

\* _handle_offer: the peer is registered before it negotiates.
RegisterPeer ==
  /\ hpc = "handling"
  /\ batch # <<>>
  /\ hpc' = "negotiating"
  /\ peers' = peers \cup {Head(batch)}
  /\ UNCHANGED <<viewer, wire, relay, grant, running, batch, sessions, handled, past>>

CreateSession ==
  /\ hpc = "negotiating"
  /\ hpc' = "answering"
  /\ sessions' = sessions \cup {Head(batch)}
  /\ handled' = handled \cup {Head(batch)}
  /\ UNCHANGED <<viewer, wire, relay, grant, running, batch, peers, past>>

\* The offer cannot be applied: an exception ends the batch.
NegotiationFails ==
  /\ hpc = "negotiating"
  /\ Fault
  /\ hpc' = "polling"
  /\ batch' = <<>>
  /\ UNCHANGED <<viewer, wire, relay, grant, running, conns, handled, crowded, gaveUp>>

\* Mutant: the branches are swapped.
DeliverSwapped(a) ==
  /\ down' = down
  /\ outbox' = IF sockets # {} THEN Append(outbox, a) ELSE outbox

\* Mutant: the answer is also buffered.
DeliverTwice(a) ==
  /\ down' = [v \in Viewers |-> IF v \in sockets THEN Append(down[v], a) ELSE down[v]]
  /\ outbox' = Append(outbox, a)

\* _handleSdpSend: to every socket of the room, or buffered if there is none.
Deliver(a) ==
  /\ down' = [v \in Viewers |-> IF v \in sockets THEN Append(down[v], a) ELSE down[v]]
  /\ outbox' = IF sockets = {} THEN Append(outbox, a) ELSE outbox

\* sdp_send
SendAnswer ==
  /\ hpc = "answering"
  /\ grant
  /\ Deliver(Head(batch))
  /\ batch' = Tail(batch)
  /\ hpc' = "handling"
  /\ UNCHANGED <<viewer, arriving, sockets, inbox, grant, running, conns, handled, past>>

\* _request: refused, lost on the way, or done and the confirmation lost: an exception
\* ends the batch.
SendFails ==
  /\ hpc = "answering"
  /\ \/ ~grant /\ UNCHANGED <<down, outbox, faults>>
     \/ Fault /\ UNCHANGED <<down, outbox>>
     \/ grant /\ Fault /\ Deliver(Head(batch))
  /\ batch' = <<>>
  /\ hpc' = "polling"
  /\ UNCHANGED <<viewer, arriving, sockets, inbox, grant, running, conns, handled, crowded, gaveUp>>

\* The state callback of a peer that failed or closed.
PeerEnds(v) ==
  /\ v \in peers
  /\ peers' = peers \ {v}
  /\ UNCHANGED <<viewer, wire, relay, grant, running, loop, sessions, handled, past>>

\* stop: the tasks are cancelled ...
StopBegins ==
  /\ running = "yes"
  /\ running' = "stopping"
  /\ UNCHANGED <<viewer, wire, relay, grant, loop, conns, handled, past>>

\* ... and awaited; the loop may go on up to its next await ...
LoopCancelled ==
  /\ running = "stopping"
  /\ hpc # "ended"
  /\ hpc' = "ended"
  /\ batch' = <<>>
  /\ UNCHANGED <<viewer, wire, relay, grant, running, conns, handled, past>>

\* Mutant: without awaiting them.
StopEndsAtOnce ==
  /\ running = "stopping"
  /\ running' = "no"
  /\ peers' = {}
  /\ sessions' = {}
  /\ UNCHANGED <<viewer, wire, relay, grant, loop, handled, past>>

\* ... then peers and sessions are closed.
StopEnds ==
  /\ running = "stopping"
  /\ hpc = "ended"
  /\ running' = "no"
  /\ peers' = {}
  /\ sessions' = {}
  /\ UNCHANGED <<viewer, wire, relay, grant, loop, handled, past>>

-----------------------------------------------------------------------------
Viewer(v) == Connect(v) \/ Offer(v) \/ TakeAnswer(v) \/ GiveUp(v)
Relay(v) == ReceiveOffer(v) \/ SocketCloses(v)
Handle == BatchDone \/ RegisterPeer \/ CreateSession \/ NegotiationFails \/ SendAnswer \/ SendFails
Stop == LoopCancelled \/ StopEnds

Next ==
  \/ \E v \in Viewers : Viewer(v) \/ Relay(v) \/ PeerEnds(v)
  \/ Evict \/ GrantLapses
  \/ Renew \/ Poll \/ PollLost \/ Handle
  \/ StopBegins \/ Stop

\* The host's loops keep running; a message on an open socket arrives; the
\* page reads what it is sent.
Fairness ==
  /\ WF_vars(Renew) /\ WF_vars(Poll) /\ WF_vars(Handle) /\ WF_vars(Stop)
  /\ \A v \in Viewers : WF_vars(Relay(v)) /\ WF_vars(Offer(v)) /\ WF_vars(TakeAnswer(v))

Spec == Init /\ [][Next]_vars
FairSpec == Spec /\ Fairness

-----------------------------------------------------------------------------
(* Properties *)

\* Every variable has its type.
TypeOK ==
  /\ vpc \in [Viewers -> {"idle", "open", "waiting", "done", "gone"}]
  /\ vgot \in [Viewers -> SUBSET Viewers]
  /\ arriving \subseteq sockets
  /\ down \in [Viewers -> Seq(Viewers)]
  /\ sockets \subseteq Viewers
  /\ inbox \in Seq(Viewers)
  /\ outbox \in Seq(Viewers)
  /\ grant \in BOOLEAN
  /\ running \in {"yes", "stopping", "no"}
  /\ hpc \in {"polling", "handling", "negotiating", "answering", "ended"}
  /\ batch \in Seq(Viewers)
  /\ hpc \in {"negotiating", "answering"} => batch # <<>>
  /\ peers \subseteq Viewers
  /\ sessions \subseteq Viewers
  /\ handled \subseteq Viewers
  /\ crowded \in BOOLEAN
  /\ gaveUp \in BOOLEAN
  /\ faults \in 0 .. MaxFaults

\* Nothing outlives stop(): the loop was awaited before the peers were closed.
StoppedHostHasNoPeers ==
  running = "no" => peers = {} /\ sessions = {} /\ hpc = "ended"

\* An offer is given to the host once: what arrives, waits in the inbox or
\* waits in the host's batch was not handled before, and waits once.
ToHandle == IF hpc = "answering" THEN Tail(batch) ELSE batch
Waiting == inbox \o ToHandle

OfferHandledOnce ==
  /\ IsInjective(Waiting)
  /\ (arriving \cup ToSet(Waiting)) \cap handled = {}
  /\ arriving \cap ToSet(Waiting) = {}

\* An offer is handled at most once, whatever is lost, and stop() leaves
\* nothing behind.
SignalingInv == TypeOK /\ OfferHandledOnce /\ StoppedHostHasNoPeers

\* The inductive invariant behind it: an offer is on its way, in the inbox, in
\* the batch or handled, and in one of these places once; a viewer has a socket
\* as long as it may make its offer or waits; and the host only answers an
\* offer it handled, out of a batch that is gone when it polls.
Queued == ToSet(inbox) \cup ToSet(ToHandle)
OffersInOrder ==
  /\ IsInjective(inbox) /\ IsInjective(ToHandle)
  /\ ToSet(inbox) \cap ToSet(ToHandle) = {}
  /\ arriving \cap Queued = {}
  /\ (arriving \cup Queued) \cap handled = {}
  /\ \A v \in Viewers :
       /\ vpc[v] \in {"idle", "open"} => v \notin handled \cup arriving \cup Queued
       /\ vpc[v] \in {"open", "waiting"} => v \in sockets
  /\ hpc = "answering" => Head(batch) \in handled
  /\ hpc \in {"polling", "ended"} => batch = <<>>

\* In a room that never held two sockets, and whose viewers stayed until they
\* were answered, a viewer only takes the answer to its own offer.
LoneViewerGetsOwnAnswer ==
  ~crowded /\ ~gaveUp => \A v \in Viewers : vgot[v] \subseteq {v}

\* Why: whoever's offer is under way is the one viewer in the room, still
\* waits and was sent nothing, so that its answer meets nobody else's.
Unanswered == arriving \cup ToSet(inbox) \cup ToSet(batch)
AnswersMeetTheirViewer ==
  ~crowded /\ ~gaveUp =>
    /\ \A v, w \in sockets : v = w
    /\ outbox = <<>>
    /\ \A v \in Viewers : /\ vgot[v] \subseteq {v} /\ down[v] \in Seq({v})
                          /\ vpc[v] \in {"idle", "open"} => down[v] = <<>>
    /\ \A v \in Unanswered : vpc[v] = "waiting" /\ down[v] = <<>>

\* A viewer alone in its room is answered, when nothing is lost and it waits.
LoneViewerIsAnswered ==
  \A v \in Viewers :
    vpc[v] = "waiting" ~> (v \in vgot[v] \/ crowded \/ gaveUp \/ faults > 0 \/ running # "yes")
=============================================================================
