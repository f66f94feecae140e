---------------------------- MODULE TunnelSockets ----------------------------
(***************************************************************************)
(* Browser WebSockets over the access hub (access/remote.py): every        *)
(* browser socket of a tunnel gets a ws id; the host opens a local socket  *)
(* for it and the frames of both directions are relayed over the one       *)
(* tunnel.  AccessTunnel models the tunnel's own life; here there is one   *)
(* tunnel, which may be lost once.                                         *)
(*                                                                         *)
(* Frames are numbered in the order they were sent.  ready is the part of  *)
(* the hub's event loop that matters: the tasks that forward a frame to a  *)
(* browser or close it, in the order they were created, which is the order *)
(* asyncio first runs them in.                                             *)
(***************************************************************************)
EXTENDS Integers, SequencesExt, FiniteSets

CONSTANTS
  Ws,      \* WebSocket ids (secrets.token_hex: never repeated)
  Frames   \* bound: frames a side sends on one socket

ConstantsAssumption == Frames \in Nat

VARIABLES
  \* Hub
  tunnel,   \* "up", "down" (not noticed), "closing" (run's finally) or "gone"
  bpc,      \* ws id -> where its ws_proxy handler is
  bsock,    \* ws id -> the browser's socket: "open" or "closed"
  clients,  \* _ws_clients: ids that answers are forwarded to
  ready,    \* tasks created by _handle_message that have not run
  \* Host
  opc,      \* ws id -> state of its _handle_ws_open task
  lsock,    \* ws id -> the local socket: "none", "open" or "closed"
  locals,   \* _local_ws: ids with a known local socket
  pend,     \* ws id -> _pending_ws_data: frames that wait for the open
  flush,    \* ws id -> frames the open task still has to send
  \* Channels
  toHost, toHub,
  \* What the two ends did and saw
  bsent,    \* ws id -> frames the browser sent
  lsent,    \* ws id -> frames the local app sent
  bgot,     \* ws id -> frames the browser received
  lgot,     \* ws id -> frames the local app received
  early     \* History: ids whose ws_close reached the host before the open was done

hub   == <<bpc, bsock, clients>>
host  == <<opc, lsock, locals, pend, flush>>
chans == <<toHost, toHub>>
seen  == <<bsent, lsent, bgot, lgot, early>>
vars == <<tunnel, hub, ready, host, chans, seen>>

Msg(kind, w, n) == [kind |-> kind, ws |-> w, n |-> n]
Open(w) == Msg("open", w, 0)
Data(w, n) == Msg("data", w, n)
Close(w) == Msg("close", w, 0)

HubUp == tunnel \in {"up", "down"}
HostUp == tunnel = "up"

\* Whatever is sent on a lost tunnel goes nowhere.
SendHost(m) == toHost' = IF HubUp THEN Append(toHost, m) ELSE toHost
SendHub(m) == toHub' = IF HostUp THEN Append(toHub, m) ELSE toHub

Init ==
  /\ tunnel = "up"
  /\ bpc = [w \in Ws |-> "idle"]
  /\ bsock = [w \in Ws |-> "open"]
  /\ clients = {}
  /\ ready = <<>>
  /\ opc = [w \in Ws |-> "none"]
  /\ lsock = [w \in Ws |-> "none"]
  /\ locals = {}
  /\ pend = [w \in Ws |-> <<>>]
  /\ flush = [w \in Ws |-> <<>>]
  /\ toHost = <<>>
  /\ toHub = <<>>
  /\ bsent = [w \in Ws |-> 0]
  /\ lsent = [w \in Ws |-> 0]
  /\ bgot = [w \in Ws |-> <<>>]
  /\ lgot = [w \in Ws |-> <<>>]
  /\ early = {}

-----------------------------------------------------------------------------
(* ws_proxy: one handler per browser socket *)

\* The tunnel was found; accept is awaited.
BrowserArrives(w) ==
  /\ bpc[w] = "idle"
  /\ tunnel # "gone"
  /\ bpc' = [bpc EXCEPT ![w] = "accepting"]
  /\ UNCHANGED <<tunnel, bsock, clients, ready, host, chans, seen>>

\* Accepted: the socket joins the tunnel it found, alive or not.
BrowserJoins(w) ==
  /\ bpc[w] = "accepting"
  /\ bpc' = [bpc EXCEPT ![w] = "open"]
  /\ clients' = clients \cup {w}
  /\ SendHost(Open(w))
  /\ UNCHANGED <<tunnel, bsock, ready, host, toHub, seen>>

BrowserSends(w) ==
  /\ bpc[w] = "open"
  /\ bsock[w] = "open"
  /\ bsent[w] < Frames
  /\ bsent' = [bsent EXCEPT ![w] = @ + 1]
  /\ SendHost(Data(w, bsent[w] + 1))
  /\ UNCHANGED <<tunnel, hub, ready, host, toHub, lsent, bgot, lgot, early>>

\* The browser closes its socket itself.
BrowserCloses(w) ==
  /\ bpc[w] = "open"
  /\ bsock[w] = "open"
  /\ bsock' = [bsock EXCEPT ![w] = "closed"]
  /\ UNCHANGED <<tunnel, bpc, clients, ready, host, chans, seen>>

\* Mutant: the host is not told.
BrowserLeavesSilently(w) ==
  /\ bpc[w] = "open"
  /\ bsock[w] = "closed"
  /\ bpc' = [bpc EXCEPT ![w] = "left"]
  /\ clients' = clients \ {w}
  /\ UNCHANGED <<tunnel, bsock, ready, host, chans, seen>>

\* receive() reports the disconnect: the finally clause.
BrowserLeaves(w) ==
  /\ bpc[w] = "open"
  /\ bsock[w] = "closed"
  /\ bpc' = [bpc EXCEPT ![w] = "left"]
  /\ clients' = clients \ {w}
  /\ SendHost(Close(w))
  /\ UNCHANGED <<tunnel, bsock, ready, host, toHub, seen>>

-----------------------------------------------------------------------------
(* HostTunnel: what arrives from the host *)

\* Mutant: new tasks run before the ones that wait.
ReadyFirst(m) == ready' = <<m>> \o ready

\* asyncio.create_task: behind the tasks that wait to run.
Schedule(m) == ready' = Append(ready, m)

\* ws_data: a task will look the browser up.  ws_close: the browser is
\* forgotten at once and a task closes it.
HubReads ==
  LET m == Head(toHub)
  IN /\ HubUp
     /\ toHub # <<>>
     /\ toHub' = Tail(toHub)
     /\ CASE m.kind = "data" -> /\ Schedule(m)
                                /\ UNCHANGED clients
          [] m.kind = "close" /\ m.ws \in clients -> /\ clients' = clients \ {m.ws}
                                                     /\ Schedule(m)
          [] OTHER -> UNCHANGED <<clients, ready>>
     /\ UNCHANGED <<tunnel, bpc, bsock, host, toHost, seen>>

\* _forward_ws_data, or the close of a browser.
TaskRuns ==
  LET m == Head(ready)
  IN /\ ready # <<>>
     /\ ready' = Tail(ready)
     /\ IF m.kind = "close"
        THEN /\ bsock' = [bsock EXCEPT ![m.ws] = "closed"]
             /\ UNCHANGED bgot
        ELSE /\ bgot' = IF m.ws \in clients /\ bsock[m.ws] = "open"
                        THEN [bgot EXCEPT ![m.ws] = Append(@, m.n)] ELSE bgot
             /\ UNCHANGED bsock
     /\ UNCHANGED <<tunnel, bpc, clients, host, chans, bsent, lsent, lgot, early>>

TunnelDrops ==
  /\ tunnel = "up"
  /\ tunnel' = "down"
  /\ UNCHANGED <<hub, ready, host, chans, seen>>

\* run's finally closes the browsers it knows, one await each ...
TunnelEnds ==
  /\ tunnel = "down"
  /\ tunnel' = "closing"
  /\ bsock' = [w \in Ws |-> IF w \in clients THEN "closed" ELSE bsock[w]]
  /\ UNCHANGED <<bpc, clients, ready, host, chans, seen>>

\* ... and forgets them and any that came meanwhile.
TunnelForgets ==
  /\ tunnel = "closing"
  /\ tunnel' = "gone"
  /\ clients' = {}
  /\ UNCHANGED <<bpc, bsock, ready, host, chans, seen>>

-----------------------------------------------------------------------------
(* TunnelClient: what arrives from the hub *)

\* A frame goes to the local socket if it is known and waits otherwise.
HandleData(w, n) ==
  /\ IF w \in locals
     THEN /\ lgot' = IF lsock[w] = "open" THEN [lgot EXCEPT ![w] = Append(@, n)] ELSE lgot
          /\ UNCHANGED pend
     ELSE /\ pend' = [pend EXCEPT ![w] = Append(@, n)]
          /\ UNCHANGED lgot
  /\ UNCHANGED <<opc, lsock, locals, early>>

\* A close only closes a socket that is known.
HandleClose(w) ==
  /\ locals' = locals \ {w}
  /\ lsock' = [lsock EXCEPT ![w] = IF w \in locals THEN "closed" ELSE @]
  /\ early' = IF opc[w] = "connecting" THEN early \cup {w} ELSE early
  /\ UNCHANGED <<opc, pend, lgot>>

\* _message_loop: a task is created for an open.
HostReads ==
  LET m == Head(toHost)
  IN /\ HostUp
     /\ toHost # <<>>
     /\ toHost' = Tail(toHost)
     /\ CASE m.kind = "open" -> /\ opc' = [opc EXCEPT ![m.ws] = "connecting"]
                                /\ UNCHANGED <<lsock, locals, pend, lgot, early>>
          [] m.kind = "data" -> HandleData(m.ws, m.n)
          [] m.kind = "close" -> HandleClose(m.ws)
     /\ UNCHANGED <<tunnel, hub, ready, flush, toHub, bsent, lsent, bgot>>

\* _handle_ws_open sends the frames q that waited, up to the point where it
\* pauses: a send writes its frame before it waits for a full buffer to drain.
\* A send to a closed socket fails at once; after the last one the reader task
\* starts.
SendWaiting(w, q) ==
  IF q = <<>> \/ lsock'[w] # "open"
  THEN /\ opc' = [opc EXCEPT ![w] = "reading"]
       /\ flush' = [flush EXCEPT ![w] = <<>>]
       /\ UNCHANGED lgot
  ELSE /\ opc' = [opc EXCEPT ![w] = "flushing"]
       /\ flush' = [flush EXCEPT ![w] = Tail(q)]
       /\ lgot' = [lgot EXCEPT ![w] = Append(@, Head(q))]

\* Connected: the socket is known from here on, and the first of the frames
\* that waited is written before anything else can run.
OpenSucceeds(w) ==
  /\ opc[w] = "connecting"
  /\ lsock' = [lsock EXCEPT ![w] = "open"]
  /\ locals' = locals \cup {w}
  /\ pend' = [pend EXCEPT ![w] = <<>>]
  /\ SendWaiting(w, pend[w])
  /\ UNCHANGED <<tunnel, hub, ready, chans, bsent, lsent, bgot, early>>

OpenFails(w) ==
  /\ opc[w] = "connecting"
  /\ opc' = [opc EXCEPT ![w] = "failed"]
  /\ SendHub(Close(w))
  /\ UNCHANGED <<tunnel, hub, ready, lsock, locals, pend, flush, toHost, seen>>

\* The send that paused returns, and the next one follows.
Flush(w) ==
  /\ opc[w] = "flushing"
  /\ UNCHANGED lsock
  /\ SendWaiting(w, flush[w])
  /\ UNCHANGED <<tunnel, hub, ready, locals, pend, chans, bsent, lsent, bgot, early>>

\* _local_ws_reader forwards a frame of the local app; on a lost tunnel the
\* send raises and the reader ends.
LocalSends(w) ==
  /\ opc[w] = "reading"
  /\ lsock[w] = "open"
  /\ lsent[w] < Frames
  /\ lsent' = [lsent EXCEPT ![w] = @ + 1]
  /\ SendHub(Data(w, lsent[w] + 1))
  /\ IF HostUp
     THEN UNCHANGED <<opc, locals>>
     ELSE /\ opc' = [opc EXCEPT ![w] = "ended"]
          /\ locals' = locals \ {w}
  /\ UNCHANGED <<tunnel, hub, ready, lsock, pend, flush, toHost, bsent, bgot, lgot, early>>

LocalCloses(w) ==
  /\ lsock[w] = "open"
  /\ lsock' = [lsock EXCEPT ![w] = "closed"]
  /\ UNCHANGED <<tunnel, hub, ready, opc, locals, pend, flush, chans, seen>>

\* The local socket has ended: the reader's finally.
ReaderEnds(w) ==
  /\ opc[w] = "reading"
  /\ lsock[w] = "closed"
  /\ opc' = [opc EXCEPT ![w] = "ended"]
  /\ locals' = locals \ {w}
  /\ SendHub(Close(w))
  /\ UNCHANGED <<tunnel, hub, ready, lsock, pend, flush, toHost, seen>>

-----------------------------------------------------------------------------
Browser(w) == BrowserArrives(w) \/ BrowserSends(w) \/ BrowserCloses(w)
Proxy(w) == BrowserJoins(w) \/ BrowserLeaves(w)
Opening(w) == OpenSucceeds(w) \/ OpenFails(w)
Relay(w) == Flush(w) \/ ReaderEnds(w)
Local(w) == LocalSends(w) \/ LocalCloses(w)
Tunnel == TunnelEnds \/ TunnelForgets

Next ==
  \/ \E w \in Ws : Browser(w) \/ Proxy(w) \/ Opening(w) \/ Relay(w) \/ Local(w)
  \/ HubReads
  \/ TaskRuns
  \/ HostReads
  \/ TunnelDrops
  \/ Tunnel

\* The event loops run what can run; browsers, local app and network owe
\* nothing, except that a connect or a send to the local app succeeds or fails.
Fairness ==
  /\ \A w \in Ws : WF_vars(Proxy(w)) /\ WF_vars(Opening(w)) /\ WF_vars(Relay(w))
  /\ WF_vars(HubReads) /\ WF_vars(TaskRuns) /\ WF_vars(HostReads) /\ WF_vars(Tunnel)

Spec == Init /\ [][Next]_vars
FairSpec == Spec /\ Fairness

-----------------------------------------------------------------------------
(* Properties *)

Message == [kind : {"open", "data", "close"}, ws : Ws, n : 0 .. Frames]

\* Every variable has its type.
TypeOK ==
  /\ tunnel \in {"up", "down", "closing", "gone"}
  /\ bpc \in [Ws -> {"idle", "accepting", "open", "left"}]
  /\ bsock \in [Ws -> {"open", "closed"}]
  /\ clients \subseteq Ws
  /\ ready \in Seq(Message) /\ \A i \in DOMAIN ready : ready[i].kind # "open"
  /\ opc \in [Ws -> {"none", "connecting", "flushing", "reading", "ended", "failed"}]
  /\ lsock \in [Ws -> {"none", "open", "closed"}]
  /\ locals \subseteq Ws
  /\ pend \in [Ws -> Seq(1 .. Frames)]
  /\ flush \in [Ws -> Seq(1 .. Frames)]
  /\ toHost \in Seq(Message)
  /\ toHub \in Seq(Message)
  /\ bsent \in [Ws -> 0 .. Frames]
  /\ lsent \in [Ws -> 0 .. Frames]
  /\ bgot \in [Ws -> Seq(1 .. Frames)]
  /\ lgot \in [Ws -> Seq(1 .. Frames)]
  /\ early \subseteq Ws

Increasing(s) == \A i, j \in DOMAIN s : i < j => s[i] < s[j]

\* Where the frames of socket w stand in queue q.
FramesIn(q, w) == {i \in DOMAIN q : q[i].ws = w /\ q[i].kind = "data"}

\* No frame is sent to the local app twice, and none is invented: frames
\* received, to be flushed, waiting and on their way are distinct.
LocalFrameAtMostOnce ==
  \A w \in Ws :
    /\ IsInjective(lgot[w]) /\ IsInjective(flush[w]) /\ IsInjective(pend[w])
    /\ ToSet(lgot[w]) \cap (ToSet(flush[w]) \cup ToSet(pend[w])) = {}
    /\ ToSet(flush[w]) \cap ToSet(pend[w]) = {}
    /\ ToSet(lgot[w]) \cup ToSet(flush[w]) \cup ToSet(pend[w]) \subseteq 1 .. bsent[w]
    /\ \A i \in FramesIn(toHost, w) :
         /\ toHost[i].n \in 1 .. bsent[w]
         /\ toHost[i].n \notin ToSet(lgot[w]) \cup ToSet(flush[w]) \cup ToSet(pend[w])
         /\ \A j \in FramesIn(toHost, w) : toHost[i].n = toHost[j].n => i = j

\* While a socket is open on both sides of a working tunnel, what its browser
\* has not received is on its way.
NoneSkipped ==
  \A w \in Ws :
    w \in clients /\ bsock[w] = "open" /\ tunnel = "up"
      => Len(bgot[w]) + Cardinality(FramesIn(ready, w)) + Cardinality(FramesIn(toHub, w)) = lsent[w]

\* Frames reach the browser in the order the local app sent them and none
\* twice, and, while the socket is open on both sides of a working tunnel,
\* none is skipped: what is missing is on its way.  The other way none is
\* doubled.
BrowserReceivesInOrder ==
  /\ TypeOK /\ LocalFrameAtMostOnce
  /\ \A w \in Ws : Increasing(bgot[w])
  /\ NoneSkipped

\* A close reaches the other side, unless the tunnel was lost: when a browser
\* has left, its local socket is closed, unless its ws_close overtook the
\* opening of that socket; when the local app closes its socket, the
\* browser's is closed too.  The browsers of a tunnel found lost are closed.
CloseReachesOtherSide ==
  \A w \in Ws :
    /\ bpc[w] = "left" ~> (lsock[w] # "open" \/ w \in early \/ tunnel # "up")
    /\ lsock[w] = "closed" ~> (bsock[w] = "closed" \/ tunnel # "up")
    /\ w \in clients /\ tunnel = "down" ~> bsock[w] = "closed"

-----------------------------------------------------------------------------
(* What the documentation says and the code does not do *)

\* The frames of a browser reach the local app in the order they were sent.
LocalReceivesInOrder == \A w \in Ws : Increasing(lgot[w])

(* The inductive invariant behind BrowserReceivesInOrder *)

\* A socket is opened once: its browser sends nothing before it joined, the
\* one open it sends then is read once, and the local app answers only after.
OpenedOnce ==
  \A w \in Ws :
    /\ bpc[w] \in {"idle", "accepting"} =>
         /\ opc[w] = "none" /\ bsent[w] = 0
         /\ \A i \in DOMAIN toHost : toHost[i].ws # w
    /\ \A i \in DOMAIN toHost : toHost[i].ws = w /\ toHost[i].kind = "open" =>
         /\ opc[w] = "none"
         /\ \A j \in DOMAIN toHost : toHost[j].ws = w /\ toHost[j].kind = "open" => i = j
    /\ opc[w] \in {"none", "connecting", "flushing"} => lsent[w] = 0

\* What the local app sent lies in its order: what the browser received, then
\* the tasks that wait to run, then what is on the tunnel.
FramesInOrder ==
  \A w \in Ws :
    /\ Increasing(bgot[w])
    /\ \A i \in DOMAIN bgot[w] : bgot[w][i] <= lsent[w]
    /\ \A i \in FramesIn(ready, w) :
         /\ ready[i].n \in 1 .. lsent[w]
         /\ \A j \in DOMAIN bgot[w] : bgot[w][j] < ready[i].n
         /\ \A j \in FramesIn(ready, w) : i < j => ready[i].n < ready[j].n
    /\ \A i \in FramesIn(toHub, w) :
         /\ toHub[i].n \in 1 .. lsent[w]
         /\ \A j \in DOMAIN bgot[w] : bgot[w][j] < toHub[i].n
         /\ \A j \in FramesIn(ready, w) : ready[j].n < toHub[i].n
         /\ \A j \in FramesIn(toHub, w) : i < j => toHub[i].n < toHub[j].n

SocketsInv == TypeOK /\ LocalFrameAtMostOnce /\ OpenedOnce /\ FramesInOrder /\ NoneSkipped
=============================================================================
