--------------------------- MODULE ProxiedSockets ---------------------------
(***************************************************************************)
(* The WebSockets of an app that a browser page uses through a secure      *)
(* session which is established: the page's WebSocket replacement          *)
(* (static/p2p/viewer.html), the host's SecureProxySession on one relay    *)
(* link (p2p/secure_relay.py) and its DataChannelProxy (p2p/proxy.py),     *)
(* which connects a local WebSocket for each and copies both ways.         *)
(*                                                                         *)
(* Sockets are named by short ids, which the page's counter hands out      *)
(* modulo 1000, here modulo Ids.  A socket that is still in use when the   *)
(* turn of its id comes again is left out, and so are the sealing of       *)
(* frames, text from the app while the link is up, and responses.          *)
(***************************************************************************)
EXTENDS Integers, Sequences

CONSTANTS
  Ids,     \* number of socket ids
  Opened,  \* bound: sockets the page opens
  Texts,   \* bound: text frames that the page sends on a socket
  Images,  \* bound: binary frames that the app sends, on all sockets
  None

ConstantsAssumption ==
  /\ {Ids, Opened} \subseteq Nat \ {0}
  /\ {Texts, Images} \subseteq Nat
  /\ None \notin 1 .. Opened

\* The page's sockets in the order it opens them.  The local socket for one
\* bears its number.
Sock == 1 .. Opened
Id(b) == b % Ids
AllIds == 0 .. Ids - 1

VARIABLES
  link,     \* "up", "left" (the page is gone) or "lost" (the host's link)
  toHost, toPage,
  \* Page
  bstate,   \* socket -> "new", "connecting", "open" or "closed"
  clients,  \* wsClients: id -> socket
  \* Host
  hpc,      \* session: "running", "stopping", "clearing" or "stopped"
  opc,      \* socket -> its _handle_ws_open task: "none", "opening" or "done"
  conns,    \* _ws_connections: id -> local socket
  lstate,   \* local socket: "none", "open" or "closed"
  reader,   \* socket -> _ws_read_loop: "none", "reading" or "done"
  latest,   \* socket -> latest_binary: a frame number, 0 if empty
  http,     \* a request: "none", "sent", then its _handle_http task: "created",
            \* "asking" or "done"
  client,   \* whether _http_client is there
  stops,    \* sockets stop() still has to close
  \* The number of the last frame sent and received
  texts, gotText, images, gotImage,
  \* History
  wrong,    \* a frame reached the wrong socket, or in the wrong order
  orphans,  \* sockets that the page closed while the host was opening them
  late      \* local sockets, and the request (0), that stop() cannot know, and
            \* local sockets that were given up

queues == <<toHost, toPage>>
pages  == <<bstate, clients>>
calls  == <<http, client>>
locals == <<opc, conns, lstate, reader, latest>>
counts == <<texts, gotText, images, gotImage, wrong, orphans>>
vars == <<link, queues, pages, hpc, calls, locals, stops, counts, late>>

Frame(what, b, n) == [what |-> what, id |-> Id(b), from |-> b, n |-> n]
Control(what, b) == Frame(what, b, 0)
Other(what) == [what |-> what, id |-> None]

Init ==
  /\ link = "up"
  /\ toHost = <<>> /\ toPage = <<>>
  /\ bstate = [b \in Sock |-> "new"]
  /\ clients = [i \in AllIds |-> None]
  /\ hpc = "running"
  /\ opc = [b \in Sock |-> "none"]
  /\ conns = [i \in AllIds |-> None]
  /\ lstate = [b \in Sock |-> "none"]
  /\ reader = [b \in Sock |-> "none"]
  /\ latest = [b \in Sock |-> 0]
  /\ http = "none"
  /\ client = TRUE
  /\ stops = {}
  /\ texts = [b \in Sock |-> 0] /\ gotText = texts
  /\ images = texts /\ gotImage = texts
  /\ wrong = FALSE
  /\ orphans = {} /\ late = {}

\* What the host sends on a lost link raises; the hub drops it when the page
\* has left.
ToPage(f) == toPage' = IF link = "up" THEN Append(toPage, f) ELSE toPage
ToHost(f) == toHost' = Append(toHost, f)

-----------------------------------------------------------------------------
(* The page (viewer.html) *)

\* Whether anything of an earlier socket with the id of b is left.
InUse(b) ==
  LET Same(f) == f.id = Id(b)
  IN \/ clients[Id(b)] # None \/ conns[Id(b)] # None
     \/ \E a \in Sock : Id(a) = Id(b) /\ (opc[a] = "opening" \/ reader[a] = "reading")
     \/ \E k \in DOMAIN toHost : Same(toHost[k])
     \/ \E k \in DOMAIN toPage : Same(toPage[k])

\* new WebSocket(url)
Opens(b) ==
  /\ link = "up"
  /\ bstate[b] = "new"
  /\ \A a \in Sock : a < b => bstate[a] # "new"
  /\ ~InUse(b)
  /\ bstate' = [bstate EXCEPT ![b] = "connecting"]
  /\ clients' = [clients EXCEPT ![Id(b)] = b]
  /\ ToHost(Control("ws_open", b))
  /\ UNCHANGED <<link, toPage, hpc, calls, locals, stops, counts, late>>

\* An app sends on open sockets only.
SendsText(b) ==
  /\ link = "up"
  /\ bstate[b] = "open"
  /\ texts[b] < Texts
  /\ texts' = [texts EXCEPT ![b] = @ + 1]
  /\ ToHost(Frame("ws_text", b, texts[b] + 1))
  /\ UNCHANGED <<link, toPage, pages, hpc, calls, locals, stops, gotText, images, gotImage, wrong,
                 orphans, late>>

\* Mutant: only the page's table is cleaned.
ClosesUnsaid(b) ==
  /\ link = "up"
  /\ bstate[b] \in {"connecting", "open"}
  /\ bstate' = [bstate EXCEPT ![b] = "closed"]
  /\ clients' = [clients EXCEPT ![Id(b)] = None]
  /\ UNCHANGED <<link, queues, hpc, calls, locals, stops, counts, late>>

\* close(): the entry of the id is deleted, whosever it is by now.
Closes(b) ==
  /\ link = "up"
  /\ bstate[b] \in {"connecting", "open"}
  /\ bstate' = [bstate EXCEPT ![b] = "closed"]
  /\ clients' = [clients EXCEPT ![Id(b)] = None]
  /\ ToHost(Control("ws_close", b))
  /\ UNCHANGED <<link, toPage, hpc, calls, locals, stops, counts, late>>

\* fetch(url)
Fetches ==
  /\ link = "up"
  /\ http = "none"
  /\ http' = "sent"
  /\ ToHost(Other("http"))
  /\ UNCHANGED <<link, toPage, pages, hpc, client, locals, stops, counts, late>>

\* onDcMessage: a frame whose id is not known is ignored.
PageReceives ==
  /\ toPage # <<>>
  /\ toPage' = Tail(toPage)
  /\ LET f == Head(toPage)
         b == clients[f.id]
     IN \/ /\ b = None
           /\ UNCHANGED <<pages, gotImage, wrong>>
        \/ /\ b # None /\ f.what = "ws_ready"
           /\ bstate' = [bstate EXCEPT ![b] = "open"]
           /\ UNCHANGED <<clients, gotImage, wrong>>
        \/ /\ b # None /\ f.what = "binary"
           /\ gotImage' = [gotImage EXCEPT ![b] = f.n]
           /\ wrong' = (wrong \/ f.from # b \/ f.n <= gotImage[b])
           /\ UNCHANGED pages
        \/ /\ b # None /\ f.what = "ws_close"
           /\ bstate' = [bstate EXCEPT ![b] = "closed"]
           /\ clients' = [clients EXCEPT ![f.id] = None]
           /\ UNCHANGED <<gotImage, wrong>>
  /\ UNCHANGED <<link, toHost, hpc, calls, locals, stops, texts, gotText, images, orphans, late>>

\* The page is closed: the hub tells the host.
PageLeaves ==
  /\ link = "up"
  /\ link' = "left"
  /\ toPage' = <<>>
  /\ ToHost(Other("leave"))
  /\ UNCHANGED <<pages, hpc, calls, locals, stops, counts, late>>

LinkDrops ==
  /\ link # "lost" /\ hpc = "running"
  /\ link' = "lost"
  /\ toHost' = <<>> /\ toPage' = <<>>
  /\ UNCHANGED <<pages, hpc, calls, locals, stops, counts, late>>

-----------------------------------------------------------------------------
(* The host: SecureProxySession.feed and DataChannelProxy.handle_message *)

\* _handle_http and _handle_ws_open become tasks.
RequestArrives(f) ==
  /\ f.what = "http"
  /\ http' = "created"
  /\ UNCHANGED <<opc, conns, lstate, gotText, wrong, orphans>>

OpenArrives(f) ==
  /\ f.what = "ws_open"
  /\ opc' = [opc EXCEPT ![f.from] = "opening"]
  /\ UNCHANGED <<http, conns, lstate, gotText, wrong, orphans>>

TextArrives(f) ==
  /\ f.what = "ws_text"
  /\ LET b == conns[f.id]
         takes == b # None /\ lstate[b] = "open"
     IN /\ gotText' = IF takes THEN [gotText EXCEPT ![b] = f.n] ELSE gotText
        /\ wrong' = (wrong \/ (takes /\ (f.from # b \/ f.n # gotText[b] + 1)))
  /\ UNCHANGED <<http, opc, conns, lstate, orphans>>

CloseArrives(f) ==
  /\ f.what = "ws_close"
  /\ LET b == conns[f.id]
     IN /\ conns' = [conns EXCEPT ![f.id] = None]
        /\ lstate' = IF b # None THEN [lstate EXCEPT ![b] = "closed"] ELSE lstate
  /\ orphans' = IF opc[f.from] = "opening" THEN orphans \cup {f.from} ELSE orphans
  /\ UNCHANGED <<http, opc, gotText, wrong>>

HostReceives ==
  /\ hpc = "running"
  /\ toHost # <<>>
  /\ Head(toHost).what # "leave"
  /\ toHost' = Tail(toHost)
  /\ LET f == Head(toHost)
     IN RequestArrives(f) \/ OpenArrives(f) \/ TextArrives(f) \/ CloseArrives(f)
  /\ UNCHANGED <<link, toPage, pages, hpc, client, reader, latest, stops, texts, images, gotImage,
                 late>>

-----------------------------------------------------------------------------
(* Tasks of the proxy *)

\* Binary frames are numbered over all sockets.
IsNextImage(n) ==
  /\ \A b \in Sock : images[b] < n
  /\ n = 1 \/ \E b \in Sock : images[b] = n - 1

\* _handle_http: a client that stop() has dropped is made again.
RequestStarts ==
  /\ http = "created"
  /\ http' = "asking"
  /\ client' = TRUE
  /\ UNCHANGED <<link, queues, pages, hpc, locals, stops, counts, late>>

\* The app answers, or its failure is answered with 502.  What the page does
\* with the response is left out.
RequestEnds ==
  /\ http = "asking"
  /\ http' = "done"
  /\ UNCHANGED <<link, queues, pages, hpc, client, locals, stops, counts, late>>

\* _handle_ws_open: the local socket is known and announced; its reader starts
\* unless the announcement raises.
OpenSucceeds(b) ==
  /\ opc[b] = "opening"
  /\ opc' = [opc EXCEPT ![b] = "done"]
  /\ lstate' = [lstate EXCEPT ![b] = "open"]
  /\ conns' = [conns EXCEPT ![Id(b)] = b]
  /\ reader' = [reader EXCEPT ![b] = IF link = "lost" THEN "none" ELSE "reading"]
  /\ ToPage(Control("ws_ready", b))
  /\ UNCHANGED <<link, toHost, pages, hpc, calls, latest, stops, counts, late>>

OpenFails(b) ==
  /\ opc[b] = "opening"
  /\ opc' = [opc EXCEPT ![b] = "done"]
  /\ ToPage(Control("ws_close", b))
  /\ UNCHANGED <<link, toHost, pages, hpc, calls, conns, lstate, reader, latest, stops,
                 counts, late>>

\* _ws_read_loop: sending text on a lost link ends the loop, which forgets the
\* local socket without closing it.
TextRaises(b) ==
  /\ lstate[b] = "open" /\ reader[b] = "reading"
  /\ link = "lost"
  /\ reader' = [reader EXCEPT ![b] = "done"]
  /\ latest' = [latest EXCEPT ![b] = 0]
  /\ conns' = [conns EXCEPT ![Id(b)] = None]
  /\ late' = late \cup {b}
  /\ UNCHANGED <<link, queues, pages, hpc, calls, opc, lstate, stops, counts>>

\* Mutant: the frame that waits is kept.
AppSendsImageUnlessFull(b) ==
  /\ lstate[b] = "open" /\ reader[b] = "reading"
  /\ \E n \in 1 .. Images :
       /\ IsNextImage(n)
       /\ images' = [images EXCEPT ![b] = n]
       /\ latest' = [latest EXCEPT ![b] = IF @ = 0 THEN n ELSE @]
  /\ UNCHANGED <<link, queues, pages, hpc, calls, opc, conns, lstate, reader, stops,
                 texts, gotText, gotImage, wrong, orphans, late>>

\* A binary frame takes the place of one that was not sent yet.
AppSendsImage(b) ==
  /\ lstate[b] = "open" /\ reader[b] = "reading"
  /\ \E n \in 1 .. Images :
       /\ IsNextImage(n)
       /\ images' = [images EXCEPT ![b] = n]
       /\ latest' = [latest EXCEPT ![b] = n]
  /\ UNCHANGED <<link, queues, pages, hpc, calls, opc, conns, lstate, reader, stops,
                 texts, gotText, gotImage, wrong, orphans, late>>

\* The loop's sender task
SenderSends(b) ==
  /\ latest[b] # 0
  /\ latest' = [latest EXCEPT ![b] = 0]
  /\ ToPage(Frame("binary", b, latest[b]))
  /\ UNCHANGED <<link, toHost, pages, hpc, calls, opc, conns, lstate, reader, stops,
                 counts, late>>

AppCloses(b) ==
  /\ lstate[b] = "open"
  /\ lstate' = [lstate EXCEPT ![b] = "closed"]
  /\ UNCHANGED <<link, queues, pages, hpc, calls, opc, conns, reader, latest, stops,
                 counts, late>>

\* Mutant: the sender task is not cancelled.
ReaderEndsSending(b) ==
  /\ reader[b] = "reading" /\ lstate[b] = "closed"
  /\ reader' = [reader EXCEPT ![b] = "done"]
  /\ conns' = [conns EXCEPT ![Id(b)] = None]
  /\ ToPage(Control("ws_close", b))
  /\ UNCHANGED <<link, toHost, pages, hpc, calls, opc, lstate, latest, stops, counts, late>>

\* The loop ends with its socket: a frame that waits is dropped, the entry of
\* the id is deleted, whosever it is, and the page is told.
ReaderEnds(b) ==
  /\ reader[b] = "reading" /\ lstate[b] = "closed"
  /\ reader' = [reader EXCEPT ![b] = "done"]
  /\ latest' = [latest EXCEPT ![b] = 0]
  /\ conns' = [conns EXCEPT ![Id(b)] = None]
  /\ ToPage(Control("ws_close", b))
  /\ UNCHANGED <<link, toHost, pages, hpc, calls, opc, lstate, stops, counts, late>>

-----------------------------------------------------------------------------
(* The end of the session: SecureProxySession.stop, DataChannelProxy.stop *)

\* The page's leave arrives, the link was lost, or the host is stopped.
StopBegins ==
  /\ hpc = "running"
  /\ hpc' = "stopping"
  /\ stops' = {conns[i] : i \in AllIds} \ {None}
  /\ late' = late \cup {b \in Sock : opc[b] = "opening"}
                    \cup (IF http = "created" THEN {0} ELSE {})
  /\ UNCHANGED <<link, pages, calls, locals, counts>>

LeaveArrives ==
  /\ toHost # <<>> /\ Head(toHost).what = "leave"
  /\ StopBegins
  /\ UNCHANGED queues

LossNoticed == link = "lost" /\ StopBegins /\ UNCHANGED queues

StopCloses(b) ==
  /\ hpc = "stopping"
  /\ b \in stops
  /\ stops' = stops \ {b}
  /\ lstate' = [lstate EXCEPT ![b] = "closed"]
  /\ UNCHANGED <<link, queues, pages, hpc, calls, opc, conns, reader, latest, counts, late>>

\* Mutant: the connections are forgotten, not closed.
StopClearsUnclosed ==
  /\ hpc = "stopping"
  /\ hpc' = "clearing"
  /\ conns' = [i \in AllIds |-> None]
  /\ UNCHANGED <<link, queues, pages, calls, opc, lstate, reader, latest, stops, counts, late>>

StopClears ==
  /\ hpc = "stopping" /\ stops = {}
  /\ hpc' = "clearing"
  /\ conns' = [i \in AllIds |-> None]
  /\ UNCHANGED <<link, queues, pages, calls, opc, lstate, reader, latest, stops, counts, late>>

\* The client's aclose() is awaited.
StopEnds ==
  /\ hpc = "clearing"
  /\ hpc' = "stopped"
  /\ client' = FALSE
  /\ UNCHANGED <<link, queues, pages, http, locals, stops, counts, late>>

-----------------------------------------------------------------------------
Page == PageReceives \/ Fetches \/ PageLeaves \/ \E b \in Sock : Opens(b) \/ SendsText(b) \/ Closes(b)
Opening(b) == OpenSucceeds(b) \/ OpenFails(b)
App(b) == AppSendsImage(b) \/ AppCloses(b) \/ TextRaises(b)
StopBegun == LeaveArrives \/ LossNoticed
Request == RequestStarts \/ RequestEnds
Stop == StopClears \/ StopEnds \/ \E b \in Sock : StopCloses(b)

Next ==
  \/ Page \/ HostReceives \/ LinkDrops
  \/ \E b \in Sock : Opening(b) \/ App(b) \/ SenderSends(b) \/ ReaderEnds(b)
  \/ Request \/ StopBegun \/ Stop

\* Frames on a link that is up arrive, the host's tasks run, connecting to
\* the app succeeds or fails, and a session whose link is gone is stopped.
Fairness ==
  /\ WF_vars(PageReceives) /\ WF_vars(HostReceives)
  /\ WF_vars(Request) /\ WF_vars(StopBegun) /\ WF_vars(Stop)
  /\ \A b \in Sock : WF_vars(Opening(b)) /\ WF_vars(SenderSends(b)) /\ WF_vars(ReaderEnds(b))

Spec == Init /\ [][Next]_vars
FairSpec == Spec /\ Fairness

-----------------------------------------------------------------------------
(* Properties *)

\* Every variable has its type.
TypeOK ==
  /\ link \in {"up", "left", "lost"}
  /\ bstate \in [Sock -> {"new", "connecting", "open", "closed"}]
  /\ clients \in [AllIds -> Sock \cup {None}]
  /\ hpc \in {"running", "stopping", "clearing", "stopped"}
  /\ http \in {"none", "sent", "created", "asking", "done"} /\ client \in BOOLEAN
  /\ opc \in [Sock -> {"none", "opening", "done"}]
  /\ conns \in [AllIds -> Sock \cup {None}]
  /\ lstate \in [Sock -> {"none", "open", "closed"}]
  /\ reader \in [Sock -> {"none", "reading", "done"}]
  /\ latest \in [Sock -> 0 .. Images]
  /\ stops \subseteq Sock
  /\ {texts, gotText} \subseteq [Sock -> 0 .. Texts]
  /\ {images, gotImage} \subseteq [Sock -> 0 .. Images]
  /\ orphans \subseteq Sock /\ late \subseteq {0} \cup Sock

\* Frames of a socket reach its other end only, although ids are used again;
\* text is complete and in order and binary frames never go back.
FramesReachTheirSocket == ~wrong

\* A session that was stopped has no local socket open and no HTTP client but
\* those that were being opened or asked for when stop() began, or had been
\* given up before.
StoppedSessionHoldsNothing ==
  hpc = "stopped" =>
    /\ \A b \in Sock : lstate[b] = "open" => b \in late
    /\ client => 0 \in late

\* All of the session's variables keep their types, and stop() leaves nothing.
ProxyInv == TypeOK /\ StoppedSessionHoldsNothing

\* A socket that one side closes is closed on the other, while the link is
\* up; but the local socket stays open if the page closed it too early.
CloseReachesOtherSide ==
  \A b \in Sock :
    /\ bstate[b] = "closed" /\ lstate[b] = "open" ~>
         lstate[b] = "closed" \/ b \in orphans \/ link # "up"
    /\ lstate[b] = "closed" ~> bstate[b] = "closed" \/ link # "up"

\* The newest binary frame is shown in the end, however many it overtook.
NewestImageArrives ==
  \A b \in Sock, n \in 1 .. Images :
    images[b] = n ~>
      \/ gotImage[b] >= n \/ images[b] > n
      \/ "closed" \in {lstate[b], bstate[b]} \/ link # "up"
-----------------------------------------------------------------------------
(* The inductive invariant behind FramesReachTheirSocket and ProxyInv *)

HostFrame == {f \in [what : {"ws_open", "ws_text", "ws_close"}, id : AllIds, from : Sock, n : 0 .. Texts] :
                f.id = Id(f.from)}
PageFrame == {f \in [what : {"ws_ready", "binary", "ws_close"}, id : AllIds, from : Sock, n : 0 .. Images] :
                f.id = Id(f.from)}

\* What is on the link has its type, and a lost link holds nothing.
QueuesOK ==
  /\ toHost \in Seq(HostFrame \cup {Other("http"), Other("leave")})
  /\ toPage \in Seq(PageFrame)
  /\ link = "lost" => toHost = <<>>

\* Where the frames of socket b stand on the link.
ToHostOf(b) == {k \in DOMAIN toHost : toHost[k] \in HostFrame /\ toHost[k].from = b}
ToPageOf(b) == {k \in DOMAIN toPage : toPage[k].from = b}
TextsOf(b)  == {k \in ToHostOf(b) : toHost[k].what = "ws_text"}
ImagesOf(b) == {k \in ToPageOf(b) : toPage[k].what = "binary"}

\* Whether anything holds the id of socket b for it.
Uses(b) ==
  \/ clients[Id(b)] = b \/ conns[Id(b)] = b
  \/ opc[b] = "opening" \/ reader[b] = "reading"
  \/ ToHostOf(b) # {} \/ ToPageOf(b) # {}

\* No two sockets hold one id.
OnePerId == \A a, b \in Sock : Id(a) = Id(b) /\ Uses(a) /\ Uses(b) => a = b

\* What each side knows of a socket.  It is opened once; the page knows it
\* while it is not closed, and holds it to be open only if it was.
SocketsKnown ==
  /\ \A i \in AllIds : clients[i] # None => Id(clients[i]) = i /\ bstate[clients[i]] \in {"connecting", "open"}
  /\ \A i \in AllIds : conns[i] # None => Id(conns[i]) = i /\ lstate[conns[i]] # "none"
  /\ \A b \in stops : lstate[b] # "none"
  /\ \A b \in Sock :
       /\ bstate[b] = "new" => opc[b] = "none" /\ ToHostOf(b) = {}
       /\ bstate[b] \in {"connecting", "open"} => clients[Id(b)] = b
       /\ bstate[b] = "open" => lstate[b] # "none"
       /\ \A k \in ToHostOf(b) : toHost[k].what = "ws_open" =>
            /\ opc[b] = "none"
            /\ \A l \in ToHostOf(b) : toHost[l].what = "ws_open" => k = l
       /\ \A k \in ToPageOf(b) : toPage[k].what = "ws_ready" => lstate[b] # "none"
       /\ opc[b] \in {"none", "opening"} => lstate[b] = "none"

\* The text of a socket lies on the link in its order, and while its local
\* socket is known and open there is all of it that was not received.
TextsInOrder ==
  \A b \in Sock :
    /\ gotText[b] <= texts[b]
    /\ lstate[b] = "none" => texts[b] = 0
    /\ \A k \in TextsOf(b) :
         /\ toHost[k].n \in 1 .. texts[b]
         /\ \A l \in TextsOf(b) : k < l => toHost[k].n < toHost[l].n
    /\ conns[Id(b)] = b /\ lstate[b] = "open" /\ link # "lost" =>
         /\ \A k \in TextsOf(b) : gotText[b] < toHost[k].n
         /\ \A n \in gotText[b] + 1 .. texts[b] : \E k \in TextsOf(b) : toHost[k].n = n

\* So do the binary frames of a socket, and what waits to be sent is newer.
ImagesInOrder ==
  \A b \in Sock :
    /\ gotImage[b] <= images[b]
    /\ lstate[b] = "none" => images[b] = 0
    /\ \A k \in ImagesOf(b) :
         /\ gotImage[b] < toPage[k].n /\ toPage[k].n <= images[b]
         /\ \A l \in ImagesOf(b) : k < l => toPage[k].n < toPage[l].n
    /\ latest[b] # 0 =>
         /\ reader[b] = "reading"
         /\ gotImage[b] < latest[b] /\ latest[b] <= images[b]
         /\ \A k \in ImagesOf(b) : toPage[k].n < latest[b]

\* An open local socket is known, will be closed by stop(), or is late; a
\* request that will make a client after stop() began is late, too.
StopKnows ==
  /\ \A b \in Sock : lstate[b] = "open" =>
       \/ b \in late
       \/ hpc = "running" /\ conns[Id(b)] = b
       \/ hpc = "stopping" /\ b \in stops
  /\ hpc # "running" =>
       /\ \A b \in Sock : opc[b] = "opening" => b \in late
       /\ http = "created" => 0 \in late
  /\ hpc = "stopped" /\ client => 0 \in late

SessionInv ==
  /\ TypeOK /\ QueuesOK /\ OnePerId /\ SocketsKnown /\ TextsInOrder /\ ImagesInOrder /\ StopKnows
  /\ ~wrong
=============================================================================
