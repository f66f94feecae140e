---------------------------- MODULE AccessTunnel ----------------------------
(***************************************************************************)
(* HTTP over the access hub (access/remote.py): the hub keeps one          *)
(* HostTunnel per connected host, turns every browser request into a       *)
(* message on that tunnel and waits for the answer, which large bodies     *)
(* send in chunks; the TunnelClient on the host reconnects when the tunnel *)
(* is lost.  One host is modelled; its tunnels are its successive, and     *)
(* sometimes overlapping, connections.                                     *)
(*                                                                         *)
(* A tunnel's two directions are FIFO channels: toHost stands for the send *)
(* queue, the writer coroutine and the socket, toHub for the socket alone. *)
(* When the link goes down each end may still read what had arrived before *)
(* it notices.  REQUEST_TIMEOUT may fire at any moment after a request was *)
(* sent: how long anything takes is not assumed.                           *)
(***************************************************************************)
EXTENDS Integers, Sequences, FiniteSets

CONSTANTS
  Tun,        \* tunnel connections, each used once
  Req,        \* request ids (secrets.token_hex: never repeated)
  None,       \* Python's None
  MaxChunks   \* bound: chunks of TUNNEL_BODY_CHUNK_SIZE in a body

ASSUME ConstantsAssumption ==
  /\ None \notin Tun
  /\ MaxChunks \in Nat \ {0}

VARIABLES
  \* TunnelClient
  running,     \* _running
  cpc,         \* where run() is
  cur,         \* _tunnel_ws: the tunnel it relays, or None
  job,         \* request -> state of its _handle_http task
  jobTun,      \* request -> the tunnel_ws that task holds
  size,        \* request -> chunks of the local app's answer
  sent,        \* request -> chunks sent so far
  \* The network
  link,        \* tunnel -> "new", "up" or "down"
  toHost,      \* tunnel -> requests on their way to the host
  toHub,       \* tunnel -> answers on their way to the hub
  \* The hub
  tunnels,     \* the registered HostTunnel of the host, or None
  tpc,         \* tunnel -> where its host_tunnel handler is
  pending,     \* tunnel -> _pending: the requests with a future
  chunked,     \* tunnel -> request -> partial answer: total and indices got
  rpc,         \* request -> where http_proxy is
  reqTun,      \* request -> the tunnel it looked up
  fut,         \* request -> state of its future
  answer       \* request -> what the future holds: whose answer, which chunks

client  == <<running, cpc, cur>>
jobs    == <<job, jobTun, size, sent>>
hub     == <<tunnels, tpc>>
answers == <<pending, chunked>>
request == <<rpc, reqTun>>
future  == <<fut, answer>>
vars == <<client, jobs, link, toHost, toHub, hub, answers, request, future>>

NoPartial == [total |-> 0, got |-> {}]
Answer(r, n, S) == [of |-> r, total |-> n, got |-> S]

Init ==
  /\ running = TRUE
  /\ cpc = "top"
  /\ cur = None
  /\ job = [r \in Req |-> "none"]
  /\ jobTun = [r \in Req |-> None]
  /\ size = [r \in Req |-> 0]
  /\ sent = [r \in Req |-> 0]
  /\ link = [t \in Tun |-> "new"]
  /\ toHost = [t \in Tun |-> <<>>]
  /\ toHub = [t \in Tun |-> <<>>]
  /\ tunnels = None
  /\ tpc = [t \in Tun |-> "none"]
  /\ pending = [t \in Tun |-> {}]
  /\ chunked = [t \in Tun |-> [r \in Req |-> NoPartial]]
  /\ rpc = [r \in Req |-> "idle"]
  /\ reqTun = [r \in Req |-> None]
  /\ fut = [r \in Req |-> "none"]
  /\ answer = [r \in Req |-> Answer(r, 0, {})]

-----------------------------------------------------------------------------
(* TunnelClient.run and stop *)

\* while self._running
LoopTop ==
  /\ cpc = "top"
  /\ cpc' = IF running THEN "connecting" ELSE "ended"
  /\ UNCHANGED <<running, cur, jobs, link, toHost, toHub, hub, answers, request, future>>

\* websockets.connect and the welcome: the hub's handler starts.
ConnectOk(t) ==
  /\ cpc = "connecting"
  /\ link[t] = "new"
  /\ link' = [link EXCEPT ![t] = "up"]
  /\ tpc' = [tpc EXCEPT ![t] = "arrived"]
  /\ cpc' = "relaying"
  /\ cur' = t
  /\ UNCHANGED <<running, jobs, toHost, toHub, tunnels, answers, request, future>>

\* An exception: sleep and retry if still running.
ConnectFails ==
  /\ cpc = "connecting"
  /\ cpc' = IF running THEN "sleeping" ELSE "top"
  /\ UNCHANGED <<running, cur, jobs, link, toHost, toHub, hub, answers, request, future>>

Wake ==
  /\ cpc = "sleeping"
  /\ cpc' = "top"
  /\ UNCHANGED <<running, cur, jobs, link, toHost, toHub, hub, answers, request, future>>

\* The message loop ends: normally (the peer closed) or with an exception.
ClientNotices ==
  /\ cpc = "relaying"
  /\ link[cur] = "down"
  /\ cpc' \in {"top"} \cup (IF running THEN {"sleeping"} ELSE {})
  /\ cur' = None
  /\ UNCHANGED <<running, jobs, link, toHost, toHub, hub, answers, request, future>>

\* stop() closes the tunnel it has, if it has one.
Stop ==
  /\ running
  /\ running' = FALSE
  /\ link' = [t \in Tun |-> IF t = cur THEN "down" ELSE link[t]]
  /\ UNCHANGED <<cpc, cur, jobs, toHost, toHub, hub, answers, request, future>>

LinkDrops(t) ==
  /\ link[t] = "up"
  /\ link' = [link EXCEPT ![t] = "down"]
  /\ UNCHANGED <<client, jobs, toHost, toHub, hub, answers, request, future>>

-----------------------------------------------------------------------------
(* _handle_http: one task per request *)

HostReceives ==
  /\ cpc = "relaying"
  /\ toHost[cur] # <<>>
  /\ toHost' = [toHost EXCEPT ![cur] = Tail(@)]
  /\ job' = [job EXCEPT ![Head(toHost[cur])] = "requesting"]
  /\ jobTun' = [jobTun EXCEPT ![Head(toHost[cur])] = cur]
  /\ UNCHANGED <<client, size, sent, link, toHub, hub, answers, request, future>>

\* The local app answers with a body of n chunks (an error is one chunk).
LocalAnswers(r, n) ==
  /\ job[r] = "requesting"
  /\ job' = [job EXCEPT ![r] = "sending"]
  /\ size' = [size EXCEPT ![r] = n]
  /\ UNCHANGED <<client, jobTun, sent, link, toHost, toHub, hub, answers, request, future>>

Message(r) ==
  [kind  |-> IF size[r] = 1 THEN "whole" ELSE IF sent[r] = 0 THEN "start" ELSE "chunk",
   req   |-> r,
   index |-> sent[r],
   total |-> size[r]]

\* Mutant: the answer goes to the current tunnel, not the one that asked.
HostSendsOnCurrent(r) ==
  /\ job[r] = "sending"
  /\ cur # None
  /\ link[cur] = "up"
  /\ toHub' = [toHub EXCEPT ![cur] = Append(@, Message(r))]
  /\ sent' = [sent EXCEPT ![r] = @ + 1]
  /\ job' = [job EXCEPT ![r] = IF sent[r] + 1 = size[r] THEN "done" ELSE @]
  /\ UNCHANGED <<client, jobTun, size, link, toHost, hub, answers, request, future>>

HostSends(r) ==
  /\ job[r] = "sending"
  /\ link[jobTun[r]] = "up"
  /\ toHub' = [toHub EXCEPT ![jobTun[r]] = Append(@, Message(r))]
  /\ sent' = [sent EXCEPT ![r] = @ + 1]
  /\ job' = [job EXCEPT ![r] = IF sent[r] + 1 = size[r] THEN "done" ELSE @]
  /\ UNCHANGED <<client, jobTun, size, link, toHost, hub, answers, request, future>>

\* Sending fails, and so does sending the error: the task dies.
HostSendFails(r) ==
  /\ job[r] = "sending"
  /\ link[jobTun[r]] = "down"
  /\ job' = [job EXCEPT ![r] = "done"]
  /\ UNCHANGED <<client, jobTun, size, sent, link, toHost, toHub, hub, answers, request, future>>

-----------------------------------------------------------------------------
(* host_tunnel and HostTunnel.run *)

\* The handler has accepted and sent the welcome; it closes the tunnel that is
\* registered (an await) or registers at once.
TunnelArrives(t) ==
  /\ tpc[t] = "arrived"
  /\ IF tunnels # None
     THEN /\ link' = [link EXCEPT ![tunnels] = "down"]
          /\ tpc' = [tpc EXCEPT ![t] = "replacing"]
          /\ UNCHANGED tunnels
     ELSE /\ tunnels' = t
          /\ tpc' = [tpc EXCEPT ![t] = "running"]
          /\ UNCHANGED link
  /\ UNCHANGED <<client, jobs, toHost, toHub, answers, request, future>>

TunnelReplaces(t) ==
  /\ tpc[t] = "replacing"
  /\ tunnels' = t
  /\ tpc' = [tpc EXCEPT ![t] = "running"]
  /\ UNCHANGED <<client, jobs, link, toHost, toHub, answers, request, future>>

\* reader or writer failed: every pending future fails (run's finally), then
\* the browsers' sockets are closed, one await each.
TunnelFails(t) ==
  /\ tpc[t] = "running"
  /\ link[t] = "down"
  /\ tpc' = [tpc EXCEPT ![t] = "closing"]
  /\ fut' = [r \in Req |-> IF r \in pending[t] /\ fut[r] = "waiting" THEN "error" ELSE fut[r]]
  /\ pending' = [pending EXCEPT ![t] = {}]
  /\ UNCHANGED <<client, jobs, link, toHost, toHub, tunnels, chunked, request, answer>>

\* Mutant: nobody is removed.
TunnelGoneKept(t) ==
  /\ tpc[t] = "closing"
  /\ tpc' = [tpc EXCEPT ![t] = "done"]
  /\ UNCHANGED <<client, jobs, link, toHost, toHub, tunnels, answers, request, future>>

\* host_tunnel's finally: unregister, unless another tunnel took the place.
TunnelGone(t) ==
  /\ tpc[t] = "closing"
  /\ tpc' = [tpc EXCEPT ![t] = "done"]
  /\ tunnels' = IF tunnels = t THEN None ELSE tunnels
  /\ UNCHANGED <<client, jobs, link, toHost, toHub, answers, request, future>>

-----------------------------------------------------------------------------
(* _handle_message: what an answer, or a part of one, does *)

\* Mutant: one chunk too early.
CompleteButOne(p) == Cardinality(p.got) >= p.total - 1

Complete(p) == Cardinality(p.got) >= p.total

\* The partial answer after message m; a chunk without a start is dropped.
Received(p, m) ==
  CASE m.kind = "start" -> [total |-> m.total, got |-> {m.index}]
    [] m.kind = "chunk" /\ p # NoPartial -> [p EXCEPT !.got = @ \cup {m.index}]
    [] OTHER -> p

\* _resolve_response
Resolve(t, r, a) ==
  IF r \in pending[t] /\ fut[r] = "waiting"
  THEN /\ fut' = [fut EXCEPT ![r] = "result"]
       /\ answer' = [answer EXCEPT ![r] = a]
  ELSE UNCHANGED future

HubReads(t) ==
  LET m == Head(toHub[t])
      p == Received(chunked[t][m.req], m)
  IN /\ tpc[t] = "running"
     /\ toHub[t] # <<>>
     /\ toHub' = [toHub EXCEPT ![t] = Tail(@)]
     /\ IF m.kind = "whole"
        THEN /\ Resolve(t, m.req, Answer(m.req, 1, {0}))
             /\ UNCHANGED chunked
        ELSE IF p # NoPartial /\ Complete(p)
             THEN /\ Resolve(t, m.req, Answer(m.req, p.total, p.got))
                  /\ chunked' = [chunked EXCEPT ![t][m.req] = NoPartial]
             ELSE /\ chunked' = [chunked EXCEPT ![t][m.req] = p]
                  /\ UNCHANGED future
     /\ UNCHANGED <<client, jobs, link, toHost, hub, pending, request>>

-----------------------------------------------------------------------------
(* http_proxy and HostTunnel.proxy_request *)

\* Look the tunnel up (502 without one); then await the request's body.
Ask(r) ==
  /\ rpc[r] = "idle"
  /\ reqTun' = [reqTun EXCEPT ![r] = tunnels]
  /\ rpc' = [rpc EXCEPT ![r] = IF tunnels = None THEN "done" ELSE "body"]
  /\ UNCHANGED <<client, jobs, link, toHost, toHub, hub, answers, future>>

\* Register the future and queue the request, on a tunnel that may be dead.
Send(r) ==
  LET t == reqTun[r]
  IN /\ rpc[r] = "body"
     /\ rpc' = [rpc EXCEPT ![r] = "waiting"]
     /\ fut' = [fut EXCEPT ![r] = "waiting"]
     /\ pending' = [pending EXCEPT ![t] = @ \cup {r}]
     /\ toHost' = [toHost EXCEPT ![t] = Append(@, r)]
     /\ UNCHANGED <<client, jobs, link, toHub, hub, chunked, reqTun, answer>>

\* The future is done: the request continues.
Resume(r) ==
  /\ rpc[r] = "waiting"
  /\ fut[r] \in {"result", "error"}
  /\ rpc' = [rpc EXCEPT ![r] = "done"]
  /\ pending' = [pending EXCEPT ![reqTun[r]] = @ \ {r}]
  /\ UNCHANGED <<client, jobs, link, toHost, toHub, hub, chunked, reqTun, future>>

\* wait_for gives up and cancels the future.
Timeout(r) ==
  /\ rpc[r] = "waiting"
  /\ fut[r] = "waiting"
  /\ rpc' = [rpc EXCEPT ![r] = "done"]
  /\ fut' = [fut EXCEPT ![r] = "cancelled"]
  /\ pending' = [pending EXCEPT ![reqTun[r]] = @ \ {r}]
  /\ UNCHANGED <<client, jobs, link, toHost, toHub, hub, chunked, reqTun, answer>>

-----------------------------------------------------------------------------
ClientNext ==
  \/ LoopTop
  \/ \E t \in Tun : ConnectOk(t)
  \/ ConnectFails
  \/ Wake
  \/ ClientNotices
  \/ HostReceives

JobNext(r) ==
  \/ \E n \in 1 .. MaxChunks : LocalAnswers(r, n)
  \/ HostSends(r)
  \/ HostSendFails(r)

TunnelNext(t) ==
  \/ TunnelArrives(t)
  \/ TunnelReplaces(t)
  \/ TunnelFails(t)
  \/ TunnelGone(t)
  \/ HubReads(t)

RequestNext(r) == Ask(r) \/ Send(r) \/ Resume(r) \/ Timeout(r)

Next ==
  \/ ClientNext
  \/ Stop
  \/ \E t \in Tun : LinkDrops(t) \/ TunnelNext(t)
  \/ \E r \in Req : JobNext(r) \/ RequestNext(r)

\* The event loops of hub and host run what can run, and time passes.  Links,
\* the local app and the caller of stop() owe nothing; a request's body does
\* arrive (or its handler is cancelled by the server).
Fairness ==
  /\ WF_vars(ClientNext)
  /\ \A t \in Tun : WF_vars(TunnelNext(t))
  /\ \A r \in Req : WF_vars(Send(r) \/ Resume(r) \/ Timeout(r))

Spec == Init /\ [][Next]_vars
FairSpec == Spec /\ Fairness

-----------------------------------------------------------------------------
(* Properties *)

Messages == [kind : {"whole", "start", "chunk"}, req : Req,
             index : 0 .. MaxChunks, total : 0 .. MaxChunks]

\* Every variable has its type.
TypeOK ==
  /\ running \in BOOLEAN
  /\ cpc \in {"top", "connecting", "relaying", "sleeping", "ended"}
  /\ cur \in Tun \cup {None}
  /\ cpc = "relaying" => cur \in Tun
  /\ job \in [Req -> {"none", "requesting", "sending", "done"}]
  /\ jobTun \in [Req -> Tun \cup {None}]
  /\ \A r \in Req : job[r] # "none" => jobTun[r] \in Tun
  /\ size \in [Req -> 0 .. MaxChunks]
  /\ sent \in [Req -> 0 .. MaxChunks]
  /\ link \in [Tun -> {"new", "up", "down"}]
  /\ toHost \in [Tun -> Seq(Req)]
  /\ toHub \in [Tun -> Seq(Messages)]
  /\ tunnels \in Tun \cup {None}
  /\ tpc \in [Tun -> {"none", "arrived", "replacing", "running", "closing", "done"}]
  /\ pending \in [Tun -> SUBSET Req]
  /\ chunked \in [Tun -> [Req -> [total : 0 .. MaxChunks, got : SUBSET (0 .. MaxChunks)]]]
  /\ rpc \in [Req -> {"idle", "body", "waiting", "done"}]
  /\ reqTun \in [Req -> Tun \cup {None}]
  /\ \A r \in Req : rpc[r] \in {"body", "waiting"} => reqTun[r] \in Tun
  /\ fut \in [Req -> {"none", "waiting", "result", "error", "cancelled"}]
  /\ answer \in [Req -> [of : Req, total : 0 .. MaxChunks, got : SUBSET (0 .. MaxChunks)]]

\* A request that gets an answer gets the whole of its own: every chunk of
\* what the local app answered to it, and of nothing else.
AnswerIsComplete ==
  \A r \in Req :
    fut[r] = "result" => answer[r] = Answer(r, size[r], 0 .. size[r] - 1)

\* The futures a tunnel holds are those of requests that wait on it; and while
\* the tunnel runs, each of those is held, so that its answer finds it.
PendingMatchesWaiting ==
  /\ \A t \in Tun : \A r \in pending[t] : rpc[r] = "waiting" /\ reqTun[r] = t
  /\ \A r \in Req :
       rpc[r] = "waiting" /\ fut[r] = "waiting" /\ tpc[reqTun[r]] = "running"
         => r \in pending[reqTun[r]]

\* No partial answer is left behind on a working tunnel: what has not been
\* received of it is still to be sent by the host or on its way, also when
\* the request timed out in between.
PartialAnswerIsInProgress ==
  \A t \in Tun, r \in Req :
    tpc[t] = "running" /\ link[t] = "up" /\ chunked[t][r] # NoPartial
      => /\ jobTun[r] = t
         /\ \A i \in 0 .. chunked[t][r].total - 1 :
              \/ i \in chunked[t][r].got
              \/ sent[r] <= i
              \/ \E k \in 1 .. Len(toHub[t]) : toHub[t][k].req = r /\ toHub[t][k].index = i

\* Nothing is left behind on a tunnel that works: neither a future nobody waits
\* for, nor a part of an answer that will never be completed.
NothingLeftBehind == TypeOK /\ PendingMatchesWaiting /\ PartialAnswerIsInProgress

\* Every request that reached a tunnel comes to an end, answered or not, and a
\* tunnel whose link is gone is not handed to requests for ever.
EveryRequestEnds ==
  /\ \A r \in Req : rpc[r] = "body" ~> rpc[r] = "done"
  /\ \A t \in Tun : link[t] = "down" ~> [](tunnels # t)
\* What makes the two inductive.
\* A request is sent once, and its task starts when the host takes it.
AskedInv ==
  /\ \A r \in Req :
       rpc[r] \in {"idle", "body"} => job[r] = "none" /\ fut[r] = "none" /\ \A t \in Tun : r \notin pending[t]
  /\ \A t \in Tun : \A k \in 1 .. Len(toHost[t]) :
       job[toHost[t][k]] = "none" /\ rpc[toHost[t][k]] \notin {"idle", "body"}
  /\ \A t, u \in Tun : \A k \in 1 .. Len(toHost[t]), l \in 1 .. Len(toHost[u]) :
       toHost[t][k] = toHost[u][l] => t = u /\ k = l

\* Nothing of an answer exists before the local app gave it.
JobInv ==
  \A r \in Req :
    /\ sent[r] <= size[r]
    /\ job[r] = "sending" => sent[r] < size[r]
    /\ job[r] \in {"none", "requesting"} =>
         sent[r] = 0 /\ fut[r] # "result" /\ \A t \in Tun : chunked[t][r] = NoPartial

\* The messages of an answer are on the tunnel that asked, in order, and say
\* what the answer is; so does what the hub has of it.
MessagesTrue ==
  \A t \in Tun : \A k \in 1 .. Len(toHub[t]) :
    LET m == toHub[t][k]
    IN /\ job[m.req] \in {"sending", "done"} /\ jobTun[m.req] = t
       /\ m.total = size[m.req] /\ m.index < sent[m.req]
       /\ m.kind = IF m.total = 1 THEN "whole" ELSE IF m.index = 0 THEN "start" ELSE "chunk"
MessagesInOrder ==
  \A t \in Tun : \A k, l \in 1 .. Len(toHub[t]) :
    k < l /\ toHub[t][k].req = toHub[t][l].req => toHub[t][k].index < toHub[t][l].index
PartialsTrue ==
  \A t \in Tun, r \in Req : chunked[t][r] # NoPartial =>
    /\ jobTun[r] = t /\ chunked[t][r].total = size[r] /\ size[r] > 1
    /\ chunked[t][r].got \subseteq 0 .. sent[r] - 1
OnTheWayInv == MessagesTrue /\ MessagesInOrder /\ PartialsTrue

\* What was sent of an answer whose start counts was received or is on its way.
Queued(t, r, i) == \E k \in 1 .. Len(toHub[t]) : toHub[t][k].req = r /\ toHub[t][k].index = i
NothingSkippedInv ==
  /\ \A t \in Tun, r \in Req : chunked[t][r] # NoPartial =>
       \A i \in 0 .. sent[r] - 1 : i \in chunked[t][r].got \/ Queued(t, r, i)
  /\ \A t \in Tun, r \in Req : Queued(t, r, 0) => \A i \in 0 .. sent[r] - 1 : Queued(t, r, i)

\* Requests are given to tunnels that were registered, and only those run.
RegisteredInv ==
  /\ \A t \in Tun : link[t] = "new" => tpc[t] = "none"
  /\ tunnels # None => tpc[tunnels] \in {"running", "closing"}
  /\ \A r \in Req : reqTun[r] # None => tpc[reqTun[r]] \in {"running", "closing", "done"}
=============================================================================
