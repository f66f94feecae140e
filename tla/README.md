# TLA+ models of llming-com

This directory holds TLA+ specifications of the parts of llming-com whose
correctness depends on the order in which things happen: sessions, their
identities and their WebSockets, the commands that reach them, the access hub
and its host tunnels, the P2P relay, its hosts, peers and secure sessions,
named publishing, the courier's object exchange and one sample application
that uses several of them. TLC checks them on small instances; TLAPS proves
the main theorems for every value of the constants. `PROJECT.json` maps each
definition to the lines it models and lists runs, mutants, findings, hazards
and theorems.

To check a run: `tlc -config Clients.cfg MCClients`. To check proofs:
`tlapm AccessTunnel_proofs.tla`.

## 1. Inventory

All Python parts run on one asyncio event loop per process: code between two
awaits is atomic and every await lets any other coroutine run. The relay is a
Cloudflare Durable Object: one event loop per room, which may be evicted from
memory between events. The browser is a third single-threaded loop. What makes
the system hard is therefore never preemption; it is state that is read before
an await and used after it, channels that fail half-way, and clean-up code that
runs after a successor has taken over.

| Part | State | Operations | Talks to |
|---|---|---|---|
| Session registry (`session.py`) | session id -> entry, identity -> session id, one clean-up task; entry: websocket, controller, activity and heartbeat times, timers, attachments | register, get, remove, sweep, close zombie | transport (writes references), manager (hook on expiry) |
| Session runtime (`session.py`, `auth.py`, `mock_auth.py`, `server/middleware.py`) | timers, typed attachments, current-session binding, cookies | get_or_create, attach_data, ensure_data, start/cancel timer, current, sign-out | registry, application's factories |
| WebSocket transport (`transport.py`) | one handler per connection, references on entry and attachment, token bucket | look up, supersede, accept, hooks, message loop, finally | registry, controller |
| Session manager (`session_manager.py`) | contexts per session id | create, resolve, end, revoke, clean up contexts | registry, auth |
| Browser session client (`static/llming-ws.js`) | socket, attempt counter, heartbeat/ack/liveness/reconnect timers | connect, close, force reconnect, liveness check | transport |
| Controller, router tree (`controller.py`, `ws_router.py`) | dispatch tables of both scopes, the socket it sends on | declare, include, mount, dispatch, reply | transport loop |
| Commands over REST, MCP and the debug router (`command_router.py`, `mcp/`, `debug.py`) | none of their own; sessions by id or "current" | find a session, await a body, run a command, inspect, send for it | registry, controllers |
| Access hub (`access/remote.py`) | tunnels per host, pending futures, partial answers, browser sockets; login: hosts, cookies, attempts | host_tunnel, http_proxy, ws_proxy, login | host's `TunnelClient`, browsers |
| Tunnel client (`access/remote.py`) | running flag, current tunnel, local sockets, waiting frames | connect loop, HTTP jobs, local sockets | hub, local app |
| Relay room (`server/p2p/relay/cloudflare/index.js`) | sockets, SDP inbox and outbox, pending requests, responses, grant, alarm | WebSocket messages, sdp-inbox/-send, register, connect, pending, respond, response, alarm | viewers, host |
| Relay host loop (`p2p/relay_host.py`), peers (`p2p/webrtc.py`) | running flag, tasks, sessions, peer registry | poll, answer offers, renew the grant, stop | relay, viewers |
| P2P host routes (`p2p/host.py`) | peer registry, proxies | offer, status, shutdown | viewers |
| DataChannel proxy, secure session (`p2p/proxy.py`, `p2p/secure_relay.py`, `secure.py`) | HTTP client, local sockets, one-time and reconnect tokens; session and key per sid, code and identity of the host | HTTP, ws open/text/binary/close, ping; hello, response, establish, stop, reconnect | peer, relay hub, local app, page |
| Named publishing (`publish.py`, `p2p/host.py`, `viewer.html`) | links, invites, device grants; browser's stored credential | publish, revoke, redeem, handshake | viewer |
| Courier (`courier/`) | stored objects with expiry, capability tokens | upload, download, stat, delete | HTTP clients, Azure blobs |
| Knowledge board (`samples/knowledge_board_app.py`) | one board, a controller per session, a reaper | connect, toggle, push to all, disconnect, prune | sessions, transport, routers |
| Launcher worker, package glue, other samples, `data_store.py` | no state that two steps share | | |

What each part must guarantee:

* **Sessions.** A reference never outlives its handler; a connection that is
  alive keeps its session; a session nobody uses goes away even if TCP never
  reports the loss; ended sessions are not served; contexts and sessions agree.
  A returning browser finds its own session; what a session owns goes with it.
* **Commands and routes.** A command runs on a registered session with the
  connection it requires; a reply goes to whoever asked; a message finds the
  handler the mounted tree declares for it.
* **Access hub.** A browser gets the whole answer to its own request or an
  error, never a mixture; every request ends; the registered tunnel is the one
  that runs; frames of a browser socket arrive once and in order; a close
  reaches the other side. The limiter holds however sign-ins overlap; a deep
  link signs in one browser.
* **Relay.** An answer reaches the viewer that offered; an offer reaches the
  host and is handled once; stop releases every peer; requests expire. An open
  peer is the one its session id leads to; a page that believes itself
  connected has the key its host has, and only a page that knows the code is
  reported as connected.
* **Publishing.** An invite is redeemed once, what was revoked stays revoked,
  a grant lasts exactly as long as its link.
* **Courier.** A single-use object is gone once somebody holds it; nothing is
  readable after its expiry, or disappears before it; deletion is final.

## 2. Plan

In the order of importance, with what is done. A component module keeps its
state as `VARIABLES` and has one action per handler step; a module whose
constants need model values or symmetry has an `MC` module beside it; theorems
about `M` are in `M_proofs`. Six proof modules extend an `MC` module and prove
about what it puts side by side: `SessionClient_proofs` (`MCClients`),
`Services_proofs` (`MCServices`), `AccessTunnel_proofs` (`MCTunnel`),
`PeerRegistry_proofs` (`MCPeers`), `Publishing_proofs` (`MCApplications`) and
`AccessHub_proofs` (`MCSessionsHub`).

| # | Module | Composes / refines | State |
|---|---|---|---|
| 1 | `SessionTransport` | registry + handler + manager in one state space, because they share the entry | checked, proved |
| 2 | `AccessTunnel` | hub + tunnel client, HTTP | checked, proved |
| 3 | `TunnelSockets` | hub + tunnel client, browser WebSockets | checked, proved |
| 4 | `RelaySignaling` | viewers + relay room + host loop + peers | checked, proved |
| 5 | `RelayMailbox` | device + relay room + polling host | checked, proved |
| 6 | `Publishing` | registry + routes + browser's front door | checked, proved |
| 7 | `Courier`, `Exchange` | service over two hosts; implements the abstract `Exchange` | checked, proved with the refinement |
| 8 | `SessionClient` | the browser's end of a session | checked, proved |
| 9 | `ProxiedSockets` | page + secure session + DataChannel proxy over one relay link | checked, proved |
| 10 | `SessionIdentity` | identity map, factories, data and timers of a session | checked, proved |
| 11 | `AccessHub` | sign-in, limiter, sessions, hosts, tunnel table, deep links | checked, proved |
| 12 | `PeerRegistry` | offers + peers + callbacks + shutdown | checked, proved |
| 13 | `SecureSession` | pages + relay link + host with codes and identities | checked, proved |
| 14 | `SessionCommands` | REST, MCP, debug router + controllers + reconnecting browsers | checked, proved |
| 15 | `MessageRoutes` | router trees of two scopes + dispatch | checked |
| 16 | `ReconnectTokens` | store + pings of pages | checked, proved |
| 17 | `KnowledgeBoard` | sessions + transport + pushes + reaper of the sample | checked, proved |

`AccessTunnel` and `AccessHub` overlap in the registration of a tunnel: the
first keeps one host and follows what tunnels carry, the second keeps any number
of hosts and follows who is registered while tunnels replace each other.
`TunnelSockets` and `ProxiedSockets` likewise start where the first resp.
`SecureSession` has established a tunnel or a key. Left for later: an abstract
`Connection` ("one client, at most one served session") that `SessionClient`
together with `SessionTransport` would implement.

Six `MC` modules put modules side by side that share no state, in one run:
`MCTunnel` (`AccessTunnel`, `TunnelSockets`), `MCClients` (`SessionClient`,
`RelayMailbox`, `RelaySignaling`), `MCPeers` (`PeerRegistry`,
`ProxiedSockets`), `MCApplications` (`Courier`, `Publishing`, `KnowledgeBoard`,
`MessageRoutes`), `MCSessionsHub` (`SessionTransport`, `AccessHub`) and
`MCServices` (`SessionIdentity`, `SessionCommands`, `SecureSession`,
`ReconnectTokens`). Their initial state chooses the part and
every step is one of that part, so that the state space is the sum of the
parts' and not their product. Variables of the parts that do not run rest: at
their initial values, or, in `MCServices`, at `None`. The properties of a part
that is not extended are stated there once more, in `MCServices` for the states
in which it runs.

## 3. The modules and the code

### SessionTransport

`sessions` and `contexts` are the dictionaries of the registry and of the
manager, `ws[e]` the `websocket` references of an entry and of its attachments,
`idle` and `hb` the ages of `last_activity` and `last_heartbeat`. `pc[c]` is the
await at which the handler `run_websocket_session` of connection `c` stands:

    Lookup     look up the session, set supersede in motion      transport.py:67-79
    Superseded the old socket was closed                                     79-90
    Accept     accept(), references set, on_connect called                  90-108
    Connected, ConnectFails                                                105-112
    Heartbeat  a message arrives (heartbeats stamp the entry)              111-149
    Disconnect receive fails, on_disconnect is called                      151-161
    Finish     the end of the finally clause clears the references         155-164

`CreateSession`, `Resolve`, `EndSession`/`EndCloses`/`EndRemoves`, `Revoke` and
`CleanupContexts` are the manager's calls, cut at their awaits;
`CleanupExpired` is one pass of the clean-up loop and `CloseZombie` the task it
leaves behind. `Tick` lets time pass; a client closes its socket or vanishes.

`overlap` is a history variable: entries on which two handlers overlapped. The
code does serve two connections of one session when their connects overlap
(the second reads `target.websocket` before the first has set it,
transport.py:79-91), and the `finally` of a superseded handler clears the
reference of its successor (162-164), which then counts as disconnected and may
be swept while it is served (finding 2). The properties about the sole
connection therefore speak of entries that never had overlapping handlers; the reference
invariant and the liveness properties have no such condition. An ended session
is resolved and served until `end_session` reaches its last line
(session_manager.py:219-228).

### SessionClient

The browser's `LlmingWebSocket`. `current` is `this.ws`, `sock` the
`readyState` of every socket that still has events to deliver, `beating`,
`ackTimer`, `livenessTimer`, `retry` the timers it refers to; `strayBeat` and
`strayRetry` those it has lost the reference to. Timers fire in any order, as
browsers delay those of background pages. `dead` sockets are those that a proxy
dropped without an event.

Visible in the model, and the reason why `SoleSocket` is conditional on
`overlap`: `_checkLiveness` connects whenever the socket is not open, thus also
over one that is being opened or closed (llming-ws.js:270-274); when both open,
the first heartbeat interval is never cleared (216); the close event of the one
replaced restarts everything (132-178). A tab that was told it was superseded
connects again when it gets the focus, as `_checkLiveness` does not look at
what closed the socket. Likewise `connect()` after `close()`: the old socket's
close event arrives late, stops the new one's heartbeat and starts another
connect (llming-ws.js:103, 132-135, 177).

### AccessTunnel

One host, its successive tunnels `Tun` and requests `Req`. The variables under
"TunnelClient" are the client's state and its HTTP jobs, `toHost` and `toHub`
the two directions of each tunnel, `tunnels` the hub's registration of the
host, `pending` and `chunked` a tunnel's futures and partial answers, `rpc`,
`fut`, `answer` the browser requests. `HostReceives`/`LocalAnswers`/`HostSends`
are a job of the client, `HubReads` the hub's message handler,
`Ask`/`Send`/`Resume`/`Timeout` the request.

Visible in the model: `stop()` between two looks at `_running` leaves a client
that relays on until the tunnel is lost (remote.py:359-380); a request that
looked a tunnel up and awaited its own body may be sent into a tunnel that has
ended, and then only the timeout ends it.

### TunnelSockets

One tunnel, browser sockets `Ws`, numbered frames. `ready` is the list of tasks
the hub created to forward frames, in the order of creation: asyncio first runs
tasks in that order, but each awaits the same browser socket. `opc`, `lsock`,
`locals`, `pend` and `flush` are the host's half. A send writes its frame before
it waits for a full buffer to drain, so `OpenSucceeds` makes the local socket
known and writes the first of the frames that waited in one step
(remote.py:479-481), and `Flush` is the end of that pause with the next write
(`SendWaiting`). A frame that comes in during a pause is sent at once: finding
4. Visible in the model: the
last frame before a close from the local app may be dropped, because the close
forgets the browser before the frame's task runs (remote.py:268-301); a browser
that leaves while its local socket is being opened leaves that one open
(`early`).

### RelaySignaling

A viewer (`viewer.html`) opens a socket, offers, and takes the first answer it
sees; the room (`index.js`) keeps sockets, inbox and outbox; the host loop
(`relay_host.py`) polls, registers a peer and negotiates, sends the answer.
`MaxFaults` bounds lost calls, failed negotiations, evictions and lapsed
grants, each of which is an action. Visible in the model: an offer made while
another socket is in the room goes to that socket too and, as it is
"delivered", not to the inbox (index.js:174-185); an answer goes to every
socket of the room, or waits for whoever offers next (186-190, 268-278); when
one offer of a batch fails, the rest of the batch is dropped
(relay_host.py:148-154). Hence `LoneViewer...` in the properties: what the code
promises, it promises to a viewer that has the room to itself.

### RelayMailbox

`pending` and `responses` hold the ages of entries, `pollAge` the time since
the last poll that counted, `alarm` the time to the Durable Object's alarm,
`checked` the devices whose request passed the limit and awaits its body.
Visible in the model: a pending request that nobody polls may live for ever
while new requests keep pushing the one alarm back (index.js:384), and a
request may be refused because of entries that have expired but not been
removed (290-292).

### Publishing

`links`, `pairings`, `devices` are the registry's tables, `holds[b]` the
credential a browser stored, `shaking` a handshake that awaits its body.
Answers of `Redeem` may be lost: the credential then exists and nobody holds
it. Visible in the model: a credential keeps the expiry its link had when it
was redeemed, also when the link is published again with another one
(publish.py:157-159, 218; `renewed`).

### ProxiedSockets

The WebSockets a page opens through an established secure session.
`bstate`/`clients` are the page's socket replacements (viewer.html:236-333),
`toHost` and `toPage` the relay link, `opc` the tasks that connect to the app
(proxy.py:251-262), `conns` the table of local sockets, `reader` the read loops
and `latest` their queue of one binary frame (264-300), `http`/`client` a
request and the HTTP client, `hpc` the stop of the session (129-138), cut at
its awaits. `StopBegins` is reached by a close frame of the hub, which is
outside the repository (secure_relay.py:134, 228), or by the loss of the link
(293). Ids come around modulo `Ids` (the page's counter: modulo 1000); that a
socket is still in use when its id comes around is left out and is a bound of
the model (`InUse`), under which both ends would mix the two up.

Visible in the model: a page that closes a socket while the host is connecting
it leaves a local socket that stays open until the session ends (`orphans`);
what is being connected when `stop()` begins is opened after it and never
closed, a request whose task runs late makes a new HTTP client, and a read loop
that fails to send on a lost link forgets its socket without closing it
(`late`).

### Courier and Exchange

`Exchange` is the abstract specification: objects that are available until they
are gone, calls that ask, get and hold them. `Courier` is the service over the
dev server's memory, where a handler does not await, and over Azure, where
every request to the blob service is a step and calls run in parallel. `host`
says where an object lives. `Promised == INSTANCE Exchange WITH ...` maps the
one to the other and `ImplementsExchange` is checked and proved. The clock
counts fractions of a second, because tokens and blob expiry are cut to whole
ones. Visible in the model: on Azure, two downloads of a single-use object that
overlap may both get it (service.py:136-138; function_app.py:83); the object is
deleted before its response is sent, so a lost response leaves nothing to retry
(138); the dev server removes an expired object only when it is asked for.

### SessionIdentity

`sessions`, `identity` are the registry's dictionary and its identity map,
`owner` the `identity_id` of an entry, `idle` the entries past their time to
live, `attached` the typed data of an entry, `timer` its `_timers`, `task` the
timer tasks. A request (`pc`) goes through `LlmingSessions.current`
(`ResolveBound`, `Resolve`), may await the application's identity factory
(`RegisterIdentity`), asks for data (`Ensure`), awaits its `create` (`Attach`)
and starts or cancels the timer. `Drop` is what every removal does with data,
timers and the map; `Remove` and `CleanupExpired` are its callers. A cookie is
a token that is signed or not and fresh, stale or of the legacy form
(`Verified`). An entry's `status` says how it left: "gone" when it was removed
or expired, with `cleanup_runtime`, or "displaced" when `Register` put another
one under its id (session.py:296-304), which cleans nothing up. `TimersEnd` and
`DataReleased` name displaced sessions as the exception that they are, and
`DisplacedAreDurable` says to which sessions it can happen: those registered for
an identity cookie. That what they held stays behind is finding 3.

Visible in the model: two requests that create data for one session at once
both attach theirs, the second in the place of the first, which nobody releases
(session.py:243; `clash`); data attached and timers started after the session
left the registry outlive it (`"late"`, `"stray"`).

### SessionCommands

`listed` is the registry in the order of its dictionary, `recent` the same by
last activity; `websocket`, `controller`, `ws`, `open`, `place` follow browser
connections as far as commands and replies depend on them. `RestCalls`,
`McpCalls`, `StdioLists`/`StdioCalls` find a session and a controller for a
command, `BodyArrives` ends the await of its body, `Finishes` runs it;
`Inspect`, `WsSend`/`Forward`/`Forwarded` are the debug router; `Message` and
`Handled` the messages of a browser.

Visible in the model: a command that awaited its body runs with the session and
the controller found before (command_router.py:144; `changed`); a message read
before a newer connection closed its socket is handed to that one's controller,
which answers it there; what the stdio server calls "current" is the first
session of the list, what REST calls so the most recent; inspecting a session
keeps it alive.

### MessageRoutes

`routes` and `children` are what routers declare and include, `tables` what a
controller mounted. `BuildDispatchTable` is the code's recursion; it is
compared with `Declarations`, a description of the tree in which a handler's
place decides who owns a name. Names are sequences of the parts between the
dots. A table is a copy: what is declared after mounting is not found.

### AccessHub

`attempts` is the list of the `RateLimiter`, cut at every check, `tried` the
history that the limit is about. `Login` is the check before the body is
awaited, `CheckPassword` what follows; `RequestHost` and `CreateHost` are cut
at the body as well. `OpenTunnel`, `Greeted`, `Replaced`, `GreetingFails`,
`TunnelEnds` are the awaits of `host_tunnel`. `TokenLogin` sends the token of a
deep link to its host, `Verify` is the host's one-time store, `Answer` the
hub's use of the result.

Visible in the model: a tunnel registered while another one closes their
predecessor is overwritten without being closed (remote.py:669; `overtaken`);
an invite is consumed before the answer is sent, so a lost answer costs the
link.

### PeerRegistry

`peers` is `_peers`, a peer is named after its offer, `state` its connection,
whose close takes several steps and schedules the state callback as a task of
its own (`ReportsClosing`, `Closes`, `StateCallback`). `TakeOffer`, `Insert`,
`Answer` are `p2p_offer` with `create_peer`, `Shutdown`/`CloseNext`/`AllClosed`
is `close_all`.

Visible in the model: the callback of a replaced peer removes the new peer of
the same id (webrtc.py:204; `lost`), and of two offers of one id that overlap,
one peer is not known to the registry (198; `crossed`). Such a peer stays open
after the shutdown.

### SecureSession

Pages (`ppc`, `pkey`, `known`, `pinned`) and a host (`sessions`, `running`,
`hpc`, the frame it handles) on one relay link, with the frames on the way.
`Hello`, `Receive`, `Respond`, `Establish`, `TakeResponse`, `EnterCode` are the
handshake, `LoseLink`, `SendRaises`, `StopHost`, `Reconnect` the loop around
it, after which code and identity may be others. Keys are symbolic:
`Key(sid, identity, code)` stands for the key schedule, and what was sealed
under a key opens under the same one.

Visible in the model: pages of a lost link are not told; the new link drops
what they send without an answer (secure_relay.py:292; `cut`).

### ReconnectTokens

`tokens` is the store with its times, `issued` the pages whose proxy has a
token. `HandlePing` generates or refreshes, each with the clean-up it does
first. Visible in the model: after a late ping the token is dead, and pongs
keep showing it (proxy.py:202-205; `lapsed`).

### KnowledgeBoard

The one application modelled: `push_state` calls every live session in turn
(`PushState`, `PushGoesOn`; `todo` are those it has yet to call), from
`on_connect`, a toggle, `on_disconnect` and the reaper (`Welcomed`, `Toggle`,
`Disconnected`, `ReaperSwept`). Which sessions are silent is left open. A call
carries the board as it is then, but the count its push found at the start,
see finding 5.

### What the properties exempt

Where the code lets a hazard happen, the property beside it names the case with
a history variable and the theorem has the same exception, so that what is
checked is true of the code: `overlap` (`SessionTransport`, `SessionClient`,
`KnowledgeBoard`), `early`, `overtaken`, `crossed` and `lost`, `renewed`,
`clash`, `orphans` and `late`, `cut`, `changed`, `lapsed`. An exempted case is
not covered by that property, and the hazard in `PROJECT.json` says so in a
note. Two of them, the served session of `overlap` and the displaced one, are
findings of section 6. Others disagree with the
repository's documents as well and have no run of their own:

* Two connects of a session that overlap at `accept` find nothing to supersede
  and are both served; transport.py:60-61 says 'close any existing WebSocket
  for this session before accepting the new one'. Finding 2 goes through it.
* `connect()` over a socket that `close()` has not finished closing is called
  'Safe to call again after close()' (llming-ws.js:97), see `SessionClient`.
* Two calls of `ensure_data` at once create two objects; session.py:237 says
  'creating it once'.
* A link published again for longer does not prolong the credentials redeemed
  before; publish.py:17-18 says that they stay valid 'until the published
  link's **lifetime** expires'.
* Overlapping offers of one session id leave two open peers, where
  webrtc.py:180 promises 'one `WebRTCPeer` per browser session'.
* A page that pinged late once is shown a dead token for as long as it stays
  connected; proxy.py:59 is about tokens 'that let a connected browser recover'.

## 4. Runs and bounds

| Run | Instance | What it shows |
|---|---|---|
| `sessions_hub` | sessions: 1 session id, 2 entries in succession, 2 connections; hub: 1 address, user, host and invite, 2 requests, 3 tunnels, 1 sign-in per window of 2, 2 ticks | references have handlers; sessions have contexts; the limiter, deep links, the tunnel table |
| `session_liveness` | 1 entry with an attachment, 2 connections, fairness | the sweep spares what is alive; silent sessions and closed connections go |
| `session_zombie_socket`, `session_expiry` | 1 entry, 2 connections | violated: see findings 1 and 2 |
| `session_displaced` | 1 identity, 2 entries, 2 requests | violated: see finding 3 |
| `tunnel` | 2 tunnels, 1 request of 1 or 2 chunks; 1 browser socket, 3 frames each way; fairness | answers complete, nothing left behind, frames in order; requests end, closes and losses reach the other side |
| `ws_frame_order` | 1 browser socket, 3 frames each way | violated: see finding 4 |
| `clients` | 2 sockets, 3 attempts, 1 stray timer; 2 devices, limit 2, 1 fault; 2 viewers, one impatient, 1 fault; fairness | one socket, never stuck, silent sockets replaced; wishes accounted for, polled requests leave; offers handled once, stop releases peers, a lone viewer gets its own answer |
| `applications` | courier: 1 object, 3 calls, 2 ticks per second, 5 ticks; publishing: 2 apps, 2 invites, 2 credentials, 1 browser, 4 ticks; board with 2 sessions, 2 connections, 1 toggle; 3 routers, 2 handlers, at most 2 includes each | the promises of `Exchange`, expiry on either host; invites redeemed once, grants live as their links; boards current; messages find their handler |
| `board_count` | 2 sessions, 2 connections | violated: see finding 5 |
| `peers` | 2 offers of one session id; 2 sockets with one id, 1 text and 2 binary frames, 1 request, fairness | peers serve their sessions; frames reach their socket, stop leaves nothing it knew of, closes reach the other side, the newest binary frame arrives |
| `services` | identity: 2 identities, entries, requests; commands: 2 sessions, 2 sockets, 1 call; secure: 2 pages, codes, host keys, links; tokens: 2 pages, lifetime 1, 2 ticks | own session and its release; replies and commands meet their session; keys; reconnect tokens |

Why the instances are enough: the hazards are between two parties (a handler
and its successor, a tunnel and its replacement, two downloads of one object),
so two of each make every overlap happen; the third call or tunnel exists so
that an overlap is followed by an independent use. Three frames are
needed for one to overtake another at the local socket: two that wait, and one
that comes while the first is being sent. Times are
ages that stop one above the limit they are compared with, so those clocks have
no bound; the modules that compare absolute times (`Publishing`, `Courier`,
`AccessHub`, `ReconnectTokens`) are given a clock at least as long as their
longest lifetime. `MaxChunks`, `Frames`, `Opened`, `Texts`, `Images`,
`MaxFaults`, `MaxAttempts`, `MaxStray`, `MaxTime`, `MaxLinks`, `MaxMessages`,
`MaxToggles`, `MaxHandlers` and `MaxIncludes` are the bounds, each named in its
module. `CHECK_DEADLOCK FALSE` is set where the system may come to rest: every
request answered, the host stopped, all calls made.

Fairness assumed, and why:

* `SessionTransport`: time passes, the clean-up task runs, the event loop runs
  a coroutine that can continue, hooks of the application return. Clients and
  callers owe nothing.
* `AccessTunnel`, `TunnelSockets`: the loops of hub and host run what can run;
  connecting to the local app succeeds or fails; a request's body arrives; the
  timeout fires. Links may fail at any moment and need not.
* `RelaySignaling`: the host loop polls and renews as long as it runs (it does
  so whatever an iteration raised); messages on an open socket arrive.
* `RelayMailbox`: time passes, alarms fire, a request body arrives, the grant
  is renewed; polling is strongly fair, because a host that is throttled tries
  again for ever: what is asked of the code is that early polls do not push
  back the next one that counts.
* `ProxiedSockets`: frames on a link that is up arrive, the host's tasks run,
  connecting to the app succeeds or fails, and a session whose link is gone is
  stopped (the `finally` of the link's loop). Pages and apps owe nothing.
* `SessionClient`: the reconnect timer and the heartbeat interval fire, and a
  socket that the page closes is closed in the end (the browser's handshake
  timeout).

The modules of `services` and `applications`, `AccessHub` and `PeerRegistry`
have safety properties only and state no fairness.

## 5. What is proved

TLAPS checks, for any number of sessions, requests, connections, tunnels,
peers, objects, calls, sockets and any limits:

* `SessionTransport_proofs`: `TypeCorrect`, `ReferenceSafety`,
  `SoleConnectionSafety`, `SweepSafety`, `ContextSafety`. `ReferenceHasHandler`
  alone is not inductive: a handler past its lookup must hold an entry that was
  created (`EntryHeld`, part of `TypeOK`), and for `SoleConnectionIsReferenced`
  the history variable must have seen every overlap (`OverlapSeen`). The
  invariant is the conjunction of these; every action of `Next` has one step
  that shows it kept. `SweepSafety` is the action property that follows: in a
  state of the invariant, `CleanupExpired` keeps the session of a connection
  with a recent heartbeat.
* `Services_proofs`, about `SessionIdentity`: `TypeCorrect`, `IdentitySafety`,
  `ReleaseSafety`. `RegistryInv` (an entry is registered under one id from when
  it is made until it is displaced or gone, and an identity's id holds only its
  own entries), `RequestInv` (what a request holds at each place) and `OwnedInv`
  (only requests that clashed create data where there is some) carry both.
  `ReleaseSafety` does not claim that every session is cleaned up: it says that
  those which are removed or expire are, and that only a session of an identity
  cookie can leave in another way, displaced with what it holds.
* `Services_proofs`, about `SessionCommands`: `MeetingSafety`, `ReplySafety`. A
  command that waits for its body would begin as it should now, unless its
  session changed (`WaitingInv`); with it the step that begins a command is
  judged in the state before it. For replies, `ControllersInv` says that a
  session's controller, and whatever has a message in hand, was made for a
  connection of that session, and that a message which waits in the hands of a
  later controller was read after that one was accepted; `RepliesInv` says of
  every reply that its message is over, so that no second one can follow.
* `Services_proofs`, about `SecureSession`: `ConnectionSafety`,
  `HearingSafety`. `HostInv`: the keys the host keeps are of its present link,
  identity and code. `FramesInv`: a frame on the way is of a page that said
  hello, data is sealed with that page's key, and nothing follows a page's
  close. `PagesInv`: a page the link was not cut from was told the present key
  or nothing yet, and is served from the moment it was told. The host's and the
  page's end of a key meet only through the frames between them, which is why
  neither property is inductive without the queues.
* `Services_proofs`, about `ReconnectTokens`: `TokenSafety`, from
  `TokenFollowsPings`: a stored token is as old as its page's last ping, and
  missing only if the page was late, is late now, or the token was revoked.
* `AccessTunnel_proofs`: `TypeCorrect`, `AnswerSafety`, `NothingLeftSafety`.
  The messages of an answer lie on the tunnel it was asked through, in order,
  and say the true number of chunks (`OnTheWayInv`); of what a job has sent,
  everything has arrived or is still on the way (`NothingSkippedInv`). So the
  partial answer at the hub is made of the job's chunks, and when it has as
  many as the answer has, it has them all. `AskedInv` and `JobInv` tie futures
  and jobs to the request they belong to.
* `AccessTunnel_proofs`, about `TunnelSockets`: `OrderSafety`, from
  `SocketsInv`. A browser's socket is opened at the host once (`OpenedOnce`), so
  that what the local app sends takes one way; its frames lie on that way, the
  tunnel and then the tasks of the hub, in the order they were sent
  (`FramesInOrder`), and while both ends are open none is missing on it
  (`NoneSkipped`). A frame of the browser is at one place of its way or at the
  local app, never at two (`LocalFrameAtMostOnce`): this half survives the
  overtaking of finding 4.
* `AccessHub_proofs`: `TypeCorrect`, `LimiterSafety`, `InviteSafety`,
  `TunnelSafety`. `LimiterInv`: an attempt is forgotten only when no window that
  is still to come can hold it, so the count of the list bounds the count of
  the history. `InviteInv`: a token that opens a session, or is about to, is no
  longer in the store. `TunnelInv`: while a tunnel replaces another, the table
  names that one, nothing, or one that overtook it.
* `PeerRegistry_proofs`: `TypeCorrect`, `PeerSafety`, from `ConnectionInv`,
  `CrossingInv`, `ShutdownInv` and `ChannelInv`.
* `PeerRegistry_proofs`, about `ProxiedSockets`: `SocketSafety`, `ProxySafety`,
  from `SessionInv`. No two sockets hold one id in a table, a task or a frame
  (`OnePerId`), so an entry that is found under an id, or deleted under it
  whosever it is, is that of the frame's own socket. `SocketsKnown` is what each
  side knows of a socket when; `TextsInOrder` and `ImagesInOrder` follow its
  frames over the link: text leaves no gap, a binary frame that waits is newer
  than all that were sent. `StopKnows`: an open local socket is in the table, in
  what `stop()` has yet to close, or late.
* `Publishing_proofs`: `TypeCorrect`, `RedeemSafety`, `GrantSafety`, from
  `TokenInv` (a token that was redeemed is in no table) and `GrantInv` with
  `StoredForItsApp` (a credential in the table or in a browser belongs to the
  app it was redeemed for).
* `Publishing_proofs`, about `KnowledgeBoard`: `BoardSafety`, from `BoardInv`. A
  session on which no connections overlapped refers to the one it has, and its
  controller is that one's (`Alone`); what the reaper prunes has no open
  connection and gets none (`ReapedIsClosed`); only a task that pushes has calls
  to make (`PlacesKnown`). So a toggle finds every open board among the live
  sessions, and a call always reaches the controller of the page it is for.
* `Courier_proofs`: `TypeCorrect`, `FindingSafety`, `HeldSafety`,
  `LastingSafety`, `Refinement`. The inductive invariant `Progress` relates the
  place of a call to what it has found (`CallState`) and the state of an object
  to its expiry and to who found it (`ObjectState`). `Refinement` maps every
  step of either host to a step or a stutter of `Exchange`.
* `SessionClient_proofs`: `TypeCorrect`, `SoleSafety`, `StuckSafety`. The
  invariant `Sole` adds to `SoleSocket` that a retry timer runs only when its
  socket has closed; `NeverStuck` is inductive with the types.
* `SessionClient_proofs`, about `RelayMailbox`: `MailboxSafety`. That a wish is
  known is not inductive, because a cleanup may take the entry it is known by.
  `WishHasYoungEntry` adds that this entry is no older than the wish, so that
  the cleanup only takes it when the wish is over as well.
* `SessionClient_proofs`, about `RelaySignaling`: `SignalingSafety`, from
  `OffersInOrder` (an offer is on its way, in the inbox, in the batch or
  handled, in one of these places and once), and `AnswerSafety`, from
  `AnswersMeetTheirViewer` (whoever's offer is under way is alone in the room,
  waits and was sent nothing).

The only assumptions are those on the constants (`ConstantsAssumption` of each
module, in `SessionIdentity` `IdentityAssumption`), which TLC evaluates in the
runs: sets of names are disjoint from `None` and from each other, bounds are
natural numbers. Theorems about a module that an `MC` module instantiates are
theorems of the instance (`Mailbox!Spec`, `Sockets!Spec`, `Proxied!Spec`,
`Board!Spec`, `Links!Spec`, `Hub!Spec`) or of `ServicesSpec`, where the invariant is claimed for the
states in which that part runs. Every inductive invariant was checked by TLC
before it was proved.

Only model-checked: all liveness (`tlapm` has no rule for fairness and
`ENABLED`), and `DispatchFindsOwner`. That one says what a recursive function
computes for every tree of routers; its proof would need an induction theorem
whose parameter is an operator, which the installed provers do not instantiate.

## 6. Where code and documentation disagree

Each is a run of its own that TLC must find violated; `PROJECT.json` quotes the
lines.

1. `session_zombie_socket`: the clean-up loop clears the zombie's reference
   before the task that should close the socket runs, so no socket is ever
   closed (session.py:377-380, 402).
2. `session_expiry`: the end of a handler clears the reference whoever else is
   served, and what the sweep calls "disconnected and idle" is a session with a
   live connection (transport.py:162-164, session.py:365-366). In the trace two
   connects overlapped at `accept` and neither superseded the other (79-91).
3. `session_displaced`: when the factory of an identity is awaited twice, the
   second session is registered over the first, which is not cleaned up; its
   data is never released although the session is no longer there
   (session.py:68, 301, 533).
4. `ws_frame_order`: of two frames that waited for the local socket the second
   is overtaken by one that arrives while the send of the first is paused
   (remote.py:479-481, 507-512). One waiting frame cannot be overtaken: it is
   written in the step that makes the socket known.
5. `board_count`: a push sends the connected count it found when it began
   (samples/knowledge_board_app.py:100-103), also to pages it calls after a
   session has left and that one's own push is done (185-188); they show the
   old count until something else is pushed.

## 7. What is not modelled

Listed with reasons in `PROJECT.json`. `data_store.py` is a dictionary per
session without an await. The launcher worker, the package glue and the samples
other than the knowledge board keep no state that two steps share. That the
ciphers of `secure.py` and `courier/crypto.py` hide and authenticate is a
cryptographic argument TLC cannot make: keys are symbolic in `SecureSession`.
Schemas and tool listings of commands and MCP, header handling and the
computation of signatures translate one request at a time.
Pages are modelled as far as they take part in a protocol.
