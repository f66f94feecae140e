--------------------------- MODULE SessionCommands ---------------------------
(***************************************************************************)
(* How sessions are driven from outside: commands over REST                *)
(* (command_router.py), over MCP in the process (mcp/http_server.py) and   *)
(* through the stdio proxy (mcp/stdio_server.py), the debug router         *)
(* (debug.py), and the messages of the browsers themselves, which a        *)
(* BaseController answers (controller.py, ws_router.py), while browsers    *)
(* reconnect and sessions are removed.                                     *)
(*                                                                         *)
(* A step is the code between two awaits.  Handlers belong to the          *)
(* application and await; the on_connect hook makes a controller for each  *)
(* connection and on_message hands it to the controller of the entry, as   *)
(* in samples/knowledge_board_app.py.  A controller is named after the     *)
(* connection it was made for.  The handshake is in SessionTransport.      *)
(***************************************************************************)
EXTENDS Naturals, Sequences, SequencesExt

CONSTANTS
  Session,      \* session ids, and the entries they name
  Socket,       \* WebSocket connections
  Call,         \* calls of a tool, an agent or an operator
  MaxMessages,  \* bound: messages of one browser connection
  None

\* Connections, calls and None are told apart.
ConstantsAssumption ==
  /\ Socket \cap Call = {} /\ None \notin Socket \cup Call \cup Session
  /\ None \notin [Socket -> Nat]

VARIABLES
  made,       \* sessions that were ever registered
  listed,     \* _sessions: the registered ids in the order of the dictionary
  recent,     \* the same ids by last_activity, the most recent last
  websocket,  \* session -> socket or None
  controller, \* session -> controller or None
  ws,         \* controller -> the socket it sends on, or None
  open,       \* sockets that are open
  place,      \* socket -> "new", "accepting", "reading", "handling" or "ended"
  home,       \* socket -> its session
  asked,      \* socket -> messages of its browser that were handled
  job,        \* socket or call -> the controller that handles its message
  received,   \* socket -> replies, as [from, n]
  pc,         \* call -> "new", "listed", "body", "json", "running", "handling", "over"
  cmd,        \* call -> its command, or None
  sid,        \* call -> the session it was resolved to
  ctl,        \* call -> the controller that is injected
  \* History
  changed,    \* calls whose session changed while they waited for their body
  since       \* socket -> what had been asked when it was accepted

registry == <<made, listed, recent>>
links    == <<websocket, controller, ws, open>>
reading  == <<place, home, asked>>
calls    == <<pc, cmd, sid, ctl>>
vars == <<made, listed, recent, websocket, controller, ws, open, place, home, asked, job,
          received, pc, cmd, sid, ctl, changed, since>>

\* CommandDef: requires_websocket, and whether its method has a body.
Command == [socket : BOOLEAN, body : BOOLEAN]

Init ==
  /\ made = {} /\ listed = <<>> /\ recent = <<>>
  /\ websocket = [s \in Session |-> None] /\ controller = [s \in Session |-> None]
  /\ ws = [w \in Socket |-> None] /\ open = {}
  /\ place = [w \in Socket |-> "new"] /\ home = [w \in Socket |-> None]
  /\ asked = [w \in Socket |-> 0] /\ received = [w \in Socket |-> <<>>]
  /\ job = [x \in Socket \cup Call |-> None]
  /\ pc = [c \in Call |-> "new"] /\ cmd = [c \in Call |-> None]
  /\ sid = [c \in Call |-> None] /\ ctl = [c \in Call |-> None]
  /\ changed = {} /\ since = [w \in Socket |-> None]

-----------------------------------------------------------------------------
(* Registry *)

Registered == ToSet(listed)

\* An id is in the dictionary once.
Without(q, s) == IF s \in ToSet(q) THEN RemoveAt(q, CHOOSE i \in DOMAIN q : q[i] = s) ELSE q

\* get_session: the last activity of the session is now.
Touch(s) == recent' = Append(Without(recent, s), s)

\* Only a command whose method has a body may wait for it.
Changes(s) == changed' = changed \cup {c \in Call : pc[c] = "body" /\ cmd[c].body /\ sid[c] = s}

Register(s) ==
  /\ s \notin made
  /\ made' = made \cup {s}
  /\ listed' = Append(listed, s)
  /\ recent' = Append(recent, s)
  /\ UNCHANGED <<links, reading, job, received, calls, changed, since>>

\* By end_session, a revocation, the cleanup loop or the application.
RemoveSession(s) ==
  /\ s \in Registered
  /\ listed' = Without(listed, s)
  /\ recent' = Without(recent, s)
  /\ Changes(s)
  /\ UNCHANGED <<made, links, reading, job, received, calls, since>>

-----------------------------------------------------------------------------
(* Browsers *)

Goes(w, there) == place' = [place EXCEPT ![w] = there]

\* run_websocket_session up to accept: the older connection is closed.
Connect(w, s) ==
  /\ place[w] = "new"
  /\ s \in Registered
  /\ Touch(s)
  /\ home' = [home EXCEPT ![w] = s]
  /\ Goes(w, "accepting")
  /\ open' = open \ {websocket[s]}
  /\ UNCHANGED <<made, listed, websocket, controller, ws, asked, job, received, calls, changed, since>>

\* set_websocket and attach_session of controller k
Attach(s, k, w) ==
  /\ ws' = [ws EXCEPT ![k] = w]
  /\ controller' = [controller EXCEPT ![s] = k]

\* Mutant: the session keeps its controller, which is given the new socket.
AcceptedReusing(w) ==
  LET s == home[w]
      k == IF controller[s] = None THEN w ELSE controller[s]
  IN /\ place[w] = "accepting"
     /\ Goes(w, "reading")
     /\ open' = open \cup {w}
     /\ websocket' = [websocket EXCEPT ![s] = w]
     /\ Attach(s, k, w)
     /\ since' = [since EXCEPT ![w] = asked]
     /\ Changes(s)
     /\ UNCHANGED <<registry, home, asked, job, received, calls>>

\* Accepted, and on_connect up to its first await.
Accepted(w) ==
  LET s == home[w]
  IN /\ place[w] = "accepting"
     /\ Goes(w, "reading")
     /\ open' = open \cup {w}
     /\ websocket' = [websocket EXCEPT ![s] = w]
     /\ Attach(s, w, w)
     /\ since' = [since EXCEPT ![w] = asked]
     /\ Changes(s)
     /\ UNCHANGED <<registry, home, asked, job, received, calls>>

\* handle_message of the controller that session s has now
Handles(x, s) == job' = [job EXCEPT ![x] = controller[s]]

\* send: on the socket the controller has now; on a closed one it is lost.
Sends(k, from, n) ==
  LET to == ws[k]
  IN received' = IF to \in open THEN [received EXCEPT ![to] = Append(@, [from |-> from, n |-> n])]
                 ELSE received

\* The route has run: its result or its error is sent, or it has none.
RouteEnds(x, n) ==
  /\ job' = [job EXCEPT ![x] = None]
  /\ Sends(job[x], x, n) \/ UNCHANGED received

\* A message with a route, or a heartbeat; one that is too large, one too many,
\* no JSON object or of no known type changes nothing.  A message read before
\* a newer connection closed this one is handed to the controller of that.
Message(w) ==
  /\ place[w] = "reading" /\ controller[home[w]] # None
  /\ asked[w] < MaxMessages
  /\ asked' = [asked EXCEPT ![w] = @ + 1]
  /\ Handles(w, home[w])
  /\ Goes(w, "handling")
  /\ UNCHANGED <<registry, links, home, received, calls, changed, since>>

Handled(w) ==
  /\ place[w] = "handling"
  /\ Goes(w, "reading")
  /\ RouteEnds(w, asked[w])
  /\ UNCHANGED <<registry, links, home, asked, calls, changed, since>>

\* The browser leaves.
Closes(w) ==
  /\ w \in open
  /\ open' = open \ {w}
  /\ UNCHANGED <<registry, websocket, controller, ws, reading, job, received, calls, changed, since>>

\* The receive loop ends, and the finally clause.
Ends(w) ==
  /\ place[w] = "reading" /\ w \notin open
  /\ Goes(w, "ended")
  /\ websocket' = [websocket EXCEPT ![home[w]] = None]
  /\ Changes(home[w])
  /\ UNCHANGED <<registry, controller, ws, open, home, asked, job, received, calls, since>>

-----------------------------------------------------------------------------
(* Commands *)

Goto(c, there) == pc' = [pc EXCEPT ![c] = there]
Over(c) == Goto(c, "over") /\ UNCHANGED <<cmd, sid, ctl>>

Meets(s, k) == k.socket => websocket[s] # None

\* What a tool finds at the session that it names, of which only the most
\* recent registered one is called "current".
Inject(c, s, k, there) ==
  /\ sid' = [sid EXCEPT ![c] = s]
  /\ ctl' = [ctl EXCEPT ![c] = controller[s]]
  /\ cmd' = [cmd EXCEPT ![c] = k]
  /\ Goto(c, there)

Current(cookie) == IF cookie \in Registered THEN cookie ELSE Last(recent)

\* Mutant: the body is awaited whatever the method.
StartAfterBody(k) == "body"

\* A body is awaited, or the handler runs at once.
Start(k) == IF k.body THEN "body" ELSE "running"

\* _handler of a mounted command, which may be meant for another app type.
Rest(c, s, k) ==
  /\ \/ s \in Registered /\ Meets(s, k) /\ Inject(c, s, k, Start(k))
     \/ Over(c)
  /\ IF s \in Registered THEN Touch(s) ELSE UNCHANGED recent
  /\ UNCHANGED <<made, listed, links, reading, job, received, changed, since>>

\* By an id, or by "current" with the auth cookie of some session or none.
RestCalls(c, k) ==
  /\ pc[c] = "new"
  /\ \/ \E s \in Session : Rest(c, s, k)
     \/ \E cookie \in Session \cup {None} : listed # <<>> /\ Rest(c, Current(cookie), k)

BodyArrives(c) ==
  /\ pc[c] = "body"
  /\ Goto(c, "running")
  /\ UNCHANGED <<registry, links, reading, job, received, cmd, sid, ctl, changed, since>>

\* call_tool of the server in the process, for which the app makes no
\* difference and nothing is awaited.
McpCalls(c, s, k) ==
  /\ pc[c] = "new"
  /\ s \in Registered
  /\ Touch(s)
  /\ IF Meets(s, k) THEN Inject(c, s, k, "running") ELSE Over(c)
  /\ UNCHANGED <<made, listed, links, reading, job, received, changed, since>>

\* list_sessions of the debug router
SessionsListed == listed

\* call_tool of the stdio server: its "current" is the first of the list that
\* the debug router gives, and a second request makes the call.  There may be
\* no session, or the commands are not discovered yet.
StdioLists(c) ==
  /\ pc[c] = "new"
  /\ \/ /\ SessionsListed # <<>>
        /\ sid' = [sid EXCEPT ![c] = Head(SessionsListed)]
        /\ Goto(c, "listed")
        /\ UNCHANGED <<cmd, ctl>>
     \/ Over(c)
  /\ UNCHANGED <<registry, links, reading, job, received, changed, since>>

StdioCalls(c, k) == pc[c] = "listed" /\ Rest(c, sid[c], k)

\* The handler of the command tells the browser something, and returns.
Finishes(c) ==
  /\ pc[c] = "running"
  /\ Goto(c, "over")
  /\ ctl' = [ctl EXCEPT ![c] = None] /\ cmd' = [cmd EXCEPT ![c] = None]
  /\ \/ ctl[c] # None /\ Sends(ctl[c], c, 1)
     \/ UNCHANGED received
  /\ UNCHANGED <<registry, links, reading, job, sid, changed, since>>

-----------------------------------------------------------------------------
(* Debug router *)

\* GET of a session: looking keeps it alive and makes it the current one.
Inspect(s) ==
  /\ s \in Registered
  /\ Touch(s)
  /\ UNCHANGED <<made, listed, links, reading, job, received, calls, changed, since>>

\* ws_send up to the body
WsSend(c, s) ==
  /\ pc[c] = "new"
  /\ IF s \in Registered THEN Touch(s) ELSE UNCHANGED recent
  /\ IF s \in Registered /\ controller[s] # None
     THEN /\ sid' = [sid EXCEPT ![c] = s]
          /\ Goto(c, "json")
          /\ UNCHANGED <<cmd, ctl>>
     ELSE Over(c)
  /\ UNCHANGED <<made, listed, links, reading, job, received, changed, since>>

\* The message goes to the controller that the entry has now.
Forward(c) ==
  /\ pc[c] = "json"
  /\ Handles(c, sid[c])
  /\ Goto(c, "handling")
  /\ UNCHANGED <<registry, links, reading, received, cmd, sid, ctl, changed, since>>

Forwarded(c) ==
  /\ pc[c] = "handling"
  /\ Goto(c, "over")
  /\ RouteEnds(c, 1)
  /\ UNCHANGED <<registry, links, reading, cmd, sid, ctl, changed, since>>

-----------------------------------------------------------------------------
Next ==
  \/ \E s \in Session : Register(s) \/ RemoveSession(s) \/ Inspect(s)
  \/ \E w \in Socket :
       \/ \E s \in Session : Connect(w, s)
       \/ Accepted(w) \/ Message(w) \/ Handled(w) \/ Closes(w) \/ Ends(w)
  \/ \E c \in Call :
       \/ \E k \in Command : RestCalls(c, k) \/ StdioCalls(c, k)
                             \/ \E s \in Session : McpCalls(c, s, k)
       \/ \E s \in Session : WsSend(c, s)
       \/ BodyArrives(c) \/ StdioLists(c) \/ Finishes(c) \/ Forward(c) \/ Forwarded(c)

Spec == Init /\ [][Next]_vars

-----------------------------------------------------------------------------
(* Properties *)

Begins(c) == pc[c] # "running" /\ pc'[c] = "running"
Meeting(c) ==
  c \notin changed =>
    LET s == sid'[c]
    IN s \in Registered /\ ctl'[c] = controller[s] /\ Meets(s, cmd'[c])

\* When the handler of a command begins, its session is registered, has the
\* connection that the command requires, and the injected controller is the
\* one of its present connection.  The exception is a command that waited for
\* its body while its session was removed, left or reconnected: it runs with
\* what it looked up before.
CommandMeetsItsSession == [][\A c \in Call : Begins(c) => Meeting(c)]_vars

\* A browser hears nothing about another session, and at most one reply to
\* each of its own messages.  A reply to a message of another connection of
\* its session reaches it only when that message was handled after it was
\* accepted, and so for it: never when it was being handled before.
RepliesGoToTheAsker ==
  \A w \in Socket :
    /\ \A i, j \in DOMAIN received[w] :
         i # j /\ received[w][i].from = w /\ received[w][j].from = w
         => received[w][i].n # received[w][j].n
    /\ \A i \in DOMAIN received[w] :
         LET from == received[w][i].from
         IN IF from \in Call THEN sid[from] = home[w]
            ELSE home[from] = home[w] /\ (from = w \/ received[w][i].n > since[w][from])

(* The inductive invariants behind these *)

\* Every variable they read has its type.
TypeOK ==
  /\ listed \in Seq(Session)
  /\ websocket \in [Session -> Socket \cup {None}]
  /\ controller \in [Session -> Socket \cup {None}]
  /\ ws \in [Socket -> Socket \cup {None}]
  /\ place \in [Socket -> {"new", "accepting", "reading", "handling", "ended"}]
  /\ home \in [Socket -> Session \cup {None}]
  /\ asked \in [Socket -> Nat]
  /\ job \in [Socket \cup Call -> Socket \cup {None}]
  /\ received \in [Socket -> Seq([from : Socket \cup Call, n : Nat])]
  /\ pc \in [Call -> {"new", "listed", "body", "json", "running", "handling", "over"}]
  /\ cmd \in [Call -> Command \cup {None}]
  /\ sid \in [Call -> Session \cup {None}]
  /\ ctl \in [Call -> Socket \cup {None}]
  /\ since \in [Socket -> [Socket -> Nat] \cup {None}]

\* A command that waits for its body would begin as it should now, unless its
\* session changed.
WaitingInv ==
  \A c \in Call : pc[c] = "body" =>
    /\ cmd[c] \in Command /\ cmd[c].body /\ sid[c] \in Session
    /\ c \notin changed => /\ sid[c] \in Registered
                           /\ ctl[c] = controller[sid[c]]
                           /\ Meets(sid[c], cmd[c])

\* Controller k was made for a connection of session s.
Of(k, s) == k \in Socket /\ ws[k] = k /\ home[k] = s

\* What is known of a connection before it is accepted and after; its message
\* is in the hands of a controller of its session, of a later connection only
\* when the message was read after that was accepted.
ConnectionInv(w) ==
  /\ place[w] = "new" => home[w] = None
  /\ place[w] # "new" => home[w] \in Session
  /\ place[w] \in {"new", "accepting"} => asked[w] = 0 /\ ws[w] = None /\ since[w] = None
  /\ place[w] \notin {"new", "accepting"} => since[w] # None /\ \A x \in Socket : since[w][x] <= asked[x]
  /\ place[w] = "handling" => Of(job[w], home[w]) /\ (job[w] = w \/ asked[w] > since[job[w]][w])

\* A call is in the hands of a controller of its session.
CallInv(c) ==
  /\ pc[c] \in {"body", "running"} /\ ctl[c] # None => Of(ctl[c], sid[c])
  /\ pc[c] = "json" => sid[c] \in Session /\ controller[sid[c]] # None
  /\ pc[c] = "handling" => Of(job[c], sid[c])

ControllersInv ==
  /\ \A w \in Socket : ConnectionInv(w)
  /\ \A s \in Session : controller[s] # None => Of(controller[s], s)
  /\ \A c \in Call : CallInv(c)

\* Reply r stands in what connection w received.
Proper(r, w) ==
  /\ since[w] # None
  /\ r.from \in Socket =>
       /\ place[r.from] # "new" /\ r.n <= asked[r.from]
       /\ place[r.from] = "handling" => r.n < asked[r.from]
       /\ home[r.from] = home[w] /\ (r.from = w \/ r.n > since[w][r.from])
  /\ r.from \in Call => pc[r.from] = "over" /\ sid[r.from] = home[w]

\* Every reply came where it should, and none twice.
RepliesInv ==
  \A w \in Socket :
    /\ \A i \in DOMAIN received[w] : Proper(received[w][i], w)
    /\ \A i, j \in DOMAIN received[w] :
         i # j /\ received[w][i].from = w /\ received[w][j].from = w
         => received[w][i].n # received[w][j].n

CommandsInv == TypeOK /\ WaitingInv /\ ControllersInv /\ RepliesInv
=============================================================================
