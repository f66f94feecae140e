--------------------------- MODULE KnowledgeBoard ---------------------------
(* samples/knowledge_board_app.py over run_websocket_session: sessions share
   one board; a change is pushed to each connected session in turn, with an
   await for each, and so do connects, disconnects and the reaper push.  The
   board is kept as the number of toggles made. *)
EXTENDS Naturals, FiniteSets

CONSTANTS
  Session, Conn,  \* sessions, and websocket connections
  Reaper,         \* the task that prunes silent sessions
  MaxToggles,     \* bound: toggles
  None            \* no session, connection or count

ConstantsAssumption ==
  /\ None \notin Session \cup Conn
  /\ Reaper \notin Conn

Tasks == Conn \cup {Reaper}

VARIABLES
  toggles,     \* the board
  created,     \* sessions made by /api/session
  registered,  \* the registry
  websocket,   \* the connection a session refers to
  controller,  \* the connection of its controller
  home,        \* the session of a connection
  pc,          \* the place in the handler of a connection, or in the reaper
  open,        \* connections that are not closed
  todo, peers, \* a push of a task: sessions to call yet, and the number it found
  sweep,       \* sessions the reaper looks at in this round
  reaped,      \* the one it is pruning
  pruned,      \* it pruned some in this round
  shown,       \* what the page of a connection shows: the board and the peers
  overlapped   \* history: sessions that had two connections at a time

sessions == <<created, registered, websocket, controller>>
pushes   == <<todo, peers>>
reaper   == <<sweep, reaped, pruned>>
vars == <<toggles, sessions, home, pc, open, pushes, reaper, shown, overlapped>>

Nothing == [board |-> None, peers |-> None]

Init ==
  /\ toggles = 0
  /\ created = {} /\ registered = {}
  /\ websocket = [s \in Session |-> None]
  /\ controller = [s \in Session |-> None]
  /\ home = [c \in Conn |-> None]
  /\ pc = [t \in Tasks |-> "idle"]
  /\ open = {}
  /\ todo = [t \in Tasks |-> {}]
  /\ peers = [t \in Tasks |-> 0]
  /\ sweep = {} /\ reaped = None /\ pruned = FALSE
  /\ shown = [c \in Conn |-> Nothing]
  /\ overlapped = {}

Goes(t, from, to) == pc[t] = from /\ pc' = [pc EXCEPT ![t] = to]

-----------------------------------------------------------------------------
(* push_state *)

LiveSessions == {s \in registered : websocket[s] # None}

\* Mutant: a call that fails ends the push.
CallsWhileOpen(t, S, s, n, board) ==
  /\ todo' = [todo EXCEPT ![t] = IF controller[s] \in open THEN S \ {s} ELSE {}]
  /\ peers' = [peers EXCEPT ![t] = IF S = {s} THEN 0 ELSE n]
  /\ shown' = IF controller[s] \in open
              THEN [shown EXCEPT ![controller[s]] = [board |-> board, peers |-> n]] ELSE shown

\* One call of a push to the sessions S: board.update at the controller that s
\* has now, with the board of now and the number of peers n that the push found.
Calls(t, S, s, n, board) ==
  /\ todo' = [todo EXCEPT ![t] = S \ {s}]
  /\ peers' = [peers EXCEPT ![t] = IF S = {s} THEN 0 ELSE n]
  /\ shown' = IF controller[s] \in open
              THEN [shown EXCEPT ![controller[s]] = [board |-> board, peers |-> n]] ELSE shown

\* A push to the sessions S that are live now, up to its first await
PushState(t, S, board) ==
  IF S = {} THEN UNCHANGED <<pushes, shown>>
  ELSE \E s \in S : Calls(t, S, s, Cardinality(S), board)

\* ... and up to each next one.
PushGoesOn(t) ==
  /\ \E s \in todo[t] : Calls(t, todo[t], s, peers[t], toggles)
  /\ UNCHANGED <<toggles, sessions, home, pc, open, reaper, overlapped>>

Pushed(t) == todo[t] = {}

-----------------------------------------------------------------------------
(* The websocket of a session *)

\* /api/session
CreateSession(s) ==
  /\ s \notin created
  /\ created' = created \cup {s}
  /\ registered' = registered \cup {s}
  /\ UNCHANGED <<toggles, websocket, controller, home, pc, open, pushes, reaper, shown, overlapped>>

\* run_websocket_session up to accept: an older connection is closed.
Connect(c, s) ==
  /\ s \in registered
  /\ Goes(c, "idle", "accepting")
  /\ home' = [home EXCEPT ![c] = s]
  /\ open' = (open \cup {c}) \ {websocket[s]}
  /\ overlapped' = IF \/ websocket[s] # None
                      \/ \E d \in Conn \ {c} : home[d] = s /\ pc[d] # "ended"
                   THEN overlapped \cup {s} ELSE overlapped
  /\ UNCHANGED <<toggles, sessions, pushes, reaper, shown>>

\* on_connect up to its first await
Accepted(c) ==
  /\ Goes(c, "accepting", "welcoming")
  /\ websocket' = [websocket EXCEPT ![home[c]] = c]
  /\ controller' = [controller EXCEPT ![home[c]] = c]
  /\ UNCHANGED <<toggles, created, registered, home, open, pushes, reaper, shown, overlapped>>

Welcomed(c) ==
  /\ Goes(c, "welcoming", "pushing")
  /\ PushState(c, LiveSessions, toggles)
  /\ UNCHANGED <<toggles, sessions, home, open, reaper, overlapped>>

\* board.toggle, also of a page that left: what it had sent is still read
Toggle(c) ==
  /\ toggles < MaxToggles
  /\ Goes(c, "reading", "pushing")
  /\ toggles' = toggles + 1
  /\ PushState(c, LiveSessions, toggles + 1)
  /\ UNCHANGED <<sessions, home, open, reaper, overlapped>>

\* The push of on_connect or of a toggle is done.
Reads(c) ==
  /\ Pushed(c)
  /\ Goes(c, "pushing", "reading")
  /\ UNCHANGED <<toggles, sessions, home, open, pushes, reaper, shown, overlapped>>

\* The page goes away.
Leaves(c) ==
  /\ c \in open
  /\ open' = open \ {c}
  /\ UNCHANGED <<toggles, sessions, home, pc, pushes, reaper, shown, overlapped>>

\* on_disconnect
Disconnected(c) ==
  /\ c \notin open
  /\ Goes(c, "reading", "leaving")
  /\ websocket' = [websocket EXCEPT ![home[c]] = None]
  /\ registered' = registered \ {home[c]}
  /\ PushState(c, LiveSessions \ {home[c]}, toggles)
  /\ UNCHANGED <<toggles, created, controller, home, open, reaper, overlapped>>

\* the end of the finally clause
Ends(c) ==
  /\ Pushed(c)
  /\ Goes(c, "leaving", "ended")
  /\ websocket' = [websocket EXCEPT ![home[c]] = None]
  /\ UNCHANGED <<toggles, created, registered, controller, home, open, pushes, reaper, shown, overlapped>>

-----------------------------------------------------------------------------
(* _reaper: which sessions are silent is left open *)

ReaperWakes ==
  /\ Goes(Reaper, "idle", "sweeping")
  /\ sweep' = registered
  /\ UNCHANGED <<toggles, sessions, home, open, pushes, reaped, pruned, shown, overlapped>>

\* A silent one is closed ...
ReaperCloses(s) ==
  /\ s \in sweep /\ websocket[s] # None
  /\ Goes(Reaper, "sweeping", "closing")
  /\ sweep' = sweep \ {s}
  /\ reaped' = s
  /\ open' = open \ {websocket[s]}
  /\ UNCHANGED <<toggles, sessions, home, pushes, pruned, shown, overlapped>>

\* ... and removed after the await.
ReaperRemoves ==
  /\ Goes(Reaper, "closing", "sweeping")
  /\ websocket' = [websocket EXCEPT ![reaped] = None]
  /\ registered' = registered \ {reaped}
  /\ reaped' = None
  /\ pruned' = TRUE
  /\ UNCHANGED <<toggles, created, controller, home, open, pushes, sweep, shown, overlapped>>

ReaperSwept ==
  /\ sweep' = {} /\ pruned' = FALSE
  /\ Goes(Reaper, "sweeping", IF pruned THEN "pushing" ELSE "idle")
  /\ IF pruned THEN PushState(Reaper, LiveSessions, toggles) ELSE UNCHANGED <<pushes, shown>>
  /\ UNCHANGED <<toggles, sessions, home, open, reaped, overlapped>>

ReaperSleeps ==
  /\ Pushed(Reaper)
  /\ Goes(Reaper, "pushing", "idle")
  /\ UNCHANGED <<toggles, sessions, home, open, pushes, reaper, shown, overlapped>>

-----------------------------------------------------------------------------
Handler(c) == Accepted(c) \/ Welcomed(c) \/ Toggle(c) \/ Reads(c) \/ Leaves(c) \/ Disconnected(c) \/ Ends(c)

Next ==
  \/ \E s \in Session : CreateSession(s) \/ ReaperCloses(s) \/ \E c \in Conn : Connect(c, s)
  \/ \E c \in Conn : Handler(c)
  \/ \E t \in Tasks : PushGoesOn(t)
  \/ ReaperWakes \/ ReaperRemoves \/ ReaperSwept \/ ReaperSleeps

Spec == Init /\ [][Next]_vars

-----------------------------------------------------------------------------
(* Properties *)

\* Connections that were welcomed and that no other of their session overlaps.
Boards == {c \in open : pc[c] \in {"pushing", "reading"} /\ home[c] \notin overlapped}

\* An open board whose session had no other connection beside it is registered
\* and connected, and shows what was toggled last, or a push is under way that
\* will call it: pushes that overlap bring no older board back.
BoardIsCurrent ==
  \A c \in Boards :
    /\ home[c] \in registered /\ websocket[home[c]] = c
    /\ shown[c].board = toggles \/ \E t \in Tasks : home[c] \in todo[t]

\* When no push is under way, an open board shows how many are connected.
ConnectedCountIsLive ==
  (\A t \in Tasks : pc[t] \in {"idle", "reading", "ended"}) =>
    \A c \in Boards : shown[c].peers = Cardinality(LiveSessions)

-----------------------------------------------------------------------------
(* The inductive invariant behind BoardIsCurrent *)

\* Every variable that the proof is about has its type.
TypeOK ==
  /\ toggles \in Nat
  /\ registered \subseteq created /\ created \subseteq Session
  /\ websocket \in [Session -> Conn \cup {None}]
  /\ controller \in [Session -> Conn \cup {None}]
  /\ home \in [Conn -> Session \cup {None}]
  /\ pc \in [Tasks -> {"idle", "accepting", "welcoming", "pushing", "reading", "leaving", "ended",
                       "sweeping", "closing"}]
  /\ open \subseteq Conn
  /\ todo \in [Tasks -> SUBSET Session]
  /\ DOMAIN shown = Conn
  /\ sweep \subseteq created /\ reaped \in created \cup {None}

\* A connection is open before it is seen to be closed, its session was made
\* and is unknown when it has left; tasks have calls to make while they push.
PlacesKnown ==
  /\ \A c \in Conn :
       /\ pc[c] = "idle" <=> home[c] = None
       /\ home[c] # None => home[c] \in created
       /\ c \in open => pc[c] \in {"accepting", "welcoming", "pushing", "reading"}
       /\ pc[c] \in {"leaving", "ended"} => home[c] \notin registered
  /\ \A t \in Tasks : todo[t] # {} => pc[t] \in {"pushing", "leaving"}

\* A session without overlaps has one connection at a time, and refers to it
\* from its acceptance on, until it is closed.
Alone ==
  \A s \in Session \ overlapped :
    /\ \A c, d \in Conn : home[c] = s /\ home[d] = s /\ "ended" \notin {pc[c], pc[d]} => c = d
    /\ websocket[s] # None =>
         home[websocket[s]] = s /\ pc[websocket[s]] \in {"welcoming", "pushing", "reading"}
    /\ \A c \in open : home[c] = s =>
         /\ s \in registered
         /\ pc[c] # "accepting" => websocket[s] = c /\ controller[s] = c

\* What the reaper is pruning has no open connection, and gets none.
ReapedIsClosed ==
  reaped \in Session \ overlapped =>
    /\ \A c \in open : home[c] # reaped
    /\ reaped \in registered => websocket[reaped] # None

BoardInv == TypeOK /\ PlacesKnown /\ Alone /\ ReapedIsClosed /\ BoardIsCurrent
=============================================================================
