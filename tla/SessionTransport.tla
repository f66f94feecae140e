-------------------------- MODULE SessionTransport --------------------------
(***************************************************************************)
(* The life of a registered session and of the WebSocket handlers that     *)
(* serve it: the registry with its cleanup loop (session.py), the handler  *)
(* run_websocket_session (transport.py) and the manager that creates, ends *)
(* and revokes sessions (session_manager.py).                              *)
(*                                                                         *)
(* Everything runs on one asyncio event loop: a step of this module is the *)
(* code between two awaits.  A handler that awaits (closing the socket it  *)
(* supersedes, accepting, the application's hooks) leaves its place in pc, *)
(* and any other coroutine may run before it continues.                    *)
(*                                                                         *)
(* time.monotonic() is modelled by ages: idle and hb count the ticks since *)
(* last_activity and last_heartbeat were stamped and stop one above the    *)
(* limit they are compared with, so that the model is finite without a     *)
(* bound on time.  Ages of entries out of the registry are never read and  *)
(* do not grow.                                                            *)
(***************************************************************************)
EXTENDS Integers, FiniteSets

CONSTANTS
  Sid,       \* session ids
  Entry,     \* session entry objects; each is registered at most once
  Conn,      \* incoming WebSocket connections, one handler each
  Target,    \* objects that can own a connection: the entry or an attachment
  Root,      \* the target that is the entry itself
  None,      \* Python's None
  TTL,       \* DEFAULT_SESSION_TTL, in ticks
  HbTTL,     \* DEFAULT_HEARTBEAT_TTL, in ticks
  Interval,  \* DEFAULT_CLEANUP_INTERVAL, in ticks
  SupersedeExisting   \* the handler's supersede_existing argument

ASSUME ConstantsAssumption ==
  /\ Root \in Target
  /\ None \notin Entry \cup Conn
  /\ TTL \in Nat /\ HbTTL \in Nat /\ Interval \in Nat
  /\ SupersedeExisting \in BOOLEAN

VARIABLES
  sessions,  \* registry: session id -> entry or None
  contexts,  \* SessionManager._contexts: the ids that have a context
  made,      \* entries constructed so far
  ws,        \* entry -> target -> its websocket reference or None
  idle,      \* entry -> ticks since last_activity
  hb,        \* entry -> ticks since last_heartbeat
  sweep,     \* ticks since the cleanup loop last ran
  pc,        \* connection -> where its handler is
  hent,      \* connection -> the entry its handler looked up
  htgt,      \* connection -> the target its handler works on
  sock,      \* connection -> the socket as the network sees it
  reaper,    \* entry -> state of the _close_zombie task created for it
  ender,     \* session id -> where its end_session call is
  endent,    \* session id -> the entry that end_session call looked up
  \* History, read by no action of the code:
  overlap,   \* entries that ever had two attached handlers at once
  reaped     \* entry -> the connection the sweep took for a zombie

registry == <<sessions, contexts, made>>
clocks   == <<idle, hb, sweep>>
handlers == <<pc, hent, htgt, sock>>
tasks    == <<reaper, ender, endent>>
history  == <<overlap, reaped>>
vars == <<registry, ws, clocks, handlers, tasks, history>>

Registered(e) == \E s \in Sid : sessions[s] = e

\* From websocket.accept() to the end of the handler's finally clause.
AttachedAt == {"connecting", "loop", "leaving"}
Attached(c) == pc[c] \in AttachedAt
AttachedTo(e) == {c \in Conn : Attached(c) /\ hent[c] = e}

\* The server's close(): the handler's receive_text raises afterwards.
Closing(C) == sock' = [c \in Conn |-> IF c \in C THEN "closed" ELSE sock[c]]

Touch(e) == idle' = [idle EXCEPT ![e] = 0]

Init ==
  /\ sessions = [s \in Sid |-> None]
  /\ contexts = {}
  /\ made = {}
  /\ ws = [e \in Entry |-> [t \in Target |-> None]]
  /\ idle = [e \in Entry |-> 0]
  /\ hb = [e \in Entry |-> 0]
  /\ sweep = 0
  /\ pc = [c \in Conn |-> "idle"]
  /\ hent = [c \in Conn |-> None]
  /\ htgt = [c \in Conn |-> Root]
  /\ sock = [c \in Conn |-> "new"]
  /\ reaper = [e \in Entry |-> "none"]
  /\ ender = [s \in Sid |-> "idle"]
  /\ endent = [s \in Sid |-> None]
  /\ overlap = {}
  /\ reaped = [e \in Entry |-> None]

-----------------------------------------------------------------------------
(* Session manager and registry *)

\* create_session: the entry replaces whatever the id named before, and the
\* replaced entry is not cleaned up.
CreateSession(s, e) ==
  /\ e \notin made
  /\ made' = made \cup {e}
  /\ sessions' = [sessions EXCEPT ![s] = e]
  /\ contexts' = contexts \cup {s}
  /\ UNCHANGED <<ws, clocks, handlers, tasks, history>>

\* resolve, get_session: any authenticated lookup refreshes last_activity.
Resolve(s) ==
  /\ sessions[s] # None
  /\ Touch(sessions[s])
  /\ UNCHANGED <<registry, ws, hb, sweep, handlers, tasks, history>>

\* end_session before its first await.
EndSession(s) ==
  /\ ender[s] = "idle"
  /\ IF sessions[s] = None
     THEN /\ contexts' = contexts \ {s}
          /\ UNCHANGED <<idle, ender, endent>>
     ELSE /\ Touch(sessions[s])
          /\ ender' = [ender EXCEPT ![s] = "cleanup"]
          /\ endent' = [endent EXCEPT ![s] = sessions[s]]
          /\ UNCHANGED contexts
  /\ UNCHANGED <<sessions, made, ws, hb, sweep, handlers, reaper, history>>

\* controller.cleanup() has returned: close the websocket, if there is one.
EndCloses(s) ==
  /\ ender[s] = "cleanup"
  /\ ender' = [ender EXCEPT ![s] = "closing"]
  /\ Closing({ws[endent[s]][Root]} \cap Conn)
  /\ UNCHANGED <<registry, ws, clocks, pc, hent, htgt, reaper, endent, history>>

\* Mutant: the entry is removed only if it is still the one looked up, but
\* the context is popped in any case.
EndRemovesOwn(s) ==
  /\ ender[s] = "closing"
  /\ ender' = [ender EXCEPT ![s] = "idle"]
  /\ endent' = [endent EXCEPT ![s] = None]
  /\ sessions' = [sessions EXCEPT ![s] = IF @ = endent[s] THEN None ELSE @]
  /\ contexts' = contexts \ {s}
  /\ UNCHANGED <<made, ws, clocks, handlers, reaper, history>>

\* close() has returned: remove whatever the id names by now.
EndRemoves(s) ==
  /\ ender[s] = "closing"
  /\ ender' = [ender EXCEPT ![s] = "idle"]
  /\ endent' = [endent EXCEPT ![s] = None]
  /\ sessions' = [sessions EXCEPT ![s] = None]
  /\ contexts' = contexts \ {s}
  /\ UNCHANGED <<made, ws, clocks, handlers, reaper, history>>

\* revoke_by_context: the criteria select any set of ids with a context.
Revoke(S) ==
  /\ S # {}
  /\ sessions' = [s \in Sid |-> IF s \in S THEN None ELSE sessions[s]]
  /\ contexts' = contexts \ S
  /\ UNCHANGED <<made, ws, clocks, handlers, tasks, history>>

\* cleanup_expired_contexts
CleanupContexts ==
  /\ contexts' = {s \in contexts : sessions[s] # None}
  /\ UNCHANGED <<sessions, made, ws, clocks, handlers, tasks, history>>

-----------------------------------------------------------------------------
(* The cleanup loop *)

\* Mutant: idleness alone expires, connected or not.
IdleByAge(s) ==
  /\ sessions[s] # None
  /\ idle[sessions[s]] > TTL

IdleExpired(s) ==
  /\ sessions[s] # None
  /\ ws[sessions[s]][Root] = None
  /\ idle[sessions[s]] > TTL

ZombieExpired(s) ==
  /\ sessions[s] # None
  /\ ws[sessions[s]][Root] # None
  /\ hb[sessions[s]] > HbTTL

Expired(s) == IdleExpired(s) \/ ZombieExpired(s)

\* cleanup_expired: one step without an await.  A zombie's task is only
\* scheduled here, and its reference is cleared before that task runs.
CleanupExpired ==
  LET zombies == {sessions[s] : s \in {z \in Sid : ZombieExpired(z)}}
  IN /\ sweep >= Interval
     /\ sweep' = 0
     /\ sessions' = [s \in Sid |-> IF Expired(s) THEN None ELSE sessions[s]]
     /\ ws' = [e \in Entry |-> IF e \in zombies
                               THEN [ws[e] EXCEPT ![Root] = None]
                               ELSE ws[e]]
     /\ reaper' = [e \in Entry |-> IF e \in zombies THEN "scheduled" ELSE reaper[e]]
     /\ reaped' = [e \in Entry |-> IF e \in zombies THEN ws[e][Root] ELSE reaped[e]]
     /\ UNCHANGED <<contexts, made, idle, hb, handlers, ender, endent, overlap>>

\* _close_zombie reads entry.websocket when the task gets to run.
CloseZombie(e) ==
  /\ reaper[e] = "scheduled"
  /\ reaper' = [reaper EXCEPT ![e] = "done"]
  /\ Closing({ws[e][Root]} \cap Conn)
  /\ UNCHANGED <<registry, ws, clocks, pc, hent, htgt, ender, endent, history>>

Older(age, limit) == IF age > limit THEN age ELSE age + 1

Tick ==
  /\ idle' = [e \in Entry |-> IF Registered(e) THEN Older(idle[e], TTL) ELSE idle[e]]
  /\ hb' = [e \in Entry |-> IF Registered(e) THEN Older(hb[e], HbTTL) ELSE hb[e]]
  /\ sweep' = IF sweep < Interval THEN sweep + 1 ELSE sweep
  /\ UNCHANGED <<registry, ws, handlers, tasks, history>>

-----------------------------------------------------------------------------
(* run_websocket_session *)

\* Session unknown (or filtered out, after the lookup has refreshed it).
Reject(c, s) ==
  /\ pc[c] = "idle"
  /\ pc' = [pc EXCEPT ![c] = "done"]
  /\ sock' = [sock EXCEPT ![c] = "closed"]
  /\ IF sessions[s] = None THEN UNCHANGED idle ELSE Touch(sessions[s])
  /\ UNCHANGED <<registry, ws, hb, sweep, hent, htgt, tasks, history>>

\* Lookup up to the first await: with an existing websocket, the call to its
\* close(); otherwise the call to accept().
Lookup(c, s, t) ==
  LET e == sessions[s]
      supersede == SupersedeExisting /\ ws[e][t] # None
  IN /\ pc[c] = "idle"
     /\ e # None
     /\ Touch(e)
     /\ pc' = [pc EXCEPT ![c] = IF supersede THEN "superseding" ELSE "accepting"]
     /\ hent' = [hent EXCEPT ![c] = e]
     /\ htgt' = [htgt EXCEPT ![c] = t]
     /\ Closing(IF supersede THEN {ws[e][t]} ELSE {})
     /\ UNCHANGED <<registry, ws, hb, sweep, tasks, history>>

\* close() and controller.cleanup() have returned.
Superseded(c) ==
  /\ pc[c] = "superseding"
  /\ pc' = [pc EXCEPT ![c] = "accepting"]
  /\ UNCHANGED <<registry, ws, clocks, hent, htgt, sock, tasks, history>>

\* accept() has returned: the references are set and on_connect is called.
Accept(c) ==
  LET e == hent[c]
  IN /\ pc[c] = "accepting"
     /\ pc' = [pc EXCEPT ![c] = "connecting"]
     /\ sock' = [sock EXCEPT ![c] = "open"]
     /\ ws' = [ws EXCEPT ![e] = [t \in Target |-> IF t \in {Root, htgt[c]} THEN c ELSE @[t]]]
     /\ hb' = [hb EXCEPT ![e] = 0]
     /\ overlap' = IF AttachedTo(e) = {} THEN overlap ELSE overlap \cup {e}
     /\ UNCHANGED <<registry, idle, sweep, hent, htgt, tasks, reaped>>

\* on_connect has returned ...
Connected(c) ==
  /\ pc[c] = "connecting"
  /\ pc' = [pc EXCEPT ![c] = "loop"]
  /\ UNCHANGED <<registry, ws, clocks, hent, htgt, sock, tasks, history>>

\* Mutant: on_connect is called outside the try block.
ConnectFailsOutside(c) ==
  /\ pc[c] = "connecting"
  /\ pc' = [pc EXCEPT ![c] = "done"]
  /\ UNCHANGED <<registry, ws, clocks, hent, htgt, sock, tasks, history>>

\* ... or raised.
ConnectFails(c) ==
  /\ pc[c] = "connecting"
  /\ pc' = [pc EXCEPT ![c] = "leaving"]
  /\ UNCHANGED <<registry, ws, clocks, hent, htgt, sock, tasks, history>>

\* A heartbeat gets through the size, rate and JSON checks.  (Any other
\* message, and a dropped one, changes nothing here.)
Heartbeat(c) ==
  /\ pc[c] = "loop"
  /\ sock[c] = "open"
  /\ hb' = [hb EXCEPT ![hent[c]] = 0]
  /\ UNCHANGED <<registry, ws, idle, sweep, handlers, tasks, history>>

\* receive_text raises: the finally clause awaits on_disconnect.
Disconnect(c) ==
  /\ pc[c] = "loop"
  /\ sock[c] = "closed"
  /\ pc' = [pc EXCEPT ![c] = "leaving"]
  /\ UNCHANGED <<registry, ws, clocks, hent, htgt, sock, tasks, history>>

\* Mutant: the finally clause does not clear the references.
FinishUncleared(c) ==
  /\ pc[c] = "leaving"
  /\ pc' = [pc EXCEPT ![c] = "done"]
  /\ sock' = [sock EXCEPT ![c] = "closed"]
  /\ UNCHANGED <<registry, ws, clocks, hent, htgt, tasks, history>>

\* The end of the finally clause: the references are cleared, whichever
\* connection they name.
Finish(c) ==
  LET e == hent[c]
  IN /\ pc[c] = "leaving"
     /\ pc' = [pc EXCEPT ![c] = "done"]
     /\ sock' = [sock EXCEPT ![c] = "closed"]
     /\ ws' = [ws EXCEPT ![e] = [t \in Target |-> IF t \in {Root, htgt[c]} THEN None ELSE @[t]]]
     /\ UNCHANGED <<registry, clocks, hent, htgt, tasks, history>>

\* The client closes its socket, or disappears without a trace (a proxy that
\* silently drops the TCP connection).
ClientCloses(c) ==
  /\ sock[c] = "open"
  /\ sock' = [sock EXCEPT ![c] = "closed"]
  /\ UNCHANGED <<registry, ws, clocks, pc, hent, htgt, tasks, history>>

ClientVanishes(c) ==
  /\ sock[c] = "open"
  /\ sock' = [sock EXCEPT ![c] = "lost"]
  /\ UNCHANGED <<registry, ws, clocks, pc, hent, htgt, tasks, history>>

-----------------------------------------------------------------------------
Handler(c) ==
  \/ \E s \in Sid : Reject(c, s)
  \/ \E s \in Sid, t \in Target : Lookup(c, s, t)
  \/ Superseded(c)
  \/ Accept(c)
  \/ Connected(c)
  \/ ConnectFails(c)
  \/ Heartbeat(c)
  \/ Disconnect(c)
  \/ Finish(c)

Client(c) == ClientCloses(c) \/ ClientVanishes(c)

Manager(s) ==
  \/ \E e \in Entry : CreateSession(s, e)
  \/ Resolve(s)
  \/ EndSession(s)
  \/ EndCloses(s)
  \/ EndRemoves(s)

Background ==
  \/ \E S \in SUBSET contexts : Revoke(S)
  \/ CleanupContexts
  \/ CleanupExpired
  \/ \E e \in Entry : CloseZombie(e)
  \/ Tick

Next ==
  \/ \E s \in Sid : Manager(s)
  \/ \E c \in Conn : Handler(c) \/ Client(c)
  \/ Background

\* Time passes, the event loop runs every coroutine that can run, and the
\* application's hooks return.  Nothing is assumed of clients or callers.
Continues(c) == Superseded(c) \/ Accept(c) \/ Connected(c) \/ Disconnect(c) \/ Finish(c)

Fairness ==
  /\ WF_vars(Tick)
  /\ WF_vars(CleanupExpired)
  /\ \A e \in Entry : WF_vars(CloseZombie(e))
  /\ \A c \in Conn : WF_vars(Continues(c))
  /\ \A s \in Sid : WF_vars(EndCloses(s) \/ EndRemoves(s))

Spec == Init /\ [][Next]_vars
FairSpec == Spec /\ Fairness

-----------------------------------------------------------------------------
(* Properties *)

\* A handler past its lookup, and an end_session call in progress, work on an
\* entry that was created, as does the registry.
EntryHeld ==
  /\ \A c \in Conn : pc[c] \in {"superseding", "accepting"} \cup AttachedAt => hent[c] \in made
  /\ \A s \in Sid : ender[s] # "idle" => endent[s] \in made
  /\ \A s \in Sid : sessions[s] # None => sessions[s] \in made

\* Every variable has its type, and every reference to an entry that a step
\* follows leads to one.
TypeOK ==
  /\ sessions \in [Sid -> Entry \cup {None}]
  /\ contexts \subseteq Sid
  /\ made \subseteq Entry
  /\ ws \in [Entry -> [Target -> Conn \cup {None}]]
  /\ idle \in [Entry -> 0 .. TTL + 1]
  /\ hb \in [Entry -> 0 .. HbTTL + 1]
  /\ sweep \in 0 .. Interval
  /\ pc \in [Conn -> {"idle", "superseding", "accepting", "done"} \cup AttachedAt]
  /\ hent \in [Conn -> Entry \cup {None}]
  /\ htgt \in [Conn -> Target]
  /\ sock \in [Conn -> {"new", "open", "lost", "closed"}]
  /\ reaper \in [Entry -> {"none", "scheduled", "done"}]
  /\ ender \in [Sid -> {"idle", "cleanup", "closing"}]
  /\ endent \in [Sid -> Entry \cup {None}]
  /\ overlap \subseteq Entry
  /\ reaped \in [Entry -> Conn \cup {None}]
  /\ EntryHeld

\* A websocket reference never outlives its handler: whatever it names is
\* between its accept() and the end of its finally clause, on that entry.
\* (transport.py clears in the finally clause what it set after accept.)
ReferenceHasHandler ==
  \A e \in Entry, t \in Target :
    ws[e][t] # None => /\ Attached(ws[e][t])
                       /\ hent[ws[e][t]] = e
                       /\ t \in {Root, htgt[ws[e][t]]}

\* As long as the handlers of a session never overlap, the reaper can see
\* the connection: a registered entry whose handler is attached refers to it
\* both as the entry's and as the target's websocket.
SoleConnectionIsReferenced ==
  \A c \in Conn :
    Attached(c) /\ Registered(hent[c]) /\ hent[c] \notin overlap
      => ws[hent[c]][Root] = c /\ ws[hent[c]][htgt[c]] = c

\* Hence the cleanup loop never takes away the session of a connection that
\* was never overlapped and whose heartbeat is recent, however long the
\* session was not looked up.
SweepSparesLiveConnection ==
  [][CleanupExpired =>
       \A c \in Conn :
         /\ Attached(c) /\ Registered(hent[c])
         /\ hent[c] \notin overlap
         /\ hb[hent[c]] <= HbTTL
         => \E s \in Sid : sessions'[s] = hent[c]]_vars

\* Every registered session has the context it was created with: ending,
\* revoking, expiring and context cleanup never leave one without the other
\* in this direction, in whatever order they interleave with create_session.
RegisteredHasContext ==
  \A s \in Sid : sessions[s] # None => s \in contexts

\* No session stays registered for ever unless it is looked up or sends a
\* heartbeat again and again; a connection dropped without a disconnect
\* event is no exception.
Active(e) == idle[e] = 0 \/ hb[e] = 0
SilentSessionIsRemoved ==
  \A e \in Entry : []<>(~Registered(e) \/ Active(e))

\* A handler whose socket was closed, by the client, by a superseding
\* handler or by end_session, comes to its end and its session no longer
\* refers to it.
ClosedConnectionIsReleased ==
  \A c \in Conn :
    sock[c] = "closed" ~> /\ pc[c] = "done"
                          /\ \A e \in Entry, t \in Target : ws[e][t] # c

-----------------------------------------------------------------------------
(* What the documentation says and the code does not do *)

\* _close_zombie: "Try to close a zombie WebSocket": once the task has run,
\* the zombie's socket has been closed.
ZombieSocketIsClosed ==
  \A e \in Entry : reaper[e] = "done" => sock[reaped[e]] = "closed"

\* cleanup_expired: "Disconnected and idle - normal expiry": a session that
\* expires in this way has no handler that serves an open socket.
NormalExpiryIsOfDisconnected ==
  [][CleanupExpired =>
       \A s \in Sid : IdleExpired(s) =>
         ~ \E c \in Conn : hent[c] = sessions[s] /\ pc[c] = "loop" /\ sock[c] = "open"]_vars
=============================================================================
