-------------------------- MODULE Publishing_proofs --------------------------
(***************************************************************************)
(* Theorems about Publishing, for any sets of apps, browsers, tokens and   *)
(* credentials, any lifetimes and any bound of the clock, and about        *)
(* KnowledgeBoard, for any sessions and connections.                       *)
(***************************************************************************)
EXTENDS MCApplications, TLAPS

\* What is known of expiry times, so that TypeOK can be used without them.
LEMMA TimeFacts ==
  /\ Links!NoExpiry \in Links!LinkTimes /\ Links!LinkTimes \subseteq Nat
  /\ \A m \in 1 .. LinkTime, ttl \in LinkTtls : m + ttl \in Links!LinkTimes
  /\ \A m \in 1 .. LinkTime : m + PairTtl \in Links!Times
  /\ Links!Unpublished \notin Links!LinkTimes
BY LinksAssumption DEF Links!ConstantsAssumption, Links!LinkTimes, Links!Times, Links!NoExpiry,
                       Links!Unpublished

\* A record of an app is never the absence of one.
LEMMA GoneFacts == Links!Gone.app \notin Apps /\ \A a \in Apps : \A e : [app |-> a, expires |-> e] # Links!Gone
BY LinksAssumption DEF Links!ConstantsAssumption, Links!Gone

OneEach == \A c, d \in Creds : origin[c] # Links!NoCred /\ origin[c] = origin[d] => c = d
Inv == Links!TypeOK /\ Links!StoredForItsApp /\ Links!TokenInv /\ Links!GrantInv /\ OneEach

\* A redemption, spelt out.
LEMMA RedeemFacts ==
  ASSUME NEW b, NEW a, NEW t, NEW c, Links!Redeem(b, a, t, c)
  PROVE  /\ devices' = [devices EXCEPT ![c] = [app |-> pairings[t].app, expires |-> links[pairings[t].app]]]
         /\ origin' = [origin EXCEPT ![c] = t] /\ pairings' = [pairings EXCEPT ![t] = Links!Gone]
         /\ holds' = holds \/ (pairings[t].app = a /\ holds' = [holds EXCEPT ![b][a] = c])
         /\ holds[b][a] = Links!NoCred
         /\ UNCHANGED <<minute, links, shaking, issued, revoked, renewed>>
<1>1. Links!Store(b, a, t, c) \/ UNCHANGED holds
  BY Zenon DEF Links!Redeem
<1>2. CASE UNCHANGED holds
  BY <1>2, Zenon DEF Links!Redeem, Links!Consume, Links!Grant
<1>3. CASE Links!Store(b, a, t, c) /\ pairings[t].app = a
  BY <1>3, Zenon DEF Links!Store, Links!Redeem, Links!Consume, Links!Grant
<1>4. CASE Links!Store(b, a, t, c) /\ pairings[t].app # a
  BY <1>4, Zenon DEF Links!Store, Links!Redeem, Links!Consume, Links!Grant
<1>5. QED
  BY <1>1, <1>2, <1>3, <1>4

LEMMA InvInit == Links!Init => Inv
BY LinksAssumption, TimeFacts
   DEF Links!ConstantsAssumption, Links!Init, Inv, OneEach, Links!TypeOK, Links!StoredForItsApp,
       Links!TokenInv, Links!GrantInv, Links!Gone, Links!NoCred, Links!Unpublished

LEMMA InvStep == Inv /\ [Links!Next]_Links!vars => Inv'
<1> SUFFICES ASSUME Inv, [Links!Next]_Links!vars PROVE Inv'
  OBVIOUS
<1> USE LinksAssumption, TimeFacts, GoneFacts
    DEF Links!ConstantsAssumption, Inv, OneEach, Links!TypeOK, Links!StoredForItsApp, Links!TokenInv,
        Links!GrantInv, Links!registry, Links!past, Links!NoCred
<1>1. ASSUME NEW a \in Apps, NEW ttl \in LinkTtls, Links!Publish(a, ttl) PROVE Inv'
  <2>1. links' \in [Apps -> Links!LinkTimes \cup {Links!Unpublished}] /\ links'[a] # Links!Unpublished
    BY <1>1 DEF Links!Publish
  <2>2. Links!TypeOK'
    BY <1>1, <2>1 DEF Links!Publish
  <2>3. Links!GrantInv'
    BY <1>1, <2>1 DEF Links!Publish
  <2>4. QED
    BY <1>1, <2>2, <2>3 DEF Links!Publish
<1>2. ASSUME NEW a \in Apps, Links!Revoke(a) PROVE Inv'
  BY <1>2 DEF Links!Revoke
<1>3. ASSUME NEW a \in Apps, NEW t \in Tokens, Links!IssuePairing(a, t) PROVE Inv'
  BY <1>3 DEF Links!IssuePairing
<1>4. ASSUME NEW c \in Creds, Links!RevokeDevice(c) PROVE Inv'
  BY <1>4 DEF Links!RevokeDevice
<1>5. ASSUME NEW t \in Tokens, Links!RedeemFails(t) PROVE Inv'
  BY <1>5 DEF Links!RedeemFails, Links!Consume
<1>6. ASSUME NEW b \in Browsers, NEW a \in Apps, NEW t \in Tokens, NEW c \in Creds, Links!Redeem(b, a, t, c)
      PROVE  Inv'
  <2> DEFINE p == pairings[t].app
  <2>1. p \in Apps /\ pairings[t] # Links!Gone /\ links[p] \in Links!LinkTimes /\ origin[c] = Links!NoCred /\ t \in issued
    BY <1>6 DEF Links!Redeem, Links!Grant, Links!Resolved
  <2>2. /\ devices' = [devices EXCEPT ![c] = [app |-> p, expires |-> links[p]]]
        /\ origin' = [origin EXCEPT ![c] = t] /\ pairings' = [pairings EXCEPT ![t] = Links!Gone]
        /\ holds' = holds \/ (p = a /\ holds' = [holds EXCEPT ![b][a] = c])
        /\ holds[b][a] = Links!NoCred
        /\ UNCHANGED <<minute, links, shaking, issued, revoked, renewed>>
    BY <1>6, RedeemFacts, Zenon
  <2>3. /\ holds' \in [Browsers -> [Apps -> Creds \cup {Links!NoCred}]]
        /\ \A q \in Browsers, x \in Apps : holds'[q][x] = holds[q][x] \/ (holds'[q][x] = c /\ x = p)
    <3>1. CASE holds' = holds
      BY <3>1
    <3>2. CASE p = a /\ holds' = [holds EXCEPT ![b][a] = c]
      BY <3>2
    <3>3. QED
      BY <2>2, <3>1, <3>2
  <2>4. \A q \in Browsers, x \in Apps : holds'[q][x] \in {holds[q][x], c}
    BY <2>3
  <2>5. \A q \in Browsers, x \in Apps : holds'[q][x] = c => x = p
    BY <2>1, <2>3
  <2>6. Links!TypeOK'
    <3>1. pairings' \in [Tokens -> [app : Apps, expires : Links!Times] \cup {Links!Gone}]
      BY <2>2
    <3>2. devices' \in [Creds -> [app : Apps, expires : Links!LinkTimes] \cup {Links!Gone}]
      BY <2>1, <2>2
    <3>3. origin' \in [Creds -> issued \cup {Links!NoCred}] /\ \A d \in Creds : devices'[d] # Links!Gone => origin'[d] # Links!NoCred
      BY <2>1, <2>2
    <3>4. QED
      BY <2>2, <2>3, <2>4, <3>1, <3>2, <3>3
  <2>7. Links!StoredForItsApp'
    BY <2>2, <2>3, <2>4, <2>5
  <2>8. Links!TokenInv'
    BY <2>1, <2>2, <2>3, <2>4
  <2>9. Links!GrantInv'
    BY <2>1, <2>2
  <2>10. OneEach'
    BY <2>1, <2>2
  <2>11. QED
    BY <2>6, <2>7, <2>8, <2>9, <2>10
<1>7. ASSUME NEW b \in Browsers, NEW a \in Apps, Links!Handshake(b, a) PROVE Inv'
  <2>1. CASE Links!HandshakeBegins(b, a) \/ Links!HandshakeServed(b, a)
    BY <1>7, <2>1 DEF Links!HandshakeBegins, Links!HandshakeServed
  <2>2. CASE Links!HandshakeRefused(b, a)
    <3>1. /\ holds' \in [Browsers -> [Apps -> Creds \cup {Links!NoCred}]]
          /\ \A q \in Browsers, x \in Apps :
               holds'[q][x] = holds[q][x] \/ (q = b /\ x = a /\ holds'[q][x] = Links!NoCred)
      <4>1. holds' = [holds EXCEPT ![b][a] = Links!NoCred] \/ holds' = holds
        BY <2>2 DEF Links!HandshakeRefused
      <4>2. CASE holds' = holds
        BY <4>2
      <4>3. CASE holds' = [holds EXCEPT ![b][a] = Links!NoCred]
        BY <4>3
      <4>4. QED
        BY <4>1, <4>2, <4>3
    <3>2. Links!TypeOK'
      BY <2>2, <3>1 DEF Links!HandshakeRefused
    <3>3. Links!StoredForItsApp' /\ Links!TokenInv'
      BY <2>2, <3>1 DEF Links!HandshakeRefused
    <3>4. QED
      BY <2>2, <3>2, <3>3 DEF Links!HandshakeRefused
  <2>3. QED
    BY <1>7, <2>1, <2>2 DEF Links!Handshake
<1>8. CASE Links!Tick
  BY <1>8 DEF Links!Tick
<1>9. CASE UNCHANGED Links!vars
  BY <1>9 DEF Links!vars
<1>10. QED
  BY <1>1, <1>2, <1>3, <1>4, <1>5, <1>6, <1>7, <1>8, <1>9 DEF Links!Next, Links!Host

-----------------------------------------------------------------------------
(* Theorems *)

\* Every reachable state is well typed.
THEOREM TypeCorrect == Links!Spec => []Links!TypeOK
<1>1. Inv => Links!TypeOK
  BY DEF Inv
<1>2. QED
  BY InvInit, InvStep, <1>1, PTL DEF Links!Spec

\* An invite gives one device one credential, which its browser keeps for the
\* app of the invite.
THEOREM RedeemSafety == Links!Spec => []RedeemedOnce
<1>1. Inv => RedeemedOnce
  BY DEF Inv, RedeemedOnce, Links!RedeemedOnce, OneEach
<1>2. QED
  BY InvInit, InvStep, <1>1, PTL DEF Links!Spec

\* A grant ends with its link, unless the app was published again, and a
\* revoked one never comes back.
THEOREM GrantSafety == Links!Spec => []GrantLivesAsLink
<1>1. Inv => GrantLivesAsLink
  BY GoneFacts DEF Inv, GrantLivesAsLink, Links!GrantLivesAsLink, Links!GrantInv, Links!TypeOK,
                   Links!Resolved
<1>2. QED
  BY InvInit, InvStep, <1>1, PTL DEF Links!Spec

-----------------------------------------------------------------------------
(* KnowledgeBoard *)

\* The actions of KnowledgeBoard, as a preservation proof splits them.
LEMMA BoardCases ==
  ASSUME NEW P, [Board!Next]_Board!vars,
         \A s \in Session : Board!CreateSession(s) => P,
         \A c \in Conn, s \in Session : Board!Connect(c, s) => P,
         \A c \in Conn : Board!Accepted(c) => P,
         \A c \in Conn : Board!Welcomed(c) => P,
         \A c \in Conn : Board!Toggle(c) => P,
         \A c \in Conn : Board!Reads(c) => P,
         \A c \in Conn : Board!Leaves(c) => P,
         \A c \in Conn : Board!Disconnected(c) => P,
         \A c \in Conn : Board!Ends(c) => P,
         \A t \in Board!Tasks : Board!PushGoesOn(t) => P,
         Board!ReaperWakes => P,
         \A s \in Session : Board!ReaperCloses(s) => P,
         Board!ReaperRemoves => P,
         Board!ReaperSwept => P,
         Board!ReaperSleeps => P,
         UNCHANGED Board!vars => P
  PROVE  P
BY DEF Board!Next, Board!Handler

\* What one call of a push does.
LEMMA CallFacts ==
  ASSUME Board!TypeOK, NEW t \in Board!Tasks, NEW S \in SUBSET Session, NEW s \in S, NEW n, NEW board,
         Board!Calls(t, S, s, n, board)
  PROVE  /\ todo' \in [Board!Tasks -> SUBSET Session] /\ todo'[t] = S \ {s}
         /\ \A u \in Board!Tasks \ {t} : todo'[u] = todo[u]
         /\ DOMAIN shown' = Conn
         /\ \A c \in Conn : shown'[c] = shown[c] \/ shown'[c].board = board
         /\ controller[s] \in open => shown'[controller[s]].board = board
<1>1. todo' = [todo EXCEPT ![t] = S \ {s}] /\ todo \in [Board!Tasks -> SUBSET Session]
  BY DEF Board!Calls, Board!TypeOK
<1>2. /\ todo' \in [Board!Tasks -> SUBSET Session] /\ todo'[t] = S \ {s}
      /\ \A u \in Board!Tasks \ {t} : todo'[u] = todo[u]
  BY <1>1
<1>3. /\ shown' = IF controller[s] \in open
                  THEN [shown EXCEPT ![controller[s]] = [board |-> board, peers |-> n]] ELSE shown
      /\ DOMAIN shown = Conn /\ open \subseteq Conn
  BY DEF Board!Calls, Board!TypeOK
<1>4. CASE controller[s] \in open
  <2> DEFINE d == controller[s]
  <2>1. d \in Conn /\ shown' = [shown EXCEPT ![d] = [board |-> board, peers |-> n]]
    BY <1>3, <1>4
  <2> HIDE DEF d
  <2>2. /\ DOMAIN shown' = Conn /\ shown'[d] = [board |-> board, peers |-> n]
        /\ \A c \in Conn \ {d} : shown'[c] = shown[c]
    BY <1>3, <2>1
  <2> QED BY <1>2, <2>2 DEF d
<1>5. CASE controller[s] \notin open
  BY <1>2, <1>3, <1>5
<1> QED BY <1>4, <1>5

\* What a push does up to its first await, and a later call of it: the sessions
\* it is for are shown the board, or will be called.
LEMMA PushFacts ==
  ASSUME Board!TypeOK, NEW t \in Board!Tasks, NEW S \in SUBSET Session, NEW board, Board!PushState(t, S, board)
  PROVE  /\ todo' \in [Board!Tasks -> SUBSET Session] /\ (todo'[t] # {} => S # {} \/ todo[t] # {})
         /\ \A u \in Board!Tasks \ {t} : todo'[u] = todo[u]
         /\ DOMAIN shown' = Conn
         /\ \A c \in Conn : shown'[c] = shown[c] \/ shown'[c].board = board
         /\ \A s \in S : s \in todo'[t] \/ (controller[s] \in open => shown'[controller[s]].board = board)
<1>1. CASE S = {}
  <2>1. UNCHANGED <<todo, shown>>
    BY <1>1 DEF Board!PushState, Board!pushes
  <2> QED BY <1>1, <2>1 DEF Board!TypeOK
<1>2. CASE S # {}
  <2> DEFINE n == Board!Cardinality(S)
  <2>1. PICK s \in S : Board!Calls(t, S, s, n, board)
    BY <1>2 DEF Board!PushState
  <2> HIDE DEF n
  <2>2. /\ todo' \in [Board!Tasks -> SUBSET Session] /\ todo'[t] = S \ {s}
        /\ \A u \in Board!Tasks \ {t} : todo'[u] = todo[u]
        /\ DOMAIN shown' = Conn
        /\ \A c \in Conn : shown'[c] = shown[c] \/ shown'[c].board = board
        /\ controller[s] \in open => shown'[controller[s]].board = board
    BY <2>1, CallFacts, SMTT(30)
  <2> QED BY <1>2, <2>2
<1> QED BY <1>1, <1>2

LEMMA LaterCallFacts ==
  ASSUME Board!TypeOK, NEW t \in Board!Tasks, Board!PushGoesOn(t)
  PROVE  /\ todo' \in [Board!Tasks -> SUBSET Session] /\ todo[t] # {}
         /\ \A u \in Board!Tasks \ {t} : todo'[u] = todo[u]
         /\ DOMAIN shown' = Conn
         /\ \A c \in Conn : shown'[c] = shown[c] \/ shown'[c].board = toggles
         /\ \A s \in todo[t] : s \in todo'[t] \/ (controller[s] \in open => shown'[controller[s]].board = toggles)
<1> DEFINE S == todo[t]
           n == peers[t]
           current == toggles
<1>1. PICK s \in S : Board!Calls(t, S, s, n, current)
  BY DEF Board!PushGoesOn
<1>2. S \in SUBSET Session
  BY DEF Board!TypeOK
<1> HIDE DEF S, n, current
<1>3. /\ todo' \in [Board!Tasks -> SUBSET Session] /\ todo'[t] = S \ {s}
      /\ \A u \in Board!Tasks \ {t} : todo'[u] = todo[u]
      /\ DOMAIN shown' = Conn
      /\ \A c \in Conn : shown'[c] = shown[c] \/ shown'[c].board = current
      /\ controller[s] \in open => shown'[controller[s]].board = current
  BY <1>1, <1>2, CallFacts
<1> QED BY <1>3 DEF S, current

\* Connections are tasks, and the reaper is not a connection.
LEMMA TaskFacts == Conn \subseteq Board!Tasks /\ Reaper \in Board!Tasks /\ Reaper \notin Conn /\ None \notin Session \cup Conn
BY BoardAssumption DEF Board!ConstantsAssumption, Board!Tasks

\* Every step keeps the types.
LEMMA BoardTypeStep == Board!TypeOK /\ Board!PlacesKnown /\ [Board!Next]_Board!vars => Board!TypeOK'
<1> SUFFICES ASSUME Board!TypeOK, Board!PlacesKnown, [Board!Next]_Board!vars PROVE Board!TypeOK'
  OBVIOUS
<1>k. Board!LiveSessions \in SUBSET Session
  BY DEF Board!LiveSessions, Board!TypeOK
<1> USE TaskFacts DEF Board!sessions, Board!pushes, Board!reaper, Board!Goes
<1>1. ASSUME NEW s \in Session, Board!CreateSession(s) PROVE Board!TypeOK'
  BY <1>1 DEF Board!CreateSession, Board!TypeOK
<1>2. ASSUME NEW c \in Conn, NEW s \in Session, Board!Connect(c, s) PROVE Board!TypeOK'
  BY <1>2 DEF Board!Connect, Board!TypeOK
<1>3. ASSUME NEW c \in Conn, Board!Accepted(c) PROVE Board!TypeOK'
  BY <1>3 DEF Board!Accepted, Board!TypeOK
<1>4. ASSUME NEW c \in Conn, Board!Welcomed(c) PROVE Board!TypeOK'
  <2>1. todo' \in [Board!Tasks -> SUBSET Session] /\ DOMAIN shown' = Conn
    BY <1>4, <1>k, PushFacts DEF Board!Welcomed
  <2> QED BY <1>4, <2>1 DEF Board!Welcomed, Board!TypeOK
<1>5. ASSUME NEW c \in Conn, Board!Toggle(c) PROVE Board!TypeOK'
  <2>1. todo' \in [Board!Tasks -> SUBSET Session] /\ DOMAIN shown' = Conn
    BY <1>5, <1>k, PushFacts DEF Board!Toggle
  <2>2. toggles' \in Nat
    BY <1>5 DEF Board!Toggle, Board!TypeOK
  <2>3. /\ handler' = [handler EXCEPT ![c] = "pushing"]
        /\ UNCHANGED <<created, registered, websocket, controller, home, open, sweep, reaped>>
    BY <1>5 DEF Board!Toggle
  <2> QED BY <2>1, <2>2, <2>3 DEF Board!TypeOK
<1>6. ASSUME NEW c \in Conn, Board!Reads(c) PROVE Board!TypeOK'
  BY <1>6 DEF Board!Reads, Board!TypeOK
<1>7. ASSUME NEW c \in Conn, Board!Leaves(c) PROVE Board!TypeOK'
  BY <1>7 DEF Board!Leaves, Board!TypeOK
<1>8. ASSUME NEW c \in Conn, Board!Disconnected(c) PROVE Board!TypeOK'
  <2>1. todo' \in [Board!Tasks -> SUBSET Session] /\ DOMAIN shown' = Conn
    <3>1. Board!LiveSessions \ {home[c]} \in SUBSET Session
      BY <1>k
    <3> QED BY <1>8, <3>1, PushFacts DEF Board!Disconnected
  <2> QED BY <1>8, <2>1 DEF Board!Disconnected, Board!TypeOK
<1>9. ASSUME NEW c \in Conn, Board!Ends(c) PROVE Board!TypeOK'
  BY <1>9 DEF Board!Ends, Board!TypeOK
<1>10. ASSUME NEW t \in Board!Tasks, Board!PushGoesOn(t) PROVE Board!TypeOK'
  <2>1. todo' \in [Board!Tasks -> SUBSET Session] /\ DOMAIN shown' = Conn
    BY <1>10, LaterCallFacts
  <2> QED BY <1>10, <2>1 DEF Board!PushGoesOn, Board!TypeOK
<1>11. ASSUME Board!ReaperWakes PROVE Board!TypeOK'
  BY <1>11 DEF Board!ReaperWakes, Board!TypeOK
<1>12. ASSUME NEW s \in Session, Board!ReaperCloses(s) PROVE Board!TypeOK'
  BY <1>12 DEF Board!ReaperCloses, Board!TypeOK
<1>13. ASSUME Board!ReaperRemoves PROVE Board!TypeOK'
  BY <1>13 DEF Board!ReaperRemoves, Board!TypeOK
<1>14. ASSUME Board!ReaperSwept PROVE Board!TypeOK'
  <2>1. todo' \in [Board!Tasks -> SUBSET Session] /\ DOMAIN shown' = Conn
    <3>1. CASE pruned
      BY <1>14, <1>k, <3>1, PushFacts DEF Board!ReaperSwept
    <3>2. CASE ~pruned
      BY <1>14, <3>2 DEF Board!ReaperSwept, Board!TypeOK
    <3> QED BY <3>1, <3>2
  <2> QED BY <1>14, <2>1 DEF Board!ReaperSwept, Board!TypeOK
<1>15. ASSUME Board!ReaperSleeps PROVE Board!TypeOK'
  BY <1>15 DEF Board!ReaperSleeps, Board!TypeOK
<1>16. ASSUME UNCHANGED Board!vars PROVE Board!TypeOK'
  BY <1>16 DEF Board!vars, Board!TypeOK
<1> QED
  BY <1>1, <1>2, <1>3, <1>4, <1>5, <1>6, <1>7, <1>8, <1>9, <1>10, <1>11, <1>12, <1>13, <1>14, <1>15,
     <1>16, BoardCases

\* Every step keeps what is known of the places of connections and tasks.
LEMMA PlacesStep == Board!BoardInv /\ [Board!Next]_Board!vars => Board!PlacesKnown'
<1> SUFFICES ASSUME Board!BoardInv, [Board!Next]_Board!vars PROVE Board!PlacesKnown'
  OBVIOUS
<1>a. Board!TypeOK /\ Board!PlacesKnown
  BY DEF Board!BoardInv
<1>k. Board!LiveSessions \in SUBSET Session
  BY <1>a DEF Board!LiveSessions, Board!TypeOK
<1>p. ASSUME UNCHANGED <<home, created>>, registered' \subseteq registered, open' \subseteq open,
             NEW t \in Board!Tasks, NEW to \in {"welcoming", "pushing", "reading"},
             handler[t] \in {"accepting", "welcoming", "pushing", "reading", "sweeping"},
             handler' = [handler EXCEPT ![t] = to], todo'[t] # {} => to = "pushing",
             \A u \in Board!Tasks \ {t} : todo'[u] = todo[u]
      PROVE  Board!PlacesKnown'
  <2>1. handler'[t] = to /\ \A u \in Board!Tasks \ {t} : handler'[u] = handler[u]
    BY <1>a, <1>p DEF Board!TypeOK
  <2>2. \A c \in Conn : /\ handler'[c] = "idle" <=> home'[c] = None
                        /\ home'[c] # None => home'[c] \in created'
                        /\ c \in open' => handler'[c] \in {"accepting", "welcoming", "pushing", "reading"}
                        /\ handler'[c] \in {"leaving", "ended"} => home'[c] \notin registered'
    BY <1>a, <1>p, <2>1, TaskFacts DEF Board!PlacesKnown
  <2>3. \A u \in Board!Tasks : todo'[u] # {} => handler'[u] \in {"pushing", "leaving"}
    BY <1>a, <1>p, <2>1 DEF Board!PlacesKnown
  <2> QED BY <2>2, <2>3 DEF Board!PlacesKnown
<1>q. ASSUME UNCHANGED <<home, created, todo>>, registered' \subseteq registered, open' \subseteq open,
             \A c \in Conn : handler'[c] = handler[c], todo[Reaper] # {} => handler'[Reaper] = "pushing"
      PROVE  Board!PlacesKnown'
  <2>1. \A c \in Conn : /\ handler'[c] = "idle" <=> home'[c] = None
                        /\ home'[c] # None => home'[c] \in created'
                        /\ c \in open' => handler'[c] \in {"accepting", "welcoming", "pushing", "reading"}
                        /\ handler'[c] \in {"leaving", "ended"} => home'[c] \notin registered'
    BY <1>a, <1>q DEF Board!PlacesKnown
  <2>2. \A u \in Board!Tasks : todo'[u] # {} => handler'[u] \in {"pushing", "leaving"}
    BY <1>a, <1>q DEF Board!PlacesKnown, Board!Tasks
  <2> QED BY <2>1, <2>2 DEF Board!PlacesKnown
<1> USE TaskFacts DEF Board!sessions, Board!pushes, Board!reaper, Board!Goes
<1>1. ASSUME NEW s \in Session, Board!CreateSession(s) PROVE Board!PlacesKnown'
  BY <1>1, <1>a DEF Board!CreateSession, Board!PlacesKnown
<1>2. ASSUME NEW c \in Conn, NEW s \in Session, Board!Connect(c, s) PROVE Board!PlacesKnown'
  <2>1. /\ s \in created /\ s # None /\ handler' = [handler EXCEPT ![c] = "accepting"] /\ home' = [home EXCEPT ![c] = s]
        /\ handler[c] = "idle" /\ open' \subseteq open \cup {c} /\ UNCHANGED <<created, registered, todo>>
    BY <1>2, <1>a DEF Board!Connect, Board!TypeOK
  <2>2. /\ handler'[c] = "accepting" /\ home'[c] = s /\ \A u \in Board!Tasks \ {c} : handler'[u] = handler[u]
        /\ \A d \in Conn \ {c} : home'[d] = home[d]
    BY <1>a, <2>1 DEF Board!TypeOK
  <2>3. \A d \in Conn : /\ handler'[d] = "idle" <=> home'[d] = None
                        /\ home'[d] # None => home'[d] \in created'
                        /\ d \in open' => handler'[d] \in {"accepting", "welcoming", "pushing", "reading"}
                        /\ handler'[d] \in {"leaving", "ended"} => home'[d] \notin registered'
    BY <1>a, <2>1, <2>2 DEF Board!PlacesKnown
  <2>4. \A u \in Board!Tasks : todo'[u] # {} => handler'[u] \in {"pushing", "leaving"}
    BY <1>a, <2>1, <2>2 DEF Board!PlacesKnown
  <2> QED BY <2>3, <2>4 DEF Board!PlacesKnown
<1>3. ASSUME NEW c \in Conn, Board!Accepted(c) PROVE Board!PlacesKnown'
  <2>1. todo[c] = {}
    BY <1>3, <1>a DEF Board!Accepted, Board!PlacesKnown
  <2> QED BY <1>3, <1>p, <2>1 DEF Board!Accepted
<1>4. ASSUME NEW c \in Conn, Board!Welcomed(c) PROVE Board!PlacesKnown'
  <2>1. \A u \in Board!Tasks \ {c} : todo'[u] = todo[u]
    BY <1>4, <1>a, <1>k, PushFacts DEF Board!Welcomed
  <2> QED BY <1>4, <1>p, <2>1 DEF Board!Welcomed
<1>5. ASSUME NEW c \in Conn, Board!Toggle(c) PROVE Board!PlacesKnown'
  <2> DEFINE n == toggles + 1
  <2>1. Board!PushState(c, Board!LiveSessions, n)
    BY <1>5 DEF Board!Toggle
  <2> HIDE DEF n
  <2>2. \A u \in Board!Tasks \ {c} : todo'[u] = todo[u]
    BY <1>a, <1>k, <2>1, PushFacts
  <2> QED BY <1>5, <1>p, <2>2 DEF Board!Toggle
<1>6. ASSUME NEW c \in Conn, Board!Reads(c) PROVE Board!PlacesKnown'
  <2>1. todo[c] = {}
    BY <1>6 DEF Board!Reads, Board!Pushed
  <2> QED BY <1>6, <1>p, <2>1 DEF Board!Reads
<1>7. ASSUME NEW c \in Conn, Board!Leaves(c) PROVE Board!PlacesKnown'
  <2>1. open' \subseteq open /\ UNCHANGED <<handler, home, created, registered, todo>>
    BY <1>7 DEF Board!Leaves
  <2> QED BY <1>a, <2>1 DEF Board!PlacesKnown
<1>8. ASSUME NEW c \in Conn, Board!Disconnected(c) PROVE Board!PlacesKnown'
  <2>1. /\ handler[c] = "reading" /\ handler' = [handler EXCEPT ![c] = "leaving"] /\ registered' = registered \ {home[c]}
        /\ c \notin open /\ UNCHANGED <<home, created, open>>
    BY <1>8 DEF Board!Disconnected
  <2>2. \A u \in Board!Tasks \ {c} : todo'[u] = todo[u]
    <3>1. Board!LiveSessions \ {home[c]} \in SUBSET Session
      BY <1>k
    <3> QED BY <1>8, <1>a, <3>1, PushFacts DEF Board!Disconnected
  <2>3. handler'[c] = "leaving" /\ \A u \in Board!Tasks \ {c} : handler'[u] = handler[u]
    BY <1>a, <2>1 DEF Board!TypeOK
  <2>4. \A d \in Conn : /\ handler'[d] = "idle" <=> home'[d] = None
                        /\ home'[d] # None => home'[d] \in created'
                        /\ d \in open' => handler'[d] \in {"accepting", "welcoming", "pushing", "reading"}
                        /\ handler'[d] \in {"leaving", "ended"} => home'[d] \notin registered'
    BY <1>a, <2>1, <2>3 DEF Board!PlacesKnown
  <2>5. \A u \in Board!Tasks : todo'[u] # {} => handler'[u] \in {"pushing", "leaving"}
    BY <1>a, <2>2, <2>3 DEF Board!PlacesKnown
  <2> QED BY <2>4, <2>5 DEF Board!PlacesKnown
<1>9. ASSUME NEW c \in Conn, Board!Ends(c) PROVE Board!PlacesKnown'
  <2>1. /\ handler[c] = "leaving" /\ handler' = [handler EXCEPT ![c] = "ended"] /\ todo[c] = {}
        /\ UNCHANGED <<home, created, registered, open, todo>>
    BY <1>9 DEF Board!Ends, Board!Pushed
  <2>2. handler'[c] = "ended" /\ \A u \in Board!Tasks \ {c} : handler'[u] = handler[u]
    BY <1>a, <2>1 DEF Board!TypeOK
  <2>3. \A d \in Conn : /\ handler'[d] = "idle" <=> home'[d] = None
                        /\ home'[d] # None => home'[d] \in created'
                        /\ d \in open' => handler'[d] \in {"accepting", "welcoming", "pushing", "reading"}
                        /\ handler'[d] \in {"leaving", "ended"} => home'[d] \notin registered'
    BY <1>a, <2>1, <2>2 DEF Board!PlacesKnown
  <2>4. \A u \in Board!Tasks : todo'[u] # {} => handler'[u] \in {"pushing", "leaving"}
    BY <1>a, <2>1, <2>2 DEF Board!PlacesKnown
  <2> QED BY <2>3, <2>4 DEF Board!PlacesKnown
<1>10. ASSUME NEW t \in Board!Tasks, Board!PushGoesOn(t) PROVE Board!PlacesKnown'
  <2>1. todo[t] # {} /\ \A u \in Board!Tasks \ {t} : todo'[u] = todo[u]
    BY <1>10, <1>a, LaterCallFacts
  <2>2. UNCHANGED <<home, created, registered, open, handler>>
    BY <1>10 DEF Board!PushGoesOn
  <2> QED BY <1>a, <2>1, <2>2 DEF Board!PlacesKnown
<1>11. ASSUME Board!ReaperWakes PROVE Board!PlacesKnown'
  <2>1. todo[Reaper] = {}
    BY <1>11, <1>a DEF Board!ReaperWakes, Board!PlacesKnown
  <2> QED BY <1>11, <1>a, <1>q, <2>1 DEF Board!ReaperWakes, Board!TypeOK
<1>12. ASSUME NEW s \in Session, Board!ReaperCloses(s) PROVE Board!PlacesKnown'
  <2>1. todo[Reaper] = {}
    BY <1>12, <1>a DEF Board!ReaperCloses, Board!PlacesKnown
  <2> QED BY <1>12, <1>a, <1>q, <2>1 DEF Board!ReaperCloses, Board!TypeOK
<1>13. ASSUME Board!ReaperRemoves PROVE Board!PlacesKnown'
  <2>1. todo[Reaper] = {}
    BY <1>13, <1>a DEF Board!ReaperRemoves, Board!PlacesKnown
  <2> QED BY <1>13, <1>a, <1>q, <2>1 DEF Board!ReaperRemoves, Board!TypeOK
<1>14. ASSUME Board!ReaperSwept PROVE Board!PlacesKnown'
  <2>1. UNCHANGED <<home, created, registered, open>>
    BY <1>14 DEF Board!ReaperSwept
  <2>2. CASE pruned
    <3>1. \A u \in Board!Tasks \ {Reaper} : todo'[u] = todo[u]
      BY <1>14, <1>a, <1>k, <2>2, PushFacts DEF Board!ReaperSwept
    <3>2. handler[Reaper] = "sweeping" /\ handler' = [handler EXCEPT ![Reaper] = "pushing"]
      BY <1>14, <2>2 DEF Board!ReaperSwept
    <3> QED BY <1>p, <2>1, <3>1, <3>2
  <2>3. CASE ~pruned
    <3>1. handler[Reaper] = "sweeping" /\ handler' = [handler EXCEPT ![Reaper] = "idle"] /\ UNCHANGED todo
      BY <1>14, <2>3 DEF Board!ReaperSwept
    <3>2. todo[Reaper] = {} /\ \A c \in Conn : handler'[c] = handler[c]
      BY <1>a, <3>1 DEF Board!PlacesKnown, Board!TypeOK
    <3> QED BY <1>q, <2>1, <3>1, <3>2
  <2> QED BY <2>2, <2>3
<1>15. ASSUME Board!ReaperSleeps PROVE Board!PlacesKnown'
  <2>1. todo[Reaper] = {}
    BY <1>15 DEF Board!ReaperSleeps, Board!Pushed
  <2> QED BY <1>15, <1>a, <1>q, <2>1 DEF Board!ReaperSleeps, Board!TypeOK
<1>16. ASSUME UNCHANGED Board!vars PROVE Board!PlacesKnown'
  BY <1>16, <1>a DEF Board!vars, Board!PlacesKnown
<1> QED
  BY <1>1, <1>2, <1>3, <1>4, <1>5, <1>6, <1>7, <1>8, <1>9, <1>10, <1>11, <1>12, <1>13, <1>14, <1>15,
     <1>16, BoardCases

\* Session s, if nothing overlapped on it, has one connection at a time.
AloneAt(s) ==
  /\ \A c, d \in Conn : home[c] = s /\ home[d] = s /\ "ended" \notin {handler[c], handler[d]} => c = d
  /\ websocket[s] # None =>
       home[websocket[s]] = s /\ handler[websocket[s]] \in {"welcoming", "pushing", "reading"}
  /\ \A c \in open : home[c] = s =>
       /\ s \in registered
       /\ handler[c] # "accepting" => websocket[s] = c /\ controller[s] = c

\* Every step keeps it alone, as long as it counts as not overlapped.
LEMMA AloneStep == Board!BoardInv /\ [Board!Next]_Board!vars => Board!Alone'
<1> SUFFICES ASSUME Board!BoardInv, [Board!Next]_Board!vars, NEW s \in Session, s \notin overlapped' PROVE AloneAt(s)'
  BY DEF Board!Alone, AloneAt
<1>a. Board!TypeOK /\ Board!PlacesKnown /\ Board!ReapedIsClosed
  BY DEF Board!BoardInv
<1>o. ASSUME s \notin overlapped PROVE AloneAt(s)
  BY <1>o DEF Board!BoardInv, Board!Alone, AloneAt
<1>t. open \subseteq Conn /\ websocket[s] \in Conn \cup {None} /\ s # None
  BY <1>a, TaskFacts DEF Board!TypeOK
<1>b. ASSUME UNCHANGED <<home, websocket, controller, overlapped>>, registered \subseteq registered', open' \subseteq open,
             \A d \in Conn : handler'[d] = handler[d] \/ {handler[d], handler'[d]} \subseteq {"welcoming", "pushing", "reading"}
      PROVE  AloneAt(s)'
  <2>1. AloneAt(s)
    BY <1>b, <1>o
  <2>2. \A d \in Conn : handler'[d] = "ended" <=> handler[d] = "ended"
    BY <1>b
  <2>3. \A d \in Conn : handler'[d] = "accepting" <=> handler[d] = "accepting"
    BY <1>b
  <2>4. \A d \in Conn : handler[d] \in {"welcoming", "pushing", "reading"} => handler'[d] \in {"welcoming", "pushing", "reading"}
    BY <1>b
  <2> QED BY <1>b, <1>t, <2>1, <2>2, <2>3, <2>4 DEF AloneAt
<1>c. ASSUME NEW c \in Conn, NEW from \in {"welcoming", "pushing", "reading"}, NEW to \in {"welcoming", "pushing", "reading"},
             Board!Goes(c, from, to), UNCHANGED <<home, websocket, controller, overlapped, registered, open>>
      PROVE  AloneAt(s)'
  <2>1. \A d \in Conn : handler'[d] = handler[d] \/ {handler[d], handler'[d]} \subseteq {"welcoming", "pushing", "reading"}
    BY <1>a, <1>c, TaskFacts DEF Board!TypeOK, Board!Goes
  <2> QED BY <1>b, <1>c, <2>1
<1>d. ASSUME NEW from, NEW to, Board!Goes(Reaper, from, to), UNCHANGED <<home, websocket, controller, overlapped, registered>>,
             open' \subseteq open
      PROVE  AloneAt(s)'
  <2>1. \A d \in Conn : handler'[d] = handler[d]
    BY <1>a, <1>d, TaskFacts DEF Board!TypeOK, Board!Goes
  <2> QED BY <1>b, <1>d, <2>1
<1> USE TaskFacts DEF Board!sessions, Board!pushes, Board!reaper
<1>1. ASSUME NEW r \in Session, Board!CreateSession(r) PROVE AloneAt(s)'
  BY <1>1, <1>b DEF Board!CreateSession
<1>2. ASSUME NEW c \in Conn, NEW r \in Session, Board!Connect(c, r) PROVE AloneAt(s)'
  <2>1. /\ r \in registered /\ handler[c] = "idle" /\ home[c] = None /\ handler' = [handler EXCEPT ![c] = "accepting"]
        /\ home' = [home EXCEPT ![c] = r] /\ open' \subseteq open \cup {c}
        /\ UNCHANGED <<registered, websocket, controller>>
    BY <1>2, <1>a DEF Board!Connect, Board!Goes, Board!PlacesKnown
  <2>2. /\ handler'[c] = "accepting" /\ home'[c] = r
        /\ \A d \in Conn \ {c} : handler'[d] = handler[d] /\ home'[d] = home[d]
    BY <1>a, <2>1 DEF Board!TypeOK
  <2>3. /\ overlapped \subseteq overlapped'
        /\ r = s => websocket[s] = None /\ \A d \in Conn \ {c} : home[d] = s => handler[d] = "ended"
    BY <1>2 DEF Board!Connect
  <2>4. AloneAt(s)
    BY <1>o, <2>3
  <2>5. \A d, e \in Conn : home'[d] = s /\ home'[e] = s /\ "ended" \notin {handler'[d], handler'[e]} => d = e
    <3>1. CASE r = s
      BY <2>2, <2>3, <3>1
    <3>2. CASE r # s
      BY <2>2, <2>4, <3>2 DEF AloneAt
    <3> QED BY <3>1, <3>2
  <2>6. websocket'[s] # None =>
          home'[websocket'[s]] = s /\ handler'[websocket'[s]] \in {"welcoming", "pushing", "reading"}
    BY <1>t, <2>1, <2>2, <2>4 DEF AloneAt
  <2>7. \A d \in open' : home'[d] = s =>
          /\ s \in registered'
          /\ handler'[d] # "accepting" => websocket'[s] = d /\ controller'[s] = d
    BY <1>t, <2>1, <2>2, <2>4 DEF AloneAt
  <2> QED BY <2>5, <2>6, <2>7 DEF AloneAt
<1>3. ASSUME NEW c \in Conn, Board!Accepted(c) PROVE AloneAt(s)'
  <2>1. /\ handler[c] = "accepting" /\ handler' = [handler EXCEPT ![c] = "welcoming"]
        /\ websocket' = [websocket EXCEPT ![home[c]] = c] /\ controller' = [controller EXCEPT ![home[c]] = c]
        /\ UNCHANGED <<home, registered, open, overlapped>>
    BY <1>3 DEF Board!Accepted, Board!Goes
  <2>2. handler'[c] = "welcoming" /\ \A d \in Conn \ {c} : handler'[d] = handler[d]
    BY <1>a, <2>1 DEF Board!TypeOK
  <2>3. AloneAt(s)
    BY <1>o, <2>1
  <2>4. CASE home[c] = s
    <3>1. websocket'[s] = c /\ controller'[s] = c
      BY <1>a, <2>1, <2>4 DEF Board!TypeOK
    <3>2. \A d \in open : home[d] = s => d = c
      <4>1. \A d \in open : handler[d] # "ended"
        BY <1>a, <1>t DEF Board!PlacesKnown
      <4> QED BY <1>t, <2>1, <2>3, <2>4, <4>1 DEF AloneAt
    <3> QED BY <1>t, <2>1, <2>2, <2>3, <2>4, <3>1, <3>2 DEF AloneAt
  <2>5. CASE home[c] # s
    <3>1. websocket'[s] = websocket[s] /\ controller'[s] = controller[s]
      BY <1>a, <2>1, <2>5 DEF Board!TypeOK
    <3> QED BY <1>t, <2>1, <2>2, <2>3, <2>5, <3>1 DEF AloneAt
  <2> QED BY <2>4, <2>5
<1>4. ASSUME NEW c \in Conn, Board!Welcomed(c) PROVE AloneAt(s)'
  BY <1>4, <1>c DEF Board!Welcomed
<1>5. ASSUME NEW c \in Conn, Board!Toggle(c) PROVE AloneAt(s)'
  BY <1>5, <1>c DEF Board!Toggle
<1>6. ASSUME NEW c \in Conn, Board!Reads(c) PROVE AloneAt(s)'
  BY <1>6, <1>c DEF Board!Reads
<1>7. ASSUME NEW c \in Conn, Board!Leaves(c) PROVE AloneAt(s)'
  BY <1>7, <1>b DEF Board!Leaves
<1>8. ASSUME NEW c \in Conn, Board!Disconnected(c) PROVE AloneAt(s)'
  <2>1. /\ handler[c] = "reading" /\ handler' = [handler EXCEPT ![c] = "leaving"] /\ c \notin open
        /\ websocket' = [websocket EXCEPT ![home[c]] = None] /\ registered' = registered \ {home[c]}
        /\ UNCHANGED <<home, controller, open, overlapped>>
    BY <1>8 DEF Board!Disconnected, Board!Goes
  <2>2. handler'[c] = "leaving" /\ \A d \in Conn \ {c} : handler'[d] = handler[d]
    BY <1>a, <2>1 DEF Board!TypeOK
  <2>3. AloneAt(s)
    BY <1>o, <2>1
  <2>4. CASE home[c] = s
    <3>1. websocket'[s] = None
      BY <1>a, <2>1, <2>4 DEF Board!TypeOK
    <3>2. \A d \in open : home[d] # s
      <4>1. \A d \in open : handler[d] # "ended"
        BY <1>a, <1>t DEF Board!PlacesKnown
      <4> QED BY <1>t, <2>1, <2>3, <2>4, <4>1 DEF AloneAt
    <3> QED BY <1>t, <2>1, <2>2, <2>3, <2>4, <3>1, <3>2 DEF AloneAt
  <2>5. CASE home[c] # s
    <3>1. websocket'[s] = websocket[s] /\ (s \in registered => s \in registered')
      BY <1>a, <2>1, <2>5 DEF Board!TypeOK
    <3> QED BY <1>t, <2>1, <2>2, <2>3, <2>5, <3>1 DEF AloneAt
  <2> QED BY <2>4, <2>5
<1>9. ASSUME NEW c \in Conn, Board!Ends(c) PROVE AloneAt(s)'
  <2>1. /\ handler[c] = "leaving" /\ handler' = [handler EXCEPT ![c] = "ended"]
        /\ websocket' = [websocket EXCEPT ![home[c]] = None]
        /\ UNCHANGED <<home, controller, registered, open, overlapped>>
    BY <1>9 DEF Board!Ends, Board!Goes
  <2>2. handler'[c] = "ended" /\ \A d \in Conn \ {c} : handler'[d] = handler[d]
    BY <1>a, <2>1 DEF Board!TypeOK
  <2>3. AloneAt(s) /\ c \notin open
    BY <1>a, <1>o, <2>1 DEF Board!PlacesKnown
  <2>4. CASE home[c] = s
    <3>1. websocket'[s] = None
      BY <1>a, <2>1, <2>4 DEF Board!TypeOK
    <3>2. \A d \in open : home[d] # s
      <4>1. \A d \in open : handler[d] # "ended"
        BY <1>a, <1>t DEF Board!PlacesKnown
      <4> QED BY <1>t, <2>1, <2>3, <2>4, <4>1 DEF AloneAt
    <3> QED BY <1>t, <2>1, <2>2, <2>3, <2>4, <3>1, <3>2 DEF AloneAt
  <2>5. CASE home[c] # s
    <3>1. websocket'[s] = websocket[s]
      BY <1>a, <2>1, <2>5 DEF Board!TypeOK
    <3> QED BY <1>t, <2>1, <2>2, <2>3, <2>5, <3>1 DEF AloneAt
  <2> QED BY <2>4, <2>5
<1>10. ASSUME NEW t \in Board!Tasks, Board!PushGoesOn(t) PROVE AloneAt(s)'
  BY <1>10, <1>b DEF Board!PushGoesOn
<1>11. ASSUME Board!ReaperWakes PROVE AloneAt(s)'
  BY <1>11, <1>d DEF Board!ReaperWakes
<1>12. ASSUME NEW r \in Session, Board!ReaperCloses(r) PROVE AloneAt(s)'
  <2>1. open' \subseteq open /\ Board!Goes(Reaper, "sweeping", "closing") /\ UNCHANGED <<home, websocket, controller, overlapped, registered>>
    BY <1>12 DEF Board!ReaperCloses
  <2> QED BY <1>d, <2>1
<1>13. ASSUME Board!ReaperRemoves PROVE AloneAt(s)'
  <2>1. /\ websocket' = [websocket EXCEPT ![reaped] = None] /\ registered' = registered \ {reaped}
        /\ UNCHANGED <<home, controller, open, overlapped>>
    BY <1>13 DEF Board!ReaperRemoves
  <2>2. \A d \in Conn : handler'[d] = handler[d]
    BY <1>13, <1>a DEF Board!ReaperRemoves, Board!Goes, Board!TypeOK
  <2>3. AloneAt(s)
    BY <1>o, <2>1
  <2>4. CASE reaped = s
    <3>1. websocket'[s] = None
      BY <1>a, <2>1, <2>4 DEF Board!TypeOK
    <3>2. \A d \in open : home[d] # s
      BY <1>a, <2>1, <2>4 DEF Board!ReapedIsClosed
    <3> QED BY <1>t, <2>1, <2>2, <2>3, <3>1, <3>2 DEF AloneAt
  <2>5. CASE reaped # s
    <3>1. websocket'[s] = websocket[s] /\ (s \in registered => s \in registered')
      BY <1>a, <2>1, <2>5 DEF Board!TypeOK
    <3> QED BY <1>t, <2>1, <2>2, <2>3, <3>1 DEF AloneAt
  <2> QED BY <2>4, <2>5
<1>14. ASSUME Board!ReaperSwept PROVE AloneAt(s)'
  BY <1>14, <1>d DEF Board!ReaperSwept
<1>15. ASSUME Board!ReaperSleeps PROVE AloneAt(s)'
  BY <1>15, <1>d DEF Board!ReaperSleeps
<1>16. ASSUME UNCHANGED Board!vars PROVE AloneAt(s)'
  BY <1>16, <1>b DEF Board!vars
<1> QED
  BY <1>1, <1>2, <1>3, <1>4, <1>5, <1>6, <1>7, <1>8, <1>9, <1>10, <1>11, <1>12, <1>13, <1>14, <1>15,
     <1>16, BoardCases

\* Every step keeps what the reaper is pruning without an open connection.
LEMMA ReapedStep == Board!BoardInv /\ [Board!Next]_Board!vars => Board!ReapedIsClosed'
<1> SUFFICES ASSUME Board!BoardInv, [Board!Next]_Board!vars, reaped' \in Session \ overlapped'
             PROVE  /\ \A c \in open' : home'[c] # reaped'
                    /\ reaped' \in registered' => websocket'[reaped'] # None
  BY DEF Board!ReapedIsClosed
<1> DEFINE Goal == /\ \A c \in open' : home'[c] # reaped'
                   /\ reaped' \in registered' => websocket'[reaped'] # None
<1>a. Board!TypeOK /\ Board!PlacesKnown /\ Board!Alone
  BY DEF Board!BoardInv
<1>o. ASSUME reaped' = reaped, reaped \notin overlapped
      PROVE  /\ reaped \in Session /\ reaped \in created /\ reaped # None
             /\ \A c \in open : home[c] # reaped
             /\ reaped \in registered => websocket[reaped] # None
  BY <1>a, <1>o, TaskFacts DEF Board!BoardInv, Board!ReapedIsClosed, Board!TypeOK
<1>b. ASSUME UNCHANGED <<home, websocket, overlapped, registered, reaped>>, open' \subseteq open
      PROVE  Goal
  BY <1>b, <1>o
<1> USE TaskFacts DEF Board!sessions, Board!pushes, Board!reaper
<1>1. ASSUME NEW s \in Session, Board!CreateSession(s) PROVE Goal
  BY <1>1, <1>o DEF Board!CreateSession
<1>2. ASSUME NEW c \in Conn, NEW s \in Session, Board!Connect(c, s) PROVE Goal
  <2>1. /\ s \in registered /\ home' = [home EXCEPT ![c] = s] /\ open' \subseteq open \cup {c}
        /\ UNCHANGED <<registered, websocket, reaped>>
        /\ overlapped \subseteq overlapped' /\ (s \notin overlapped' => websocket[s] = None)
    BY <1>2 DEF Board!Connect
  <2>2. home'[c] = s /\ \A d \in Conn \ {c} : home'[d] = home[d]
    BY <1>a, <2>1 DEF Board!TypeOK
  <2>3. reaped # s
    BY <1>o, <2>1
  <2> QED BY <1>a, <1>o, <2>1, <2>2, <2>3 DEF Board!TypeOK
<1>3. ASSUME NEW c \in Conn, Board!Accepted(c) PROVE Goal
  <2>1. websocket' = [websocket EXCEPT ![home[c]] = c] /\ UNCHANGED <<home, registered, open, reaped, overlapped>>
    BY <1>3 DEF Board!Accepted
  <2>2. websocket[reaped] # None => websocket'[reaped] # None
    BY <1>a, <1>o, <2>1 DEF Board!TypeOK
  <2> QED BY <1>o, <2>1, <2>2
<1>4. ASSUME NEW c \in Conn, Board!Welcomed(c) PROVE Goal
  BY <1>4, <1>b DEF Board!Welcomed
<1>5. ASSUME NEW c \in Conn, Board!Toggle(c) PROVE Goal
  BY <1>5, <1>b DEF Board!Toggle
<1>6. ASSUME NEW c \in Conn, Board!Reads(c) PROVE Goal
  BY <1>6, <1>b DEF Board!Reads
<1>7. ASSUME NEW c \in Conn, Board!Leaves(c) PROVE Goal
  BY <1>7, <1>b DEF Board!Leaves
<1>8. ASSUME NEW c \in Conn, Board!Disconnected(c) PROVE Goal
  <2>1. /\ websocket' = [websocket EXCEPT ![home[c]] = None] /\ registered' = registered \ {home[c]}
        /\ UNCHANGED <<home, open, reaped, overlapped>>
    BY <1>8 DEF Board!Disconnected
  <2>2. reaped \in registered' => websocket'[reaped] # None
    BY <1>a, <1>o, <2>1 DEF Board!TypeOK
  <2> QED BY <1>o, <2>1, <2>2
<1>9. ASSUME NEW c \in Conn, Board!Ends(c) PROVE Goal
  <2>1. /\ websocket' = [websocket EXCEPT ![home[c]] = None] /\ home[c] \notin registered
        /\ UNCHANGED <<home, registered, open, reaped, overlapped>>
    BY <1>9, <1>a DEF Board!Ends, Board!Goes, Board!PlacesKnown
  <2>2. reaped \in registered => websocket'[reaped] # None
    BY <1>a, <1>o, <2>1 DEF Board!TypeOK
  <2> QED BY <1>o, <2>1, <2>2
<1>10. ASSUME NEW t \in Board!Tasks, Board!PushGoesOn(t) PROVE Goal
  BY <1>10, <1>b DEF Board!PushGoesOn
<1>11. ASSUME Board!ReaperWakes PROVE Goal
  BY <1>11, <1>b DEF Board!ReaperWakes
<1>12. ASSUME NEW s \in Session, Board!ReaperCloses(s) PROVE Goal
  <2>1. /\ websocket[s] # None /\ reaped' = s /\ open' = open \ {websocket[s]}
        /\ UNCHANGED <<home, registered, websocket, overlapped>>
    BY <1>12 DEF Board!ReaperCloses
  <2>2. AloneAt(s)
    BY <1>a, <2>1 DEF Board!Alone, AloneAt
  <2>3. \A c \in open : home[c] = s => c = websocket[s]
    <3>1. \A c \in open : c \in Conn /\ handler[c] # "ended"
      BY <1>a DEF Board!PlacesKnown, Board!TypeOK
    <3>2. websocket[s] \in Conn
      BY <1>a, <2>1 DEF Board!TypeOK
    <3> QED BY <2>1, <2>2, <3>1, <3>2 DEF AloneAt
  <2> QED BY <2>1, <2>3
<1>13. ASSUME Board!ReaperRemoves PROVE Goal
  BY <1>13 DEF Board!ReaperRemoves
<1>14. ASSUME Board!ReaperSwept PROVE Goal
  BY <1>14, <1>b DEF Board!ReaperSwept
<1>15. ASSUME Board!ReaperSleeps PROVE Goal
  BY <1>15, <1>b DEF Board!ReaperSleeps
<1>16. ASSUME UNCHANGED Board!vars PROVE Goal
  BY <1>16, <1>b DEF Board!vars
<1> HIDE DEF Goal
<1>17. Goal
  BY <1>1, <1>2, <1>3, <1>4, <1>5, <1>6, <1>7, <1>8, <1>9, <1>10, <1>11, <1>12, <1>13, <1>14, <1>15,
     <1>16, BoardCases
<1> QED BY <1>17 DEF Goal

\* The board of connection c is current, or will be.
CurrentAt(c) == c \in Board!Boards => shown[c].board = toggles \/ \E t \in Board!Tasks : home[c] \in todo[t]

\* A connection that was accepted, and alone with its session, is live.
LEMMA LiveWhenAlone ==
  ASSUME Board!BoardInv, NEW c \in open, home[c] \notin overlapped, handler[c] # "accepting"
  PROVE  /\ c \in Conn /\ home[c] \in Session /\ home[c] \in registered
         /\ websocket[home[c]] = c /\ controller[home[c]] = c /\ home[c] \in Board!LiveSessions
<1>1. Board!TypeOK /\ Board!PlacesKnown /\ Board!Alone
  BY DEF Board!BoardInv
<1>2. c \in Conn
  BY <1>1 DEF Board!TypeOK
<1>3. handler[c] # "idle"
  BY <1>1, <1>2 DEF Board!PlacesKnown
<1>4. home[c] \in Session
  BY <1>1, <1>2, <1>3 DEF Board!PlacesKnown, Board!TypeOK
<1>5. home[c] \in registered /\ websocket[home[c]] = c /\ controller[home[c]] = c
  BY <1>1, <1>4 DEF Board!Alone
<1> QED BY <1>2, <1>4, <1>5, TaskFacts DEF Board!LiveSessions

\* No step leaves a board behind: who changes it pushes to all that are live,
\* and every push shows the board of now.
LEMMA CurrentStep == Board!BoardInv /\ [Board!Next]_Board!vars => \A c \in Conn : CurrentAt(c)'
<1> SUFFICES ASSUME Board!BoardInv, [Board!Next]_Board!vars, NEW c \in Conn, c \in Board!Boards'
             PROVE  shown'[c].board = toggles' \/ \E t \in Board!Tasks : home'[c] \in todo'[t]
  BY DEF CurrentAt
<1> DEFINE Goal == shown'[c].board = toggles' \/ \E t \in Board!Tasks : home'[c] \in todo'[t]
<1>a. Board!TypeOK /\ Board!PlacesKnown
  BY DEF Board!BoardInv
<1>k. Board!LiveSessions \in SUBSET Session
  BY <1>a DEF Board!LiveSessions, Board!TypeOK
<1>c. c \in Board!Boards => shown[c].board = toggles \/ \E t \in Board!Tasks : home[c] \in todo[t]
  BY DEF Board!BoardInv, Board!BoardIsCurrent
<1>d. c \in open' /\ handler'[c] \in {"pushing", "reading"} /\ home'[c] \notin overlapped'
  BY DEF Board!Boards
<1>b. ASSUME UNCHANGED <<home, toggles, todo, shown, overlapped>>, open' \subseteq open,
             handler[c] \in {"pushing", "reading"}
      PROVE  Goal
  <2>1. c \in Board!Boards
    BY <1>b, <1>d DEF Board!Boards
  <2> QED BY <1>b, <1>c, <2>1
<1>p. ASSUME NEW t \in Board!Tasks, NEW S \in SUBSET Session, NEW board, Board!PushState(t, S, board), board = toggles',
             UNCHANGED <<home, overlapped, open>>, todo[t] = {},
             \/ toggles' = toggles /\ handler[c] \in {"pushing", "reading"}
             \/ home[c] \in S /\ handler[c] # "accepting"
      PROVE  Goal
  <2>1. /\ \A u \in Board!Tasks \ {t} : todo'[u] = todo[u]
        /\ shown'[c] = shown[c] \/ shown'[c].board = board
        /\ \A s \in S : s \in todo'[t] \/ (controller[s] \in open => shown'[controller[s]].board = board)
    BY <1>a, <1>p, PushFacts
  <2>2. CASE toggles' = toggles /\ handler[c] \in {"pushing", "reading"}
    <3>1. c \in Board!Boards
      BY <1>d, <1>p, <2>2 DEF Board!Boards
    <3> QED BY <1>c, <1>p, <2>1, <2>2, <3>1
  <2>3. CASE home[c] \in S /\ handler[c] # "accepting"
    <3>1. controller[home[c]] = c /\ c \in open
      BY <1>d, <1>p, <2>3, LiveWhenAlone
    <3> QED BY <1>p, <2>1, <2>3, <3>1
  <2> QED BY <1>p, <2>2, <2>3
<1> USE TaskFacts DEF Board!sessions, Board!pushes, Board!reaper
<1>1. ASSUME NEW s \in Session, Board!CreateSession(s) PROVE Goal
  BY <1>1, <1>b, <1>d DEF Board!CreateSession
<1>2. ASSUME NEW d \in Conn, NEW s \in Session, Board!Connect(d, s) PROVE Goal
  <2>1. /\ handler' = [handler EXCEPT ![d] = "accepting"] /\ home' = [home EXCEPT ![d] = s] /\ open' \subseteq open \cup {d}
        /\ overlapped \subseteq overlapped' /\ UNCHANGED <<toggles, todo, shown>>
    BY <1>2 DEF Board!Connect, Board!Goes
  <2>2. c # d
    BY <1>a, <1>d, <2>1 DEF Board!TypeOK
  <2>3. handler'[c] = handler[c] /\ home'[c] = home[c]
    BY <1>a, <2>1, <2>2 DEF Board!TypeOK
  <2>4. c \in Board!Boards
    BY <1>d, <2>1, <2>2, <2>3 DEF Board!Boards
  <2> QED BY <1>c, <2>1, <2>3, <2>4
<1>3. ASSUME NEW d \in Conn, Board!Accepted(d) PROVE Goal
  <2>1. handler[c] \in {"pushing", "reading"}
    BY <1>3, <1>a, <1>d DEF Board!Accepted, Board!Goes, Board!TypeOK
  <2> QED BY <1>3, <1>b, <2>1 DEF Board!Accepted
<1>4. ASSUME NEW d \in Conn, Board!Welcomed(d) PROVE Goal
  <2>1. /\ handler[d] = "welcoming" /\ handler' = [handler EXCEPT ![d] = "pushing"] /\ Board!PushState(d, Board!LiveSessions, toggles)
        /\ UNCHANGED <<toggles, home, open, overlapped>>
    BY <1>4 DEF Board!Welcomed, Board!Goes
  <2>2. todo[d] = {}
    BY <1>a, <2>1 DEF Board!PlacesKnown
  <2>3. CASE c = d
    <3>1. home[c] \in Board!LiveSessions
      BY <1>d, <2>1, <2>3, LiveWhenAlone
    <3> QED BY <1>k, <1>p, <2>1, <2>2, <2>3, <3>1
  <2>4. CASE c # d
    <3>1. handler[c] \in {"pushing", "reading"}
      BY <1>a, <1>d, <2>1, <2>4 DEF Board!TypeOK
    <3> QED BY <1>k, <1>p, <2>1, <2>2, <3>1
  <2> QED BY <2>3, <2>4
<1>5. ASSUME NEW d \in Conn, Board!Toggle(d) PROVE Goal
  <2> DEFINE n == toggles + 1
  <2>1. /\ handler[d] = "reading" /\ handler' = [handler EXCEPT ![d] = "pushing"] /\ Board!PushState(d, Board!LiveSessions, n)
        /\ toggles' = n /\ UNCHANGED <<home, open, overlapped>>
    BY <1>5 DEF Board!Toggle, Board!Goes
  <2> HIDE DEF n
  <2>2. todo[d] = {}
    BY <1>a, <2>1 DEF Board!PlacesKnown
  <2>3. handler[c] \in {"pushing", "reading"}
    BY <1>a, <1>d, <2>1 DEF Board!TypeOK
  <2>4. home[c] \in Board!LiveSessions
    BY <1>d, <2>1, <2>3, LiveWhenAlone
  <2> QED BY <1>k, <1>p, <2>1, <2>2, <2>3, <2>4
<1>6. ASSUME NEW d \in Conn, Board!Reads(d) PROVE Goal
  <2>1. handler[c] \in {"pushing", "reading"}
    BY <1>6, <1>a, <1>d DEF Board!Reads, Board!Goes, Board!TypeOK
  <2> QED BY <1>6, <1>b, <2>1 DEF Board!Reads
<1>7. ASSUME NEW d \in Conn, Board!Leaves(d) PROVE Goal
  BY <1>7, <1>b, <1>d DEF Board!Leaves
<1>8. ASSUME NEW d \in Conn, Board!Disconnected(d) PROVE Goal
  <2> DEFINE S == Board!LiveSessions \ {home[d]}
  <2>1. /\ handler[d] = "reading" /\ handler' = [handler EXCEPT ![d] = "leaving"] /\ Board!PushState(d, S, toggles)
        /\ UNCHANGED <<toggles, home, open, overlapped>>
    BY <1>8 DEF Board!Disconnected, Board!Goes
  <2>2. S \in SUBSET Session
    BY <1>k
  <2> HIDE DEF S
  <2>3. todo[d] = {}
    BY <1>a, <2>1 DEF Board!PlacesKnown
  <2>4. handler[c] \in {"pushing", "reading"}
    BY <1>a, <1>d, <2>1 DEF Board!TypeOK
  <2> QED BY <1>p, <2>1, <2>2, <2>3, <2>4
<1>9. ASSUME NEW d \in Conn, Board!Ends(d) PROVE Goal
  <2>1. handler[c] \in {"pushing", "reading"}
    BY <1>9, <1>a, <1>d DEF Board!Ends, Board!Goes, Board!TypeOK
  <2> QED BY <1>9, <1>b, <2>1 DEF Board!Ends
<1>10. ASSUME NEW t \in Board!Tasks, Board!PushGoesOn(t) PROVE Goal
  <2>1. UNCHANGED <<toggles, home, handler, open, overlapped>>
    BY <1>10 DEF Board!PushGoesOn
  <2>2. /\ \A u \in Board!Tasks \ {t} : todo'[u] = todo[u]
        /\ shown'[c] = shown[c] \/ shown'[c].board = toggles
        /\ \A s \in todo[t] : s \in todo'[t] \/ (controller[s] \in open => shown'[controller[s]].board = toggles)
    BY <1>10, <1>a, LaterCallFacts
  <2>3. c \in Board!Boards
    BY <1>d, <2>1 DEF Board!Boards
  <2>4. CASE home[c] \in todo[t]
    <3>1. controller[home[c]] = c /\ c \in open
      BY <1>d, <2>1, LiveWhenAlone
    <3> QED BY <2>1, <2>2, <2>4, <3>1
  <2>5. CASE home[c] \notin todo[t]
    BY <1>c, <2>1, <2>2, <2>3, <2>5
  <2> QED BY <2>4, <2>5
<1>11. ASSUME Board!ReaperWakes PROVE Goal
  BY <1>11, <1>a, <1>b, <1>d DEF Board!ReaperWakes, Board!Goes, Board!TypeOK
<1>12. ASSUME NEW s \in Session, Board!ReaperCloses(s) PROVE Goal
  BY <1>12, <1>a, <1>b, <1>d DEF Board!ReaperCloses, Board!Goes, Board!TypeOK
<1>13. ASSUME Board!ReaperRemoves PROVE Goal
  BY <1>13, <1>a, <1>b, <1>d DEF Board!ReaperRemoves, Board!Goes, Board!TypeOK
<1>14. ASSUME Board!ReaperSwept PROVE Goal
  <2>1. /\ handler[Reaper] = "sweeping" /\ UNCHANGED <<toggles, home, open, overlapped>>
        /\ pruned => Board!PushState(Reaper, Board!LiveSessions, toggles)
        /\ ~pruned => UNCHANGED <<todo, shown>>
    BY <1>14 DEF Board!ReaperSwept, Board!Goes
  <2>2. handler[c] \in {"pushing", "reading"}
    BY <1>14, <1>a, <1>d DEF Board!ReaperSwept, Board!Goes, Board!TypeOK
  <2>3. todo[Reaper] = {}
    BY <1>a, <2>1 DEF Board!PlacesKnown
  <2>4. CASE pruned
    BY <1>k, <1>p, <2>1, <2>2, <2>3, <2>4
  <2>5. CASE ~pruned
    BY <1>b, <2>1, <2>2, <2>5
  <2> QED BY <2>4, <2>5
<1>15. ASSUME Board!ReaperSleeps PROVE Goal
  BY <1>15, <1>a, <1>b, <1>d DEF Board!ReaperSleeps, Board!Goes, Board!TypeOK
<1>16. ASSUME UNCHANGED Board!vars PROVE Goal
  BY <1>16, <1>b, <1>d DEF Board!vars
<1> HIDE DEF Goal
<1>17. Goal
  BY <1>1, <1>2, <1>3, <1>4, <1>5, <1>6, <1>7, <1>8, <1>9, <1>10, <1>11, <1>12, <1>13, <1>14, <1>15,
     <1>16, BoardCases
<1> QED BY <1>17 DEF Goal

\* At first nobody is connected.
LEMMA BoardInit == Board!Init => Board!BoardInv
<1> SUFFICES ASSUME Board!Init PROVE Board!BoardInv
  OBVIOUS
<1>1. Board!TypeOK
  BY TaskFacts DEF Board!Init, Board!TypeOK
<1>2. Board!PlacesKnown
  BY TaskFacts DEF Board!Init, Board!PlacesKnown
<1>3. Board!Alone
  BY TaskFacts DEF Board!Init, Board!Alone
<1>4. Board!ReapedIsClosed
  BY TaskFacts DEF Board!Init, Board!ReapedIsClosed
<1>5. Board!BoardIsCurrent
  BY DEF Board!Init, Board!BoardIsCurrent, Board!Boards
<1> QED BY <1>1, <1>2, <1>3, <1>4, <1>5 DEF Board!BoardInv

\* Every step keeps the invariant of the boards.
LEMMA BoardStep == Board!BoardInv /\ [Board!Next]_Board!vars => Board!BoardInv'
<1> SUFFICES ASSUME Board!BoardInv, [Board!Next]_Board!vars PROVE Board!BoardInv'
  OBVIOUS
<1>1. Board!TypeOK' /\ Board!PlacesKnown' /\ Board!Alone' /\ Board!ReapedIsClosed'
  BY BoardTypeStep, PlacesStep, AloneStep, ReapedStep DEF Board!BoardInv
<1>2. Board!BoardIsCurrent'
  <2> SUFFICES ASSUME NEW c \in Board!Boards'
               PROVE  /\ home'[c] \in registered' /\ websocket'[home'[c]] = c
                      /\ shown'[c].board = toggles' \/ \E t \in Board!Tasks : home'[c] \in todo'[t]
    BY DEF Board!BoardIsCurrent
  <2>1. c \in open' /\ c \in Conn /\ handler'[c] \in {"pushing", "reading"} /\ home'[c] \notin overlapped'
    BY <1>1 DEF Board!Boards, Board!TypeOK
  <2>2. home'[c] \in Session
    BY <1>1, <2>1 DEF Board!PlacesKnown, Board!TypeOK
  <2>3. home'[c] \in registered' /\ websocket'[home'[c]] = c
    BY <1>1, <2>1, <2>2 DEF Board!Alone
  <2>4. shown'[c].board = toggles' \/ \E t \in Board!Tasks : home'[c] \in todo'[t]
    BY <2>1, CurrentStep DEF CurrentAt
  <2> QED BY <2>3, <2>4
<1> QED BY <1>1, <1>2 DEF Board!BoardInv

\* An open board whose session had no overlap is registered and connected, and
\* current or about to be called (BoardIsCurrent).
THEOREM BoardSafety == Board!Spec => []BoardIsCurrent
<1>1. Board!BoardInv => BoardIsCurrent
  BY DEF Board!BoardInv, BoardIsCurrent
<1> QED BY <1>1, BoardInit, BoardStep, PTL DEF Board!Spec
=============================================================================
