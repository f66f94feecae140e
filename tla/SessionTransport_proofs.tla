----------------------- MODULE SessionTransport_proofs -----------------------
(***************************************************************************)
(* Theorems about SessionTransport, for any sets of sessions, entries,     *)
(* connections and targets and any time limits.                            *)
(***************************************************************************)
EXTENDS SessionTransport, TLAPS

\* The actions, by the variables a preservation proof splits on.
LEMMA NextCases ==
  ASSUME NEW P, [Next]_vars,
         \A s \in Sid, e \in Entry : CreateSession(s, e) => P,
         \A s \in Sid : Resolve(s) => P,
         \A s \in Sid : EndSession(s) => P,
         \A s \in Sid : EndCloses(s) => P,
         \A s \in Sid : EndRemoves(s) => P,
         \A S \in SUBSET contexts : Revoke(S) => P,
         CleanupContexts => P,
         CleanupExpired => P,
         \A e \in Entry : CloseZombie(e) => P,
         Tick => P,
         \A c \in Conn, s \in Sid : Reject(c, s) => P,
         \A c \in Conn, s \in Sid, t \in Target : Lookup(c, s, t) => P,
         \A c \in Conn : Superseded(c) \/ Connected(c) \/ ConnectFails(c) \/ Disconnect(c) => P,
         \A c \in Conn : Accept(c) => P,
         \A c \in Conn : Heartbeat(c) => P,
         \A c \in Conn : Finish(c) => P,
         \A c \in Conn : ClientCloses(c) \/ ClientVanishes(c) => P,
         UNCHANGED vars => P
  PROVE  P
  BY DEF Next, Manager, Handler, Client, Background

\* Types are preserved by every step (the ages stay one above their limits),
\* given that handlers and end_session calls hold entries that exist.
LEMMA TypeStep == TypeOK /\ [Next]_vars => TypeOK'
<1> SUFFICES ASSUME TypeOK, [Next]_vars PROVE TypeOK'
  OBVIOUS
<1> USE ConstantsAssumption
    DEF TypeOK, EntryHeld, AttachedAt, registry, clocks, handlers, tasks, history
<1>1. ASSUME NEW s \in Sid, NEW e \in Entry, CreateSession(s, e) PROVE TypeOK'
  BY <1>1 DEF CreateSession
<1>2. ASSUME NEW s \in Sid, Resolve(s) PROVE TypeOK'
  BY <1>2 DEF Resolve, Touch
<1>3. ASSUME NEW s \in Sid, EndSession(s) PROVE TypeOK'
  <2>1. CASE sessions[s] = None
    BY <1>3, <2>1 DEF EndSession
  <2>2. CASE sessions[s] # None
    <3>1. sessions[s] \in made /\ sessions[s] \in Entry
      BY <2>2
    <3>2. idle' \in [Entry -> 0 .. TTL + 1]
      <4>1. idle' = [idle EXCEPT ![sessions[s]] = 0]
        BY <1>3, <2>2 DEF EndSession, Touch
      <4>2. 0 \in 0 .. TTL + 1
        OBVIOUS
      <4> QED BY <4>1, <4>2
    <3>3. /\ ender' = [ender EXCEPT ![s] = "cleanup"]
          /\ endent' = [endent EXCEPT ![s] = sessions[s]]
          /\ UNCHANGED <<sessions, contexts, made, ws, hb, sweep, handlers, reaper, history>>
      BY <1>3, <2>2 DEF EndSession
    <3>4. EntryHeld'
      BY <3>1, <3>3
    <3> QED BY <3>1, <3>2, <3>3, <3>4
  <2> QED BY <2>1, <2>2
<1>4. ASSUME NEW s \in Sid, EndCloses(s) PROVE TypeOK'
  BY <1>4 DEF EndCloses, Closing
<1>5. ASSUME NEW s \in Sid, EndRemoves(s) PROVE TypeOK'
  BY <1>5 DEF EndRemoves
<1>6. ASSUME NEW S \in SUBSET contexts, Revoke(S) PROVE TypeOK'
  BY <1>6 DEF Revoke
<1>7. ASSUME CleanupContexts PROVE TypeOK'
  BY <1>7 DEF CleanupContexts
<1>8. ASSUME CleanupExpired PROVE TypeOK'
  BY <1>8 DEF CleanupExpired
<1>9. ASSUME NEW e \in Entry, CloseZombie(e) PROVE TypeOK'
  BY <1>9 DEF CloseZombie, Closing
<1>10. ASSUME Tick PROVE TypeOK'
  BY <1>10 DEF Tick, Older
<1>11. ASSUME NEW c \in Conn, NEW s \in Sid, Reject(c, s) PROVE TypeOK'
  <2>1. CASE sessions[s] = None
    BY <1>11, <2>1 DEF Reject
  <2>2. CASE sessions[s] # None
    BY <1>11, <2>2, SMTT(30) DEF Reject, Touch
  <2> QED BY <2>1, <2>2
<1>12. ASSUME NEW c \in Conn, NEW s \in Sid, NEW t \in Target, Lookup(c, s, t) PROVE TypeOK'
  BY <1>12 DEF Lookup, Touch, Closing
<1>13. ASSUME NEW c \in Conn, Superseded(c) \/ Connected(c) \/ ConnectFails(c) \/ Disconnect(c)
       PROVE TypeOK'
  BY <1>13, ZenonT(30) DEF Superseded, Connected, ConnectFails, Disconnect
<1>14. ASSUME NEW c \in Conn, Accept(c) PROVE TypeOK'
  <2>1. hent[c] \in Entry
    BY <1>14 DEF Accept
  <2> QED BY <1>14, <2>1 DEF Accept
<1>15. ASSUME NEW c \in Conn, Heartbeat(c) PROVE TypeOK'
  <2>1. hent[c] \in Entry
    BY <1>15 DEF Heartbeat
  <2> QED BY <1>15, <2>1 DEF Heartbeat
<1>16. ASSUME NEW c \in Conn, Finish(c) PROVE TypeOK'
  <2>1. hent[c] \in Entry
    BY <1>16 DEF Finish
  <2> QED BY <1>16, <2>1 DEF Finish
<1>17. ASSUME NEW c \in Conn, ClientCloses(c) \/ ClientVanishes(c) PROVE TypeOK'
  BY <1>17 DEF ClientCloses, ClientVanishes
<1>18. ASSUME UNCHANGED vars PROVE TypeOK'
  BY <1>18 DEF vars
<1> HIDE DEF TypeOK
<1> QED
  BY <1>1, <1>2, <1>3, <1>4, <1>5, <1>6, <1>7, <1>8, <1>9, <1>10, <1>11,
     <1>12, <1>13, <1>14, <1>15, <1>16, <1>17, <1>18, NextCases

\* Every reachable state is well typed, and everything that holds on to an
\* entry (registry, handlers, end_session calls) holds one that was created.
THEOREM TypeCorrect == Spec => []TypeOK
<1>1. Init => TypeOK
  BY ConstantsAssumption DEF Init, TypeOK, EntryHeld, AttachedAt
<1> QED BY <1>1, TypeStep, PTL DEF Spec

-----------------------------------------------------------------------------
(* References and connections *)

\* What the history variable overlap stands for.
OverlapSeen ==
  \A c, d \in Conn :
    c # d /\ Attached(c) /\ Attached(d) /\ hent[c] = hent[d] => hent[c] \in overlap

References == ReferenceHasHandler /\ OverlapSeen /\ SoleConnectionIsReferenced

LEMMA ReferencesStep == TypeOK /\ References /\ [Next]_vars => References'
<1> SUFFICES ASSUME TypeOK, References, [Next]_vars PROVE References'
  OBVIOUS
<1> USE ConstantsAssumption
    DEF TypeOK, EntryHeld, References, ReferenceHasHandler, OverlapSeen,
        SoleConnectionIsReferenced, Attached, AttachedAt, AttachedTo, Registered
\* Steps that leave the handlers' places, their entries and the references
\* alone, and register nothing that was not registered.
<1>0. ASSUME UNCHANGED <<ws, pc, hent, htgt, overlap>>,
             \A e \in Entry : Registered(e)' => Registered(e)
      PROVE References'
  BY <1>0, SMTT(30)
<1>1. ASSUME NEW s \in Sid, NEW e \in Entry, CreateSession(s, e) PROVE References'
  <2>1. \A c \in Conn : Attached(c) => hent[c] # e
    BY <1>1 DEF CreateSession
  <2>2. \A f \in Entry : f # e /\ Registered(f)' => Registered(f)
    BY <1>1 DEF CreateSession
  <2>3. UNCHANGED <<ws, pc, hent, htgt, overlap>>
    BY <1>1 DEF CreateSession, handlers, history
  <2>4. ReferenceHasHandler' /\ OverlapSeen'
    BY <2>3
  <2>5. SoleConnectionIsReferenced'
    <3> SUFFICES ASSUME NEW c \in Conn, Attached(c)', Registered(hent[c])', hent[c] \notin overlap
                 PROVE  ws[hent[c]][Root] = c /\ ws[hent[c]][htgt[c]] = c
      BY <2>3
    <3>1. Attached(c)
      BY <2>3
    <3>2. hent[c] \in Entry /\ hent[c] # e
      BY <2>1, <3>1
    <3>3. hent'[c] = hent[c]
      BY <2>3
    <3>4. PICK r \in Sid : sessions'[r] = hent[c]
      BY <3>3
    <3>5. Registered(hent[c])
      <4> HIDE DEF References, TypeOK
      <4> QED BY <2>2, <3>2, <3>4
    <3> QED BY <3>1, <3>5
  <2> QED BY <2>4, <2>5
<1>2. ASSUME NEW s \in Sid, Resolve(s) PROVE References'
  BY <1>0, <1>2 DEF Resolve, registry, handlers, history
<1>3. ASSUME NEW s \in Sid, EndSession(s) PROVE References'
  BY <1>0, <1>3 DEF EndSession, handlers, history
<1>4. ASSUME NEW s \in Sid, EndCloses(s) PROVE References'
  BY <1>0, <1>4 DEF EndCloses, registry, history
<1>5. ASSUME NEW s \in Sid, EndRemoves(s) PROVE References'
  BY <1>0, <1>5 DEF EndRemoves, handlers, history
<1>6. ASSUME NEW S \in SUBSET contexts, Revoke(S) PROVE References'
  BY <1>0, <1>6 DEF Revoke, handlers, history
<1>7. ASSUME CleanupContexts PROVE References'
  BY <1>0, <1>7 DEF CleanupContexts, handlers, history
\* A zombie leaves the registry in the step that clears its reference.
<1>8. ASSUME CleanupExpired PROVE References'
  <2> DEFINE Z == {sessions[s] : s \in {z \in Sid : ZombieExpired(z)}}
  <2>1. /\ UNCHANGED <<pc, hent, htgt, overlap>>
        /\ sessions' = [s \in Sid |-> IF Expired(s) THEN None ELSE sessions[s]]
        /\ ws' = [e \in Entry |-> IF e \in Z THEN [ws[e] EXCEPT ![Root] = None] ELSE ws[e]]
    BY <1>8 DEF CleanupExpired, handlers
  <2>2. \A e \in Entry, s \in Sid : e \in Z => sessions'[s] # e
    BY <2>1 DEF Expired, ZombieExpired
  <2>3. \A e \in Entry : Registered(e)' => Registered(e)
    BY <2>1
  <2>4. \A e \in Entry, t \in Target : ws'[e][t] # None => ws'[e][t] = ws[e][t]
    BY <2>1
  <2>5. ReferenceHasHandler' /\ OverlapSeen'
    BY <2>1, <2>4
  <2>6. ASSUME NEW c \in Conn, Attached(c), NEW s \in Sid, sessions'[s] = hent[c],
               hent[c] \notin overlap
        PROVE  ws'[hent[c]][Root] = c /\ ws'[hent[c]][htgt[c]] = c
    <3>1. hent[c] \in Entry
      BY <2>6
    <3>2. hent[c] \notin Z
      BY <2>2, <2>6, <3>1
    <3>3. ws'[hent[c]] = ws[hent[c]]
      BY <2>1, <3>1, <3>2
    <3>4. Registered(hent[c])
      BY <2>1, <2>6, <3>1
    <3> QED BY <2>6, <3>3, <3>4
  <2>7. SoleConnectionIsReferenced'
    <3> HIDE DEF Z
    <3> QED BY <2>1, <2>6
  <2> QED BY <2>5, <2>7
<1>9. ASSUME NEW e \in Entry, CloseZombie(e) PROVE References'
  BY <1>0, <1>9 DEF CloseZombie, registry, history
<1>10. ASSUME Tick PROVE References'
  BY <1>0, <1>10 DEF Tick, registry, handlers, history
<1>11. ASSUME NEW c \in Conn, NEW s \in Sid, Reject(c, s) PROVE References'
  BY <1>11 DEF Reject, registry, history
<1>12. ASSUME NEW c \in Conn, NEW s \in Sid, NEW t \in Target, Lookup(c, s, t) PROVE References'
  <2>1. /\ pc' = [pc EXCEPT ![c] = pc'[c]] /\ ~Attached(c) /\ ~Attached(c)'
        /\ hent' = [hent EXCEPT ![c] = sessions[s]]
        /\ htgt' = [htgt EXCEPT ![c] = t]
        /\ UNCHANGED <<sessions, ws, overlap>>
    BY <1>12 DEF Lookup, registry, history
  <2>2. \A d \in Conn : Attached(d)' => Attached(d) /\ d # c /\ hent'[d] = hent[d] /\ htgt'[d] = htgt[d]
    BY <2>1
  <2>3. \A d \in Conn : Attached(d) => Attached(d)' /\ d # c
    BY <2>1
  <2>4. ReferenceHasHandler'
    BY <2>1, <2>2, <2>3
  <2>5. OverlapSeen' /\ SoleConnectionIsReferenced'
    BY <2>1, <2>2
  <2> QED BY <2>4, <2>5
<1>13. ASSUME NEW c \in Conn, Superseded(c) \/ Connected(c) \/ ConnectFails(c) \/ Disconnect(c)
       PROVE References'
  <2>1. UNCHANGED <<sessions, ws, hent, htgt, overlap>>
    BY <1>13 DEF Superseded, Connected, ConnectFails, Disconnect, registry, history
  <2>2. \A d \in Conn : Attached(d)' <=> Attached(d)
    BY <1>13 DEF Superseded, Connected, ConnectFails, Disconnect
  <2> QED BY <2>1, <2>2
\* Accept names itself in both references, and records an overlap if another
\* handler is attached to the entry.
<1>14. ASSUME NEW c \in Conn, Accept(c) PROVE References'
  <2> DEFINE e == hent[c]
  <2>1. e \in Entry /\ c # None
    BY <1>14 DEF Accept
  <2>2. /\ pc' = [pc EXCEPT ![c] = "connecting"] /\ ~Attached(c)
        /\ ws' = [ws EXCEPT ![e] = [t \in Target |-> IF t \in {Root, htgt[c]} THEN c ELSE ws[e][t]]]
        /\ overlap' = IF AttachedTo(e) = {} THEN overlap ELSE overlap \cup {e}
        /\ UNCHANGED <<sessions, hent, htgt>>
    BY <1>14 DEF Accept, registry
  <2>3. Attached(c)' /\ \A d \in Conn : d # c => (Attached(d)' <=> Attached(d))
    BY <2>2
  <2>4. ReferenceHasHandler'
    BY <2>1, <2>2, <2>3
  <2>5. OverlapSeen'
    BY <2>1, <2>2, <2>3
  <2>6. SoleConnectionIsReferenced'
    BY <2>1, <2>2, <2>3
  <2> QED BY <2>4, <2>5, <2>6
<1>15. ASSUME NEW c \in Conn, Heartbeat(c) PROVE References'
  BY <1>0, <1>15 DEF Heartbeat, registry, handlers, history
\* Finish clears references that may name another handler: then the two
\* overlapped.
<1>16. ASSUME NEW c \in Conn, Finish(c) PROVE References'
  <2> DEFINE e == hent[c]
  <2>1. e \in Entry /\ Attached(c)
    BY <1>16 DEF Finish
  <2>2. /\ pc' = [pc EXCEPT ![c] = "done"]
        /\ ws' = [ws EXCEPT ![e] = [t \in Target |-> IF t \in {Root, htgt[c]} THEN None ELSE ws[e][t]]]
        /\ UNCHANGED <<sessions, hent, htgt, overlap>>
    BY <1>16 DEF Finish, registry, history
  <2>3. ~Attached(c)' /\ \A d \in Conn : d # c => (Attached(d)' <=> Attached(d))
    BY <2>2
  <2>4. ReferenceHasHandler'
    BY <2>1, <2>2, <2>3
  <2>5. OverlapSeen'
    BY <2>1, <2>2, <2>3
  <2>6. SoleConnectionIsReferenced'
    BY <2>1, <2>2, <2>3
  <2> QED BY <2>4, <2>5, <2>6
<1>17. ASSUME NEW c \in Conn, ClientCloses(c) \/ ClientVanishes(c) PROVE References'
  BY <1>0, <1>17 DEF ClientCloses, ClientVanishes, registry, history
<1>18. ASSUME UNCHANGED vars PROVE References'
  BY <1>0, <1>18 DEF vars, registry, handlers, history
<1> HIDE DEF References
<1> QED
  BY <1>1, <1>2, <1>3, <1>4, <1>5, <1>6, <1>7, <1>8, <1>9, <1>10, <1>11,
     <1>12, <1>13, <1>14, <1>15, <1>16, <1>17, <1>18, NextCases

LEMMA ReferencesAlways == Spec => [](TypeOK /\ References)
<1>1. Init => TypeOK /\ References
  BY ConstantsAssumption
  DEF Init, TypeOK, EntryHeld, AttachedAt, References, ReferenceHasHandler,
      OverlapSeen, SoleConnectionIsReferenced, Attached
<1> QED BY <1>1, TypeStep, ReferencesStep, PTL DEF Spec

\* A websocket reference always names a handler of that entry and target
\* that is between its accept and the end of its finally clause.
THEOREM ReferenceSafety == Spec => []ReferenceHasHandler
BY ReferencesAlways, PTL DEF References

\* A registered session whose handlers never overlapped refers to the one
\* that is attached, so that the reaper sees it.
THEOREM SoleConnectionSafety == Spec => []SoleConnectionIsReferenced
BY ReferencesAlways, PTL DEF References

\* The cleanup loop never removes the session of such a connection while its
\* heartbeat is recent.
THEOREM SweepSafety == Spec => SweepSparesLiveConnection
<1>1. ASSUME TypeOK, References, CleanupExpired,
             NEW c \in Conn, Attached(c), Registered(hent[c]),
             hent[c] \notin overlap, hb[hent[c]] <= HbTTL
      PROVE  \E s \in Sid : sessions'[s] = hent[c]
  <2>1. PICK s \in Sid : sessions[s] = hent[c]
    BY <1>1 DEF Registered
  <2>2. ws[hent[c]][Root] = c /\ c # None
    BY <1>1, ConstantsAssumption DEF References, SoleConnectionIsReferenced
  <2>3. hent[c] \in Entry
    BY <1>1 DEF TypeOK, EntryHeld, Attached
  <2>4. hb[hent[c]] \in Int
    BY <1>1, <2>3, ConstantsAssumption DEF TypeOK
  <2>5. ~Expired(s)
    BY <1>1, <2>1, <2>2, <2>4, ConstantsAssumption DEF Expired, IdleExpired, ZombieExpired
  <2> QED BY <1>1, <2>1, <2>5 DEF CleanupExpired
<1>2. TypeOK /\ References =>
        [CleanupExpired =>
           \A c \in Conn :
             /\ Attached(c) /\ Registered(hent[c])
             /\ hent[c] \notin overlap
             /\ hb[hent[c]] <= HbTTL
             => \E s \in Sid : sessions'[s] = hent[c]]_vars
  BY <1>1
<1> QED BY <1>2, ReferencesAlways, PTL DEF SweepSparesLiveConnection

\* No interleaving of creating, ending, revoking, expiring and context
\* cleanup leaves a registered session without its context.
THEOREM ContextSafety == Spec => []RegisteredHasContext
<1>1. Init => RegisteredHasContext
  BY DEF Init, RegisteredHasContext
<1>2. TypeOK /\ RegisteredHasContext /\ [Next]_vars => RegisteredHasContext'
  <2> SUFFICES ASSUME TypeOK, RegisteredHasContext, [Next]_vars PROVE RegisteredHasContext'
    OBVIOUS
  <2> USE DEF TypeOK, RegisteredHasContext
  <2>1. ASSUME UNCHANGED <<sessions, contexts>> PROVE RegisteredHasContext'
    BY <2>1
  <2>2. ASSUME NEW s \in Sid, NEW e \in Entry, CreateSession(s, e) PROVE RegisteredHasContext'
    BY <2>2 DEF CreateSession
  <2>3. ASSUME NEW s \in Sid, EndSession(s) PROVE RegisteredHasContext'
    BY <2>3 DEF EndSession
  <2>4. ASSUME NEW s \in Sid, EndRemoves(s) PROVE RegisteredHasContext'
    BY <2>4 DEF EndRemoves
  <2>5. ASSUME NEW S \in SUBSET contexts, Revoke(S) PROVE RegisteredHasContext'
    BY <2>5 DEF Revoke
  <2>6. ASSUME CleanupContexts PROVE RegisteredHasContext'
    BY <2>6 DEF CleanupContexts
  <2>7. ASSUME CleanupExpired PROVE RegisteredHasContext'
    BY <2>7 DEF CleanupExpired
  <2>8. ASSUME UNCHANGED registry PROVE RegisteredHasContext'
    BY <2>1, <2>8 DEF registry
  <2> HIDE DEF RegisteredHasContext
  <2> QED
    BY <2>2, <2>3, <2>4, <2>5, <2>6, <2>7, <2>8, NextCases
    DEF Resolve, EndCloses, CloseZombie, Tick, Reject, Lookup, Superseded, Connected,
        ConnectFails, Disconnect, Accept, Heartbeat, Finish, ClientCloses,
        ClientVanishes, vars
<1>3. Spec => []TypeOK
  BY ReferencesAlways, PTL
<1> QED BY <1>1, <1>2, <1>3, PTL DEF Spec
=============================================================================
