-------------------------- MODULE Services_proofs --------------------------
(***************************************************************************)
(* Theorems about SessionIdentity, SessionCommands, SecureSession and      *)
(* ReconnectTokens, for any sets of identities, sessions, connections,     *)
(* calls, pages, codes and keys and any bounds.  Those about the last      *)
(* three are theorems of ServicesSpec, in which each is explored alone.    *)
(***************************************************************************)
EXTENDS MCServices, SequenceTheorems, TLAPS

\* What is left of a queue when its first element is read: the others, one
\* place on.
LEMMA ReadFacts ==
  ASSUME NEW S, NEW q \in Seq(S), q # <<>>
  PROVE  /\ Head(q) \in S /\ Head(q) = q[1] /\ 1 \in DOMAIN q
         /\ Tail(q) \in Seq(S)
         /\ \A i \in DOMAIN Tail(q) : i + 1 \in DOMAIN q /\ Tail(q)[i] = q[i + 1]
<1>1. /\ Len(q) \in Nat /\ DOMAIN q = 1..Len(q) /\ Len(q) # 0
  BY LenProperties, EmptySeq
<1>2. /\ Head(q) \in S /\ Head(q) = q[1] /\ Tail(q) \in Seq(S) /\ Len(Tail(q)) = Len(q) - 1
      /\ \A i \in 1..Len(Tail(q)) : Tail(q)[i] = q[i + 1]
  BY <1>1, HeadTailProperties, ElementOfSeq, Z3
<1>3. DOMAIN Tail(q) = 1..Len(Tail(q))
  BY <1>2, LenProperties
<1> QED
  BY <1>1, <1>2, <1>3

-----------------------------------------------------------------------------
(* Session identity *)


\* The actions, as a preservation proof splits them.  Removal and expiry are
\* one case: a set of ids is dropped.
LEMMA NextCases ==
  ASSUME NEW P, [Next]_vars,
         \A e \in Entry, i \in Id \cup {None} : CreateSession(e, i) => P,
         \A S \in SUBSET Sid : Drop(S) /\ UNCHANGED <<pc, who, target, clash>> => P,
         \A e \in Entry : GrowIdle(e) => P,
         \A r \in Req, e \in Entry : ResolveBound(r, e) => P,
         \A r \in Req, e \in Entry : RegisterIdentity(r, e) => P,
         \A r \in Req, auth \in AuthIds, i \in IdentityIds : Resolve(r, auth, i) => P,
         \A r \in Req : Raise(r) => P,
         \A r \in Req : Ensure(r) => P,
         \A r \in Req : Attach(r) => P,
         \A r \in Req : StartTimer(r) => P,
         \A r \in Req : CancelTimer(r) => P,
         \A r \in Req : TimerEnds(r) => P,
         \A r \in Req : Finish(r) => P,
         UNCHANGED vars => P
  PROVE  P
BY DEF Next, Remove, CleanupExpired, Expired

\* Ids of sessions and of identities never meet.
LEMMA SidFacts ==
  /\ \A e \in Entry : SessionSid(e) \in Sid
  /\ \A i \in Id : IdentitySid(i) \in Sid
  /\ \A e, f \in Entry : SessionSid(e) = SessionSid(f) => e = f
  /\ \A i, j \in Id : IdentitySid(i) = IdentitySid(j) => i = j
  /\ \A e \in Entry, i \in Id : SessionSid(e) # IdentitySid(i)
  /\ \A s \in Sid : (\E e \in Entry : s = SessionSid(e)) \/ (\E i \in Id : s = IdentitySid(i))
BY DEF Sid, SessionSid, IdentitySid

\* What cookies prove is an id of the right kind, or nothing.
LEMMA CookieIds == AuthIds \subseteq Sid \cup Id \cup {None} /\ IdentityIds \subseteq Id \cup {None}
BY SidFacts DEF AuthIds, SignedIds, IdentityIds, Token, Verified

\* Types are preserved by every step.
LEMMA TypeStep == TypeOK /\ [Next]_vars => TypeOK'
<1> SUFFICES ASSUME TypeOK, [Next]_vars PROVE TypeOK'
  OBVIOUS
<1> USE IdentityAssumption, SidFacts DEF TypeOK, tables, owned, Runs
<1>1. ASSUME NEW e \in Entry, NEW i \in Id \cup {None}, CreateSession(e, i) PROVE TypeOK'
  BY <1>1 DEF CreateSession, Register
<1>2. ASSUME NEW S \in SUBSET Sid, Drop(S), UNCHANGED <<pc, who, target, clash>> PROVE TypeOK'
  BY <1>2 DEF Drop, CleanupRuntime
<1>3. ASSUME NEW e \in Entry, GrowIdle(e) PROVE TypeOK'
  BY <1>3 DEF GrowIdle
<1>4. ASSUME NEW r \in Req, NEW e \in Entry, ResolveBound(r, e) PROVE TypeOK'
  BY <1>4 DEF ResolveBound, Chosen, Go
<1>5. ASSUME NEW r \in Req, NEW e \in Entry, RegisterIdentity(r, e) PROVE TypeOK'
  BY <1>5 DEF RegisterIdentity, Register, Chosen, Go
<1>6. ASSUME NEW r \in Req, NEW auth \in AuthIds, NEW i \in IdentityIds, Resolve(r, auth, i) PROVE TypeOK'
  BY <1>6, CookieIds DEF Resolve, ByAuth, GetIdentitySession, Chosen, Go, Touched
<1>7. ASSUME NEW r \in Req, Raise(r) PROVE TypeOK'
  BY <1>7 DEF Raise, Go
<1>8. ASSUME NEW r \in Req, Ensure(r) PROVE TypeOK'
  BY <1>8 DEF Ensure, OptionalData, Go
<1>9. ASSUME NEW r \in Req, Attach(r) PROVE TypeOK'
  BY <1>9 DEF Attach, Go
<1>10. ASSUME NEW r \in Req, StartTimer(r) PROVE TypeOK'
  BY <1>10 DEF StartTimer, Cancelled, NewTask
<1>11. ASSUME NEW r \in Req, CancelTimer(r) PROVE TypeOK'
  BY <1>11 DEF CancelTimer, Cancelled
<1>12. ASSUME NEW r \in Req, TimerEnds(r) PROVE TypeOK'
  BY <1>12 DEF TimerEnds
<1>13. ASSUME NEW r \in Req, Finish(r) PROVE TypeOK'
  BY <1>13 DEF Finish, Go
<1>14. ASSUME UNCHANGED vars PROVE TypeOK'
  BY <1>14 DEF vars, tables
<1> QED
  BY <1>1, <1>2, <1>3, <1>4, <1>5, <1>6, <1>7, <1>8, <1>9, <1>10, <1>11, <1>12, <1>13, <1>14, NextCases

\* A registration: the new entry joins and the one of its id, if any, leaves.
LEMMA RegisterFacts ==
  ASSUME TypeOK, RegistryInv, NEW s \in Sid, NEW e \in Entry, NEW i \in Id \cup {None}, Register(s, e, i)
  PROVE  /\ e \notin Registered
         /\ Registered' = (Registered \ {sessions[s]}) \cup {e}
         /\ status' \in [Entry -> {"unused", "made", "displaced", "gone"}]
         /\ status'[e] = "made"
         /\ \A f \in Entry \ {e} : status'[f] = IF f = sessions[s] THEN "displaced" ELSE status[f]
         /\ owner'[e] = i /\ \A f \in Entry \ {e} : owner'[f] = owner[f]
         /\ sessions'[s] = e /\ \A t \in Sid \ {s} : sessions'[t] = sessions[t]
<1> USE IdentityAssumption DEF TypeOK, RegistryInv, Registered
<1>1. /\ status[e] = "unused" /\ sessions' = [sessions EXCEPT ![s] = e] /\ owner' = [owner EXCEPT ![e] = i]
      /\ status' = [f \in Entry |-> IF f = e THEN "made" ELSE IF f = sessions[s] THEN "displaced" ELSE status[f]]
  BY DEF Register
<1>2. e \notin Registered
  BY <1>1
<1>3. sessions'[s] = e /\ \A t \in Sid \ {s} : sessions'[t] = sessions[t]
  BY <1>1
<1>4. \A f \in Registered' : f \in (Registered \ {sessions[s]}) \cup {e}
  BY <1>3
<1>5. \A f \in (Registered \ {sessions[s]}) \cup {e} : f \in Registered'
  BY <1>3
<1> QED BY <1>1, <1>2, <1>3, <1>4, <1>5

\* A removal or an expiry: the entries of the ids leave.
LEMMA DropFacts ==
  ASSUME TypeOK, RegistryInv, NEW S \in SUBSET Sid, Drop(S)
  PROVE  LET E == {sessions[s] : s \in S} \ {None}
         IN /\ E \subseteq Registered
            /\ Registered' = Registered \ E
            /\ status' = [e \in Entry |-> IF e \in E THEN "gone" ELSE status[e]]
            /\ \A s \in Sid : sessions'[s] # None => sessions'[s] = sessions[s] /\ sessions[s] \notin E
            /\ owner' = owner
<1> USE IdentityAssumption DEF TypeOK, RegistryInv, Registered
<1> DEFINE E == {sessions[s] : s \in S} \ {None}
<1>1. /\ sessions' = [s \in Sid |-> IF s \in S THEN None ELSE sessions[s]]
      /\ status' = [e \in Entry |-> IF e \in E THEN "gone" ELSE status[e]]
      /\ owner' = owner
  BY DEF Drop, CleanupRuntime
<1>2. \A s \in Sid : sessions'[s] # None => sessions'[s] = sessions[s] /\ sessions[s] \notin E
  BY <1>1
<1>3. \A f \in Registered' : f \in Registered \ E
  BY <1>2
<1>4. \A f \in Registered \ E : f \in Registered'
  BY <1>1
<1> QED BY <1>1, <1>2, <1>3, <1>4

\* An entry is registered when it is made, under an id of its own, and leaves the
\* registry when it is displaced or gone.
LEMMA RegistryStep == TypeOK /\ RegistryInv /\ RequestInv /\ [Next]_vars => RegistryInv'
<1> SUFFICES ASSUME TypeOK, RegistryInv, RequestInv, [Next]_vars PROVE RegistryInv'
  OBVIOUS
<1>r. ASSUME NEW s \in Sid, NEW e \in Entry, NEW i \in Id \cup {None}, Register(s, e, i)
      PROVE  /\ e \notin Registered
             /\ \A f \in Entry : status'[f] = "made" <=> f \in Registered'
             /\ \A t, u \in Sid : sessions'[t] # None /\ sessions'[t] = sessions'[u] => t = u
             /\ owner'[e] = i /\ \A f \in Entry \ {e} : owner'[f] = owner[f]
             /\ sessions'[s] = e /\ \A t \in Sid \ {s} : sessions'[t] = sessions[t]
  <2>1. /\ e \notin Registered
        /\ Registered' = (Registered \ {sessions[s]}) \cup {e}
        /\ status'[e] = "made"
        /\ \A f \in Entry \ {e} : status'[f] = IF f = sessions[s] THEN "displaced" ELSE status[f]
        /\ owner'[e] = i /\ \A f \in Entry \ {e} : owner'[f] = owner[f]
        /\ sessions'[s] = e /\ \A t \in Sid \ {s} : sessions'[t] = sessions[t]
    BY <1>r, RegisterFacts
  <2>2. \A f \in Entry : status[f] = "made" <=> f \in Registered
    BY DEF RegistryInv
  <2>3. \A f \in Entry : status'[f] = "made" <=> f \in Registered'
    BY <2>1, <2>2
  <2>4. ASSUME NEW t \in Sid, NEW u \in Sid, sessions'[t] # None, sessions'[t] = sessions'[u] PROVE t = u
    <3>1. sessions[t] # e /\ sessions[u] # e
      BY <2>1, IdentityAssumption DEF Registered
    <3> QED BY <2>1, <2>4, <3>1 DEF RegistryInv
  <2> QED BY <2>1, <2>3, <2>4
<1>d. ASSUME NEW S \in SUBSET Sid, Drop(S)
      PROVE  /\ \A f \in Entry : status'[f] = "made" <=> f \in Registered'
             /\ \A s \in Sid : sessions'[s] # None => sessions'[s] = sessions[s]
             /\ owner' = owner
  BY <1>d, DropFacts DEF RegistryInv
<1> USE IdentityAssumption, SidFacts DEF TypeOK, RegistryInv, RequestInv, tables, Registered
<1>1. ASSUME NEW e \in Entry, NEW i \in Id \cup {None}, CreateSession(e, i) PROVE RegistryInv'
  <2>1. SessionSid(e) \in Sid /\ Register(SessionSid(e), e, i) /\ UNCHANGED <<who, target>>
    BY <1>1 DEF CreateSession
  <2>2. /\ sessions'[SessionSid(e)] = e
        /\ \A f \in Entry \ {e} : sessions'[SessionSid(f)] = sessions[SessionSid(f)]
        /\ \A j \in Id : sessions'[IdentitySid(j)] = sessions[IdentitySid(j)] /\ sessions[IdentitySid(j)] # e
    BY <1>r, <2>1
  <2>3. \A j \in Id : sessions'[IdentitySid(j)] # None =>
          owner'[sessions'[IdentitySid(j)]] = owner[sessions[IdentitySid(j)]]
    BY <1>r, <2>1, <2>2
  <2>4. \A j \in Id : sessions'[IdentitySid(j)] # None =>
          /\ owner'[sessions'[IdentitySid(j)]] = j
          /\ \E r \in Req : target'[r] = sessions'[IdentitySid(j)] /\ who'[r] = j
    BY <2>1, <2>2, <2>3
  <2>5. \A f \in Entry : sessions'[SessionSid(f)] \in {None, f}
    BY <2>2
  <2> HIDE DEF TypeOK, Registered
  <2> QED BY <1>r, <2>1, <2>4, <2>5
<1>2. ASSUME NEW S \in SUBSET Sid, Drop(S), UNCHANGED <<pc, who, target, clash>> PROVE RegistryInv'
  <2> HIDE DEF TypeOK, Registered
  <2> QED BY <1>2, <1>d
<1>3. ASSUME NEW e \in Entry, GrowIdle(e) PROVE RegistryInv'
  BY <1>3 DEF GrowIdle
<1>4. ASSUME NEW r \in Req, NEW e \in Entry, ResolveBound(r, e) PROVE RegistryInv'
  BY <1>4 DEF ResolveBound, Chosen, Go
<1>5. ASSUME NEW r \in Req, NEW e \in Entry, RegisterIdentity(r, e) PROVE RegistryInv'
  <2> DEFINE s == IdentitySid(who[r])
  <2>1. /\ s \in Sid /\ who[r] \in Id /\ Register(s, e, who[r]) /\ who' = who
        /\ target' = [target EXCEPT ![r] = e] /\ target[r] = None
    BY <1>5 DEF RegisterIdentity, Chosen
  <2>2. /\ \A f \in Entry : status'[f] = "made" <=> f \in Registered'
        /\ \A t, u \in Sid : sessions'[t] # None /\ sessions'[t] = sessions'[u] => t = u
        /\ \A f \in Entry : sessions'[SessionSid(f)] \in {None, f}
    <3>1. \A f \in Entry : sessions'[SessionSid(f)] = sessions[SessionSid(f)]
      BY <1>r, <2>1
    <3> HIDE DEF TypeOK, Registered
    <3> QED BY <1>r, <2>1, <3>1
  <2>3. ASSUME NEW i \in Id, sessions'[IdentitySid(i)] # None
        PROVE  /\ owner'[sessions'[IdentitySid(i)]] = i
               /\ \E q \in Req : target'[q] = sessions'[IdentitySid(i)] /\ who'[q] = i
    <3>1. CASE i = who[r]
      BY <1>r, <2>1, <3>1
    <3>2. CASE i # who[r]
      <4>1. sessions'[IdentitySid(i)] = sessions[IdentitySid(i)] /\ sessions[IdentitySid(i)] # e
        BY <1>r, <2>1, <2>3, <3>2
      <4>2. owner'[sessions'[IdentitySid(i)]] = i
        BY <1>r, <2>1, <2>3, <4>1
      <4> QED BY <2>1, <2>3, <4>1, <4>2
    <3> QED BY <3>1, <3>2
  <2> QED BY <2>2, <2>3
<1>6. ASSUME NEW r \in Req, NEW auth \in AuthIds, NEW i \in IdentityIds, Resolve(r, auth, i) PROVE RegistryInv'
  BY <1>6, CookieIds DEF Resolve, ByAuth, GetIdentitySession, Chosen, Go, Touched
<1>7. ASSUME NEW r \in Req, Raise(r) PROVE RegistryInv'
  BY <1>7 DEF Raise, Go
<1>8. ASSUME NEW r \in Req, Ensure(r) PROVE RegistryInv'
  BY <1>8 DEF Ensure, OptionalData, Go
<1>9. ASSUME NEW r \in Req, Attach(r) PROVE RegistryInv'
  BY <1>9 DEF Attach, Go
<1>10. ASSUME NEW r \in Req, StartTimer(r) PROVE RegistryInv'
  BY <1>10 DEF StartTimer, Cancelled, NewTask
<1>11. ASSUME NEW r \in Req, CancelTimer(r) PROVE RegistryInv'
  BY <1>11 DEF CancelTimer, Cancelled
<1>12. ASSUME NEW r \in Req, TimerEnds(r) PROVE RegistryInv'
  BY <1>12 DEF TimerEnds
<1>13. ASSUME NEW r \in Req, Finish(r) PROVE RegistryInv'
  BY <1>13 DEF Finish, Go
<1>14. ASSUME UNCHANGED vars PROVE RegistryInv'
  BY <1>14 DEF vars, tables
<1> QED
  BY <1>1, <1>2, <1>3, <1>4, <1>5, <1>6, <1>7, <1>8, <1>9, <1>10, <1>11, <1>12, <1>13, <1>14, NextCases

\* Requests only meet entries that were made.
LEMMA RequestStep == TypeOK /\ RegistryInv /\ RequestInv /\ OwnedInv /\ [Next]_vars => RequestInv'
<1> SUFFICES ASSUME TypeOK, RegistryInv, RequestInv, OwnedInv, [Next]_vars PROVE RequestInv'
  OBVIOUS
<1>r. ASSUME NEW s \in Sid, NEW e \in Entry, NEW i \in Id \cup {None}, Register(s, e, i)
      PROVE  status'[e] # "unused" /\ \A f \in Entry : status[f] # "unused" => status'[f] # "unused"
  <2>1. /\ status'[e] = "made"
        /\ \A f \in Entry \ {e} : status'[f] = IF f = sessions[s] THEN "displaced" ELSE status[f]
    BY <1>r, RegisterFacts
  <2> QED BY <2>1
<1> USE IdentityAssumption DEF TypeOK, RegistryInv, RequestInv, OwnedInv, tables, owned, Runs
<1>1. ASSUME NEW e \in Entry, NEW i \in Id \cup {None}, CreateSession(e, i) PROVE RequestInv'
  <2>1. SessionSid(e) \in Sid /\ Register(SessionSid(e), e, i) /\ UNCHANGED <<pc, who, target, data, task>>
    BY <1>1, SidFacts DEF CreateSession
  <2>2. \A f \in Entry : status[f] # "unused" => status'[f] # "unused"
    BY <1>r, <2>1
  <2> QED BY <2>1, <2>2
<1>2. ASSUME NEW S \in SUBSET Sid, Drop(S), UNCHANGED <<pc, who, target, clash>> PROVE RequestInv'
  BY <1>2 DEF Drop, CleanupRuntime
<1>3. ASSUME NEW e \in Entry, GrowIdle(e) PROVE RequestInv'
  BY <1>3 DEF GrowIdle
<1>4. ASSUME NEW r \in Req, NEW e \in Entry, ResolveBound(r, e) PROVE RequestInv'
  BY <1>4 DEF ResolveBound, Chosen, Go
<1>5. ASSUME NEW r \in Req, NEW e \in Entry, RegisterIdentity(r, e) PROVE RequestInv'
  <2>1. /\ IdentitySid(who[r]) \in Sid /\ Register(IdentitySid(who[r]), e, who[r])
        /\ target' = [target EXCEPT ![r] = e] /\ pc' = [pc EXCEPT ![r] = "resolved"] /\ pc[r] = "factory"
        /\ UNCHANGED <<who, data, task>>
    BY <1>5, SidFacts DEF RegisterIdentity, Chosen, Go
  <2>2. /\ status'[e] # "unused"
        /\ \A f \in Entry : status[f] # "unused" => status'[f] # "unused"
    BY <1>r, <2>1
  <2> QED BY <2>1, <2>2
<1>6. ASSUME NEW r \in Req, NEW auth \in AuthIds, NEW i \in IdentityIds, Resolve(r, auth, i) PROVE RequestInv'
  BY <1>6, CookieIds DEF Resolve, ByAuth, GetIdentitySession, Chosen, Go, Touched, Registered
<1>7. ASSUME NEW r \in Req, Raise(r) PROVE RequestInv'
  BY <1>7 DEF Raise, Go
<1>8. ASSUME NEW r \in Req, Ensure(r) PROVE RequestInv'
  BY <1>8 DEF Ensure, OptionalData, Go
<1>9. ASSUME NEW r \in Req, Attach(r) PROVE RequestInv'
  BY <1>9 DEF Attach, Go
<1>10. ASSUME NEW r \in Req, StartTimer(r) PROVE RequestInv'
  BY <1>10 DEF StartTimer, Cancelled, NewTask
<1>11. ASSUME NEW r \in Req, CancelTimer(r) PROVE RequestInv'
  BY <1>11 DEF CancelTimer, Cancelled
<1>12. ASSUME NEW r \in Req, TimerEnds(r) PROVE RequestInv'
  BY <1>12 DEF TimerEnds
<1>13. ASSUME NEW r \in Req, Finish(r) PROVE RequestInv'
  BY <1>13 DEF Finish, Go
<1>14. ASSUME UNCHANGED vars PROVE RequestInv'
  BY <1>14 DEF vars, tables
<1> QED
  BY <1>1, <1>2, <1>3, <1>4, <1>5, <1>6, <1>7, <1>8, <1>9, <1>10, <1>11, <1>12, <1>13, <1>14, NextCases

\* Data and tasks stay with the session they were made for.
LEMMA OwnedStep == TypeOK /\ RequestInv /\ OwnedInv /\ [Next]_vars => OwnedInv'
<1> SUFFICES ASSUME TypeOK, RequestInv, OwnedInv, [Next]_vars PROVE OwnedInv'
  OBVIOUS
<1> USE IdentityAssumption DEF TypeOK, RequestInv, OwnedInv, tables, owned
<1>1. ASSUME NEW e \in Entry, NEW i \in Id \cup {None}, CreateSession(e, i) PROVE OwnedInv'
  BY <1>1 DEF CreateSession, Register
<1>2. ASSUME NEW S \in SUBSET Sid, Drop(S), UNCHANGED <<pc, who, target, clash>> PROVE OwnedInv'
  <2> DEFINE E == {sessions[s] : s \in S} \ {None}
  <2>1. \A e \in Entry : attached'[e] # None => e \notin E /\ attached'[e] = attached[e] /\ data'[attached[e]] = data[attached[e]]
    BY <1>2 DEF Drop, CleanupRuntime
  <2>2. \A e \in Entry : timer'[e] # None => timer'[e] = timer[e]
    BY <1>2 DEF Drop, CleanupRuntime
  <2>3. \A r \in Req : pc'[r] = "creating" => target[r] \in Entry
    BY <1>2
  <2> QED
    BY <1>2, <2>1, <2>2, <2>3
<1>3. ASSUME NEW e \in Entry, GrowIdle(e) PROVE OwnedInv'
  BY <1>3 DEF GrowIdle
<1>4. ASSUME NEW r \in Req, NEW e \in Entry, ResolveBound(r, e) PROVE OwnedInv'
  BY <1>4 DEF ResolveBound, Chosen, Go
<1>5. ASSUME NEW r \in Req, NEW e \in Entry, RegisterIdentity(r, e) PROVE OwnedInv'
  BY <1>5 DEF RegisterIdentity, Register, Chosen, Go
<1>6. ASSUME NEW r \in Req, NEW auth \in AuthIds, NEW i \in IdentityIds, Resolve(r, auth, i) PROVE OwnedInv'
  BY <1>6, CookieIds DEF Resolve, ByAuth, GetIdentitySession, Chosen, Go, Touched
<1>7. ASSUME NEW r \in Req, Raise(r) PROVE OwnedInv'
  BY <1>7 DEF Raise, Go
<1>8. ASSUME NEW r \in Req, Ensure(r) PROVE OwnedInv'
  BY <1>8 DEF Ensure, OptionalData, Go
<1>9. ASSUME NEW r \in Req, Attach(r) PROVE OwnedInv'
  BY <1>9 DEF Attach, Go
<1>10. ASSUME NEW r \in Req, StartTimer(r) PROVE OwnedInv'
  BY <1>10 DEF StartTimer, Cancelled, NewTask
<1>11. ASSUME NEW r \in Req, CancelTimer(r) PROVE OwnedInv'
  BY <1>11 DEF CancelTimer, Cancelled
<1>12. ASSUME NEW r \in Req, TimerEnds(r) PROVE OwnedInv'
  BY <1>12 DEF TimerEnds
<1>13. ASSUME NEW r \in Req, Finish(r) PROVE OwnedInv'
  BY <1>13 DEF Finish, Go
<1>14. ASSUME UNCHANGED vars PROVE OwnedInv'
  BY <1>14 DEF vars, tables
<1> QED
  BY <1>1, <1>2, <1>3, <1>4, <1>5, <1>6, <1>7, <1>8, <1>9, <1>10, <1>11, <1>12, <1>13, <1>14, NextCases

\* The map follows every registration and every removal.
LEMMA IdentityStep == TypeOK /\ RegistryInv /\ RequestInv /\ IdentityFindsOwn /\ [Next]_vars => IdentityFindsOwn'
<1> SUFFICES ASSUME TypeOK, RegistryInv, RequestInv, IdentityFindsOwn, [Next]_vars PROVE IdentityFindsOwn'
  OBVIOUS
<1>r. ASSUME NEW s \in Sid, NEW e \in Entry, NEW i \in Id \cup {None}, Register(s, e, i)
      PROVE  /\ status[e] = "unused" /\ \A t \in Sid : sessions[t] # e
             /\ owner'[e] = i /\ \A f \in Entry \ {e} : owner'[f] = owner[f]
             /\ sessions'[s] = e /\ \A t \in Sid \ {s} : sessions'[t] = sessions[t]
  <2>1. status[e] = "unused"
    BY <1>r DEF Register
  <2> QED BY <1>r, <2>1, RegisterFacts DEF Registered
<1>m. \A q \in Req : target[q] # None => status[target[q]] # "unused"
  BY DEF RequestInv
<1> USE IdentityAssumption, SidFacts DEF TypeOK, RegistryInv, RequestInv, IdentityFindsOwn, tables, owned
<1>1. ASSUME NEW e \in Entry, NEW i \in Id \cup {None}, CreateSession(e, i) PROVE IdentityFindsOwn'
  <2>1. /\ SessionSid(e) \in Sid /\ Register(SessionSid(e), e, i) /\ UNCHANGED <<who, target>>
        /\ identity' = IF i = None THEN identity ELSE [identity EXCEPT ![i] = SessionSid(e)]
    BY <1>1 DEF CreateSession, Register
  <2>2. sessions[SessionSid(e)] = None
    BY <1>r, <2>1
  <2>3. \A j \in Id : identity[j] # SessionSid(e)
    BY <2>2
  <2>4. \A j \in Id : identity[j] # None /\ identity'[j] = identity[j] =>
          sessions'[identity[j]] = sessions[identity[j]] /\ owner'[sessions[identity[j]]] = owner[sessions[identity[j]]]
    BY <1>r, <2>1, <2>3
  <2>5. \A j \in Id : identity'[j] # None => sessions'[identity'[j]] # None /\ owner'[sessions'[identity'[j]]] = j
    <3> SUFFICES ASSUME NEW j \in Id, identity'[j] # None
                 PROVE  sessions'[identity'[j]] # None /\ owner'[sessions'[identity'[j]]] = j
      OBVIOUS
    <3>1. CASE identity'[j] = identity[j]
      BY <2>4, <3>1
    <3>2. CASE identity'[j] # identity[j]
      BY <1>r, <2>1, <3>2
    <3> QED BY <3>1, <3>2
  <2>6. \A q \in Req : target[q] # None => owner'[target[q]] = owner[target[q]]
    BY <1>r, <1>m, <2>1
  <2> QED BY <2>1, <2>5, <2>6
<1>2. ASSUME NEW S \in SUBSET Sid, Drop(S), UNCHANGED <<pc, who, target, clash>> PROVE IdentityFindsOwn'
  BY <1>2 DEF Drop, CleanupRuntime
<1>3. ASSUME NEW e \in Entry, GrowIdle(e) PROVE IdentityFindsOwn'
  BY <1>3 DEF GrowIdle
<1>4. ASSUME NEW r \in Req, NEW e \in Entry, ResolveBound(r, e) PROVE IdentityFindsOwn'
  BY <1>4 DEF ResolveBound, Chosen, Go
<1>5. ASSUME NEW r \in Req, NEW e \in Entry, RegisterIdentity(r, e) PROVE IdentityFindsOwn'
  <2> DEFINE s == IdentitySid(who[r])
  <2>1. /\ s \in Sid /\ who[r] \in Id /\ Register(s, e, who[r]) /\ who' = who
        /\ identity' = [identity EXCEPT ![who[r]] = s]
        /\ target[r] = None /\ target' = [target EXCEPT ![r] = e]
    BY <1>5 DEF RegisterIdentity, Register, Chosen
  <2>2. \A j \in Id : identity[j] = s => j = who[r]
    BY <2>1
  <2>3. \A j \in Id : identity'[j] # None => sessions'[identity'[j]] # None /\ owner'[sessions'[identity'[j]]] = j
    BY <1>r, <2>1, <2>2
  <2>4. ASSUME NEW q \in Req, who'[q] # None, target'[q] # None PROVE owner'[target'[q]] = who'[q]
    <3>1. CASE q = r
      BY <1>r, <2>1, <3>1
    <3>2. CASE q # r
      BY <1>r, <1>m, <2>1, <2>4, <3>2
    <3> QED BY <3>1, <3>2
  <2> QED BY <2>3, <2>4
<1>6. ASSUME NEW r \in Req, NEW auth \in AuthIds, NEW i \in IdentityIds, Resolve(r, auth, i) PROVE IdentityFindsOwn'
  BY <1>6, CookieIds DEF Resolve, ByAuth, GetIdentitySession, Chosen, Go, Touched
<1>7. ASSUME NEW r \in Req, Raise(r) PROVE IdentityFindsOwn'
  BY <1>7 DEF Raise, Go
<1>8. ASSUME NEW r \in Req, Ensure(r) PROVE IdentityFindsOwn'
  BY <1>8 DEF Ensure, OptionalData, Go
<1>9. ASSUME NEW r \in Req, Attach(r) PROVE IdentityFindsOwn'
  BY <1>9 DEF Attach, Go
<1>10. ASSUME NEW r \in Req, StartTimer(r) PROVE IdentityFindsOwn'
  BY <1>10 DEF StartTimer, Cancelled, NewTask
<1>11. ASSUME NEW r \in Req, CancelTimer(r) PROVE IdentityFindsOwn'
  BY <1>11 DEF CancelTimer, Cancelled
<1>12. ASSUME NEW r \in Req, TimerEnds(r) PROVE IdentityFindsOwn'
  BY <1>12 DEF TimerEnds
<1>13. ASSUME NEW r \in Req, Finish(r) PROVE IdentityFindsOwn'
  BY <1>13 DEF Finish, Go
<1>14. ASSUME UNCHANGED vars PROVE IdentityFindsOwn'
  BY <1>14 DEF vars, tables
<1> QED
  BY <1>1, <1>2, <1>3, <1>4, <1>5, <1>6, <1>7, <1>8, <1>9, <1>10, <1>11, <1>12, <1>13, <1>14, NextCases

\* An entry is displaced by a registration for the identity it was registered
\* for, and the request that registered it still names both.
LEMMA DisplacedStep ==
  TypeOK /\ RegistryInv /\ RequestInv /\ DisplacedAreDurable /\ [Next]_vars => DisplacedAreDurable'
<1> SUFFICES ASSUME TypeOK, RegistryInv, RequestInv, DisplacedAreDurable, [Next]_vars PROVE DisplacedAreDurable'
  OBVIOUS
<1>a. ASSUME status' = status, owner' = owner,
             \A r \in Req : target[r] # None => target'[r] = target[r] /\ who'[r] = who[r]
      PROVE  DisplacedAreDurable'
  BY <1>a, IdentityAssumption DEF DisplacedAreDurable
<1>b. \A r \in Req : pc[r] \in {"new", "factory"} => target[r] = None
  BY DEF RequestInv
<1>1. ASSUME NEW e \in Entry, NEW i \in Id \cup {None}, CreateSession(e, i) PROVE DisplacedAreDurable'
  <2>1. SessionSid(e) \in Sid /\ Register(SessionSid(e), e, i) /\ UNCHANGED <<who, target>>
    BY <1>1, SidFacts DEF CreateSession
  <2>2. sessions[SessionSid(e)] = None
    BY <2>1, RegisterFacts, IdentityAssumption DEF RegistryInv, Registered
  <2>3. \A f \in Entry : status'[f] = "displaced" => f # e /\ status[f] = "displaced" /\ owner'[f] = owner[f]
    BY <2>1, <2>2, RegisterFacts, IdentityAssumption
  <2> QED BY <2>1, <2>3 DEF DisplacedAreDurable
<1>2. ASSUME NEW S \in SUBSET Sid, Drop(S), UNCHANGED <<pc, who, target, clash>> PROVE DisplacedAreDurable'
  <2>1. \A f \in Entry : status'[f] = "displaced" => status[f] = "displaced" /\ owner'[f] = owner[f]
    BY <1>2, DropFacts
  <2> QED BY <1>2, <2>1 DEF DisplacedAreDurable
<1>3. ASSUME NEW e \in Entry, GrowIdle(e) PROVE DisplacedAreDurable'
  BY <1>3, <1>a DEF GrowIdle
<1>4. ASSUME NEW r \in Req, NEW e \in Entry, ResolveBound(r, e) PROVE DisplacedAreDurable'
  BY <1>4, <1>a, <1>b DEF ResolveBound, Chosen, Go, tables, TypeOK
<1>5. ASSUME NEW r \in Req, NEW e \in Entry, RegisterIdentity(r, e) PROVE DisplacedAreDurable'
  <2> DEFINE s == IdentitySid(who[r])
  <2>1. /\ s \in Sid /\ who[r] \in Id /\ Register(s, e, who[r]) /\ who' = who
        /\ target[r] = None /\ target' = [target EXCEPT ![r] = e]
    BY <1>5, <1>b, SidFacts DEF RegisterIdentity, Chosen, RequestInv, TypeOK
  <2>2. \A q \in Req : target[q] # None => target'[q] = target[q]
    BY <2>1 DEF TypeOK
  <2>3. ASSUME NEW f \in Entry, status'[f] = "displaced"
        PROVE  owner'[f] # None /\ \E q \in Req : target'[q] = f /\ who'[q] = owner'[f]
    <3>1. f # e /\ owner'[f] = owner[f] /\ (f = sessions[s] \/ status[f] = "displaced")
      BY <2>1, <2>3, RegisterFacts
    <3>2. CASE f = sessions[s]
      <4>1. owner[f] = who[r] /\ \E q \in Req : target[q] = f /\ who[q] = who[r]
        BY <2>1, <3>2, IdentityAssumption DEF RegistryInv
      <4> QED BY <2>1, <2>2, <3>1, <4>1, IdentityAssumption
    <3>3. CASE status[f] = "displaced"
      BY <2>1, <2>2, <3>1, <3>3, IdentityAssumption DEF DisplacedAreDurable
    <3> QED BY <3>1, <3>2, <3>3
  <2> QED BY <2>3 DEF DisplacedAreDurable
<1>6. ASSUME NEW r \in Req, NEW auth \in AuthIds, NEW i \in IdentityIds, Resolve(r, auth, i) PROVE DisplacedAreDurable'
  BY <1>6, <1>a, <1>b DEF Resolve, Chosen, Go, TypeOK
<1>7. ASSUME NEW r \in Req, Raise(r) PROVE DisplacedAreDurable'
  BY <1>7, <1>a DEF Raise, tables
<1>8. ASSUME NEW r \in Req, Ensure(r) PROVE DisplacedAreDurable'
  BY <1>8, <1>a DEF Ensure, tables
<1>9. ASSUME NEW r \in Req, Attach(r) PROVE DisplacedAreDurable'
  BY <1>9, <1>a DEF Attach, tables
<1>10. ASSUME NEW r \in Req, StartTimer(r) PROVE DisplacedAreDurable'
  BY <1>10, <1>a DEF StartTimer, tables
<1>11. ASSUME NEW r \in Req, CancelTimer(r) PROVE DisplacedAreDurable'
  BY <1>11, <1>a DEF CancelTimer, tables
<1>12. ASSUME NEW r \in Req, TimerEnds(r) PROVE DisplacedAreDurable'
  BY <1>12, <1>a DEF TimerEnds, tables
<1>13. ASSUME NEW r \in Req, Finish(r) PROVE DisplacedAreDurable'
  BY <1>13, <1>a DEF Finish, tables
<1>14. ASSUME UNCHANGED vars PROVE DisplacedAreDurable'
  BY <1>14, <1>a DEF vars, tables
<1> QED
  BY <1>1, <1>2, <1>3, <1>4, <1>5, <1>6, <1>7, <1>8, <1>9, <1>10, <1>11, <1>12, <1>13, <1>14, NextCases

\* A session keeps what it owns while it is registered and once it is displaced.
Keeps(e) == e \in Registered \/ status[e] = "displaced"

\* It stops keeping it only when it is dropped.
LEMMA KeepsFacts ==
  ASSUME TypeOK, RegistryInv
  PROVE  /\ \A e \in Entry : status[e] = "made" => Keeps(e)
         /\ \A s \in Sid, e \in Entry, i \in Id \cup {None} : Register(s, e, i) =>
              \A f \in Entry : Keeps(f) => Keeps(f)'
         /\ \A S \in SUBSET Sid : Drop(S) =>
              \A f \in Entry : Keeps(f) /\ f \notin {sessions[s] : s \in S} => Keeps(f)'
<1>1. \A e \in Entry : status[e] = "made" => Keeps(e)
  BY DEF Keeps, RegistryInv
<1>2. ASSUME NEW s \in Sid, NEW e \in Entry, NEW i \in Id \cup {None}, Register(s, e, i), NEW f \in Entry, Keeps(f)
      PROVE  Keeps(f)'
  BY <1>2, RegisterFacts DEF Keeps
<1>3. ASSUME NEW S \in SUBSET Sid, Drop(S), NEW f \in Entry, Keeps(f), f \notin {sessions[s] : s \in S}
      PROVE  Keeps(f)'
  BY <1>3, DropFacts DEF Keeps
<1> QED BY <1>1, <1>2, <1>3

\* An object is overwritten only where two creations met.
LEMMA DataStep == TypeOK /\ RegistryInv /\ RequestInv /\ OwnedInv /\ DataReleased /\ [Next]_vars => DataReleased'
<1> SUFFICES ASSUME TypeOK, RegistryInv, RequestInv, OwnedInv, DataReleased, [Next]_vars PROVE DataReleased'
  OBVIOUS
<1>a. \A r \in Req : data[r] = "held" /\ r \notin clash => attached[target[r]] = r /\ Keeps(target[r])
  BY DEF DataReleased, Keeps
<1>b. \A r \in Req : data[r] # "none" => target[r] \in Entry
  BY DEF RequestInv, TypeOK
<1>c. ASSUME \A f \in Entry : Keeps(f) => Keeps(f)', UNCHANGED <<attached, data, clash>>,
             \A r \in Req : target[r] # None => target'[r] = target[r]
      PROVE  DataReleased'
  BY <1>a, <1>b, <1>c, IdentityAssumption DEF DataReleased, Keeps
<1>k. ASSUME UNCHANGED <<sessions, status>> PROVE \A f \in Entry : Keeps(f) => Keeps(f)'
  BY <1>k DEF Keeps, Registered
<1>n. \A r \in Req : pc[r] \in {"new", "factory"} => target[r] = None
  BY DEF RequestInv
<1>1. ASSUME NEW e \in Entry, NEW i \in Id \cup {None}, CreateSession(e, i) PROVE DataReleased'
  <2>1. SessionSid(e) \in Sid /\ Register(SessionSid(e), e, i) /\ UNCHANGED <<owned, target, clash>>
    BY <1>1, SidFacts DEF CreateSession
  <2> QED BY <1>c, <2>1, KeepsFacts DEF owned
<1>2. ASSUME NEW S \in SUBSET Sid, Drop(S), UNCHANGED <<pc, who, target, clash>> PROVE DataReleased'
  <2> SUFFICES ASSUME NEW r \in Req, data'[r] = "held", r \notin clash
               PROVE  attached'[target[r]] = r /\ Keeps(target[r])'
    BY <1>2 DEF DataReleased, Keeps
  <2> DEFINE E == {sessions[s] : s \in S} \ {None}
  <2>1. data[r] = "held" /\ ~ \E e \in E : attached[e] = r
    BY <1>2 DEF Drop, CleanupRuntime, TypeOK
  <2>2. target[r] \in Entry /\ attached[target[r]] = r /\ Keeps(target[r])
    BY <1>a, <1>b, <2>1
  <2>3. target[r] \notin E /\ target[r] # None
    BY <2>1, <2>2, IdentityAssumption
  <2>4. Keeps(target[r])'
    <3>1. \A f \in Entry : Keeps(f) /\ f \notin {sessions[s] : s \in S} => Keeps(f)'
      BY <1>2, KeepsFacts
    <3>2. target[r] \notin {sessions[s] : s \in S}
      BY <2>3
    <3> QED BY <1>2, <2>2, <3>1, <3>2
  <2>5. attached'[target[r]] = r
    BY <1>2, <2>2, <2>3 DEF Drop, CleanupRuntime
  <2> QED BY <2>4, <2>5
<1>3. ASSUME NEW e \in Entry, GrowIdle(e) PROVE DataReleased'
  BY <1>3, <1>c, <1>k DEF GrowIdle, owned
<1>4. ASSUME NEW r \in Req, NEW e \in Entry, ResolveBound(r, e) PROVE DataReleased'
  BY <1>4, <1>c, <1>k, <1>n DEF ResolveBound, Chosen, tables, owned, TypeOK
<1>5. ASSUME NEW r \in Req, NEW e \in Entry, RegisterIdentity(r, e) PROVE DataReleased'
  <2>1. /\ IdentitySid(who[r]) \in Sid /\ who[r] \in Id /\ Register(IdentitySid(who[r]), e, who[r])
        /\ UNCHANGED <<owned, clash>>
        /\ target[r] = None /\ target' = [target EXCEPT ![r] = e]
    BY <1>5, <1>n, SidFacts DEF RegisterIdentity, Chosen, RequestInv, TypeOK
  <2>2. \A q \in Req : target[q] # None => target'[q] = target[q]
    BY <2>1 DEF TypeOK
  <2> QED BY <1>c, <2>1, <2>2, KeepsFacts DEF owned
<1>6. ASSUME NEW r \in Req, NEW auth \in AuthIds, NEW i \in IdentityIds, Resolve(r, auth, i) PROVE DataReleased'
  BY <1>6, <1>c, <1>k, <1>n DEF Resolve, Chosen, owned, TypeOK
<1>7. ASSUME NEW r \in Req, Raise(r) PROVE DataReleased'
  BY <1>7, <1>c, <1>k DEF Raise, tables, owned
<1>8. ASSUME NEW r \in Req, Ensure(r) PROVE DataReleased'
  <2>1. clash \subseteq clash' /\ UNCHANGED <<sessions, status, attached, data, target>>
    BY <1>8 DEF Ensure, tables, owned
  <2> QED BY <1>a, <1>k, <1>b, <2>1 DEF DataReleased, Keeps, Registered
<1>9. ASSUME NEW r \in Req, Attach(r) PROVE DataReleased'
  <2>1. /\ pc[r] = "creating" /\ target[r] \in Entry /\ UNCHANGED <<sessions, status, target, clash>>
        /\ attached' = [attached EXCEPT ![target[r]] = r]
        /\ data' = [data EXCEPT ![r] = IF status[target[r]] = "made" THEN "held" ELSE "late"]
    BY <1>9 DEF Attach, tables, RequestInv, TypeOK
  <2>2. \A f \in Entry : Keeps(f)' <=> Keeps(f)
    BY <2>1 DEF Keeps, Registered
  <2> SUFFICES ASSUME NEW q \in Req, data'[q] = "held", q \notin clash
               PROVE  attached'[target[q]] = q /\ Keeps(target[q])'
    BY <2>1 DEF DataReleased, Keeps
  <2>3. CASE q = r
    <3>1. status[target[r]] = "made"
      BY <2>1, <2>3 DEF TypeOK
    <3>2. Keeps(target[r])
      BY <2>1, <3>1, KeepsFacts
    <3> QED BY <2>1, <2>2, <2>3, <3>2 DEF TypeOK
  <2>4. CASE q # r
    <3>1. data[q] = "held" /\ attached[target[q]] = q /\ target[q] \in Entry /\ Keeps(target[q])
      BY <1>a, <1>b, <2>1, <2>4 DEF TypeOK
    <3>2. target[q] # target[r]
      BY <2>1, <3>1, IdentityAssumption DEF OwnedInv
    <3> QED BY <2>1, <2>2, <3>1, <3>2 DEF TypeOK
  <2> QED BY <2>3, <2>4
<1>10. ASSUME NEW r \in Req, StartTimer(r) PROVE DataReleased'
  BY <1>10, <1>c, <1>k DEF StartTimer, tables
<1>11. ASSUME NEW r \in Req, CancelTimer(r) PROVE DataReleased'
  BY <1>11, <1>c, <1>k DEF CancelTimer, tables
<1>12. ASSUME NEW r \in Req, TimerEnds(r) PROVE DataReleased'
  BY <1>12, <1>c, <1>k DEF TimerEnds, tables
<1>13. ASSUME NEW r \in Req, Finish(r) PROVE DataReleased'
  BY <1>13, <1>c, <1>k DEF Finish, tables, owned
<1>14. ASSUME UNCHANGED vars PROVE DataReleased'
  BY <1>14, <1>c, <1>k DEF vars, tables, owned
<1> QED
  BY <1>1, <1>2, <1>3, <1>4, <1>5, <1>6, <1>7, <1>8, <1>9, <1>10, <1>11, <1>12, <1>13, <1>14, NextCases

\* A task runs only while _timers names it.
LEMMA TimerStep == TypeOK /\ RegistryInv /\ RequestInv /\ OwnedInv /\ TimersEnd /\ [Next]_vars => TimersEnd'
<1> SUFFICES ASSUME TypeOK, RegistryInv, RequestInv, OwnedInv, TimersEnd, [Next]_vars PROVE TimersEnd'
  OBVIOUS
<1>a. \A r \in Req : task[r] \in Runs => timer[target[r]] = r /\ (task[r] = "running" => Keeps(target[r]))
  BY DEF TimersEnd, Keeps
<1>b. \A r \in Req : task[r] # "none" => target[r] \in Entry
  BY DEF RequestInv, TypeOK
<1>c. ASSUME \A f \in Entry : Keeps(f) => Keeps(f)', UNCHANGED <<timer, task>>,
             \A r \in Req : target[r] # None => target'[r] = target[r]
      PROVE  TimersEnd'
  BY <1>a, <1>b, <1>c, IdentityAssumption DEF TimersEnd, Keeps, Runs
<1>k. ASSUME UNCHANGED <<sessions, status>> PROVE \A f \in Entry : Keeps(f) => Keeps(f)'
  BY <1>k DEF Keeps, Registered
<1>n. \A r \in Req : pc[r] \in {"new", "factory"} => target[r] = None
  BY DEF RequestInv
<1>1. ASSUME NEW e \in Entry, NEW i \in Id \cup {None}, CreateSession(e, i) PROVE TimersEnd'
  <2>1. SessionSid(e) \in Sid /\ Register(SessionSid(e), e, i) /\ UNCHANGED <<owned, target, clash>>
    BY <1>1, SidFacts DEF CreateSession
  <2> QED BY <1>c, <2>1, KeepsFacts DEF owned
<1>2. ASSUME NEW S \in SUBSET Sid, Drop(S), UNCHANGED <<pc, who, target, clash>> PROVE TimersEnd'
  <2> SUFFICES ASSUME NEW r \in Req, task'[r] \in Runs
               PROVE  timer'[target[r]] = r /\ (task'[r] = "running" => Keeps(target[r])')
    BY <1>2 DEF TimersEnd, Keeps
  <2> DEFINE E == {sessions[s] : s \in S} \ {None}
  <2>1. task[r] \in Runs /\ task'[r] = task[r] /\ ~ \E e \in E : timer[e] = r
    BY <1>2 DEF Drop, CleanupRuntime, TypeOK, Runs
  <2>2. target[r] \in Entry /\ timer[target[r]] = r
    BY <1>a, <1>b, <2>1 DEF Runs
  <2>3. target[r] \notin E /\ target[r] # None
    BY <2>1, <2>2, IdentityAssumption
  <2>4. Keeps(target[r]) => Keeps(target[r])'
    <3>1. \A f \in Entry : Keeps(f) /\ f \notin {sessions[s] : s \in S} => Keeps(f)'
      BY <1>2, KeepsFacts
    <3>2. target[r] \notin {sessions[s] : s \in S}
      BY <2>3
    <3> QED BY <1>2, <2>2, <3>1, <3>2
  <2>5. timer'[target[r]] = r
    BY <1>2, <2>2, <2>3 DEF Drop, CleanupRuntime
  <2> QED BY <1>a, <2>1, <2>4, <2>5
<1>3. ASSUME NEW e \in Entry, GrowIdle(e) PROVE TimersEnd'
  BY <1>3, <1>c, <1>k DEF GrowIdle, owned
<1>4. ASSUME NEW r \in Req, NEW e \in Entry, ResolveBound(r, e) PROVE TimersEnd'
  BY <1>4, <1>c, <1>k, <1>n DEF ResolveBound, Chosen, tables, owned, TypeOK
<1>5. ASSUME NEW r \in Req, NEW e \in Entry, RegisterIdentity(r, e) PROVE TimersEnd'
  <2>1. /\ IdentitySid(who[r]) \in Sid /\ who[r] \in Id /\ Register(IdentitySid(who[r]), e, who[r])
        /\ UNCHANGED <<owned, clash>>
        /\ target[r] = None /\ target' = [target EXCEPT ![r] = e]
    BY <1>5, <1>n, SidFacts DEF RegisterIdentity, Chosen, RequestInv, TypeOK
  <2>2. \A q \in Req : target[q] # None => target'[q] = target[q]
    BY <2>1 DEF TypeOK
  <2> QED BY <1>c, <2>1, <2>2, KeepsFacts DEF owned
<1>6. ASSUME NEW r \in Req, NEW auth \in AuthIds, NEW i \in IdentityIds, Resolve(r, auth, i) PROVE TimersEnd'
  BY <1>6, <1>c, <1>k, <1>n DEF Resolve, Chosen, owned, TypeOK
<1>7. ASSUME NEW r \in Req, Raise(r) PROVE TimersEnd'
  BY <1>7, <1>c, <1>k DEF Raise, tables, owned
<1>8. ASSUME NEW r \in Req, Ensure(r) PROVE TimersEnd'
  BY <1>8, <1>c, <1>k DEF Ensure, tables, owned
<1>9. ASSUME NEW r \in Req, Attach(r) PROVE TimersEnd'
  BY <1>9, <1>c, <1>k DEF Attach, tables
<1>10. ASSUME NEW r \in Req, StartTimer(r) PROVE TimersEnd'
  <2> DEFINE e == target[r]
  <2>1. /\ e \in Entry /\ UNCHANGED <<sessions, status, target>>
        /\ task' = [Cancelled(e) EXCEPT ![r] = NewTask(e)]
        /\ timer' = [timer EXCEPT ![e] = r]
    BY <1>10 DEF StartTimer, tables, RequestInv, TypeOK
  <2>2. \A f \in Entry : Keeps(f)' <=> Keeps(f)
    BY <2>1 DEF Keeps, Registered
  <2> SUFFICES ASSUME NEW q \in Req, task'[q] \in Runs
               PROVE  timer'[target[q]] = q /\ (task'[q] = "running" => Keeps(target[q])')
    BY <2>1 DEF TimersEnd, Keeps
  <2>3. CASE q = r
    <3>1. task'[r] = "running" => status[e] = "made"
      BY <2>1 DEF NewTask, Cancelled
    <3>2. status[e] = "made" => Keeps(e)
      BY <2>1, KeepsFacts
    <3>3. timer'[e] = r
      BY <2>1 DEF TypeOK
    <3> QED BY <2>1, <2>2, <2>3, <3>1, <3>2, <3>3
  <2>4. CASE q # r
    <3>1. task'[q] = task[q] /\ timer[e] # q
      BY <2>1, <2>4 DEF Cancelled, Runs, TypeOK
    <3>2. timer[target[q]] = q /\ target[q] \in Entry /\ (task[q] = "running" => Keeps(target[q]))
      BY <1>a, <1>b, <3>1 DEF Runs
    <3> QED BY <2>1, <2>2, <3>1, <3>2 DEF TypeOK
  <2> QED BY <2>3, <2>4
<1>11. ASSUME NEW r \in Req, CancelTimer(r) PROVE TimersEnd'
  <2>1. /\ UNCHANGED <<sessions, status, target, timer>> /\ task' = Cancelled(target[r])
    BY <1>11 DEF CancelTimer, tables
  <2>2. \A q \in Req : task'[q] \in Runs => task'[q] = task[q]
    BY <2>1 DEF Cancelled, Runs
  <2>3. \A f \in Entry : Keeps(f)' <=> Keeps(f)
    BY <2>1 DEF Keeps, Registered
  <2>4. \A q \in Req : task'[q] \in Runs =>
          timer'[target'[q]] = q /\ (task'[q] = "running" => Keeps(target[q])')
    BY <1>a, <1>b, <2>1, <2>2, <2>3 DEF Runs
  <2> QED BY <2>4 DEF TimersEnd, Keeps
<1>12. ASSUME NEW r \in Req, TimerEnds(r) PROVE TimersEnd'
  <2>1. /\ UNCHANGED <<sessions, status, target, timer>> /\ task' = [task EXCEPT ![r] = "ended"]
    BY <1>12 DEF TimerEnds, tables
  <2>2. \A q \in Req : task'[q] \in Runs => task'[q] = task[q]
    BY <2>1 DEF Runs, TypeOK
  <2>3. \A f \in Entry : Keeps(f)' <=> Keeps(f)
    BY <2>1 DEF Keeps, Registered
  <2>4. \A q \in Req : task'[q] \in Runs =>
          timer'[target'[q]] = q /\ (task'[q] = "running" => Keeps(target[q])')
    BY <1>a, <1>b, <2>1, <2>2, <2>3 DEF Runs
  <2> QED BY <2>4 DEF TimersEnd, Keeps
<1>13. ASSUME NEW r \in Req, Finish(r) PROVE TimersEnd'
  BY <1>13, <1>c, <1>k DEF Finish, tables, owned
<1>14. ASSUME UNCHANGED vars PROVE TimersEnd'
  BY <1>14, <1>c, <1>k DEF vars, tables, owned
<1> QED
  BY <1>1, <1>2, <1>3, <1>4, <1>5, <1>6, <1>7, <1>8, <1>9, <1>10, <1>11, <1>12, <1>13, <1>14, NextCases

\* The inductive invariant: its own parts, and the properties themselves.
IInv ==
  /\ TypeOK /\ RegistryInv /\ RequestInv /\ OwnedInv
  /\ IdentityFindsOwn /\ DataReleased /\ TimersEnd /\ DisplacedAreDurable

LEMMA InvariantHolds == Spec => []IInv
<1>1. Init => IInv
  <2> SUFFICES ASSUME Init PROVE IInv
    OBVIOUS
  <2> USE IdentityAssumption, SidFacts DEF Init
  <2>1. TypeOK
    BY DEF TypeOK
  <2>2. RegistryInv /\ RequestInv /\ OwnedInv
    BY DEF RegistryInv, RequestInv, OwnedInv, Registered
  <2>3. IdentityFindsOwn /\ DataReleased /\ TimersEnd /\ DisplacedAreDurable
    BY DEF IdentityFindsOwn, DataReleased, TimersEnd, Runs, DisplacedAreDurable
  <2> QED
    BY <2>1, <2>2, <2>3 DEF IInv
<1>2. IInv /\ [Next]_vars => IInv'
  BY TypeStep, RegistryStep, RequestStep, OwnedStep, IdentityStep, DataStep, TimerStep, DisplacedStep DEF IInv
<1> QED
  BY <1>1, <1>2, PTL DEF Spec

\* Every variable keeps its type.
THEOREM TypeCorrect == Spec => []TypeOK
<1>1. IInv => TypeOK
  BY DEF IInv
<1> QED
  BY <1>1, InvariantHolds, PTL

\* Whatever is created, replaced, removed or expired while a request waits for
\* its factory, an identity leads to a registered session of its own.
THEOREM IdentitySafety == Spec => []IdentityFindsOwn
<1>1. IInv => IdentityFindsOwn
  BY DEF IInv
<1> QED
  BY <1>1, InvariantHolds, PTL

\* Data and timer tasks of a registered session stay its own and end when it is
\* removed or expires; the exceptions are creations that overlapped and what a
\* handler starts for a session that has left.  A session leaves without this
\* end only by being displaced, which happens to those of identity cookies only.
THEOREM ReleaseSafety == Spec => []ReleasedWithSession
<1>1. IInv => ReleasedWithSession
  BY DEF IInv, ReleasedWithSession
<1> QED
  BY <1>1, InvariantHolds, PTL

-----------------------------------------------------------------------------
(* Commands *)

\* A step of the registry, of a browser or of a call is one of these.
LEMMA CommandCases ==
  ASSUME NEW P,
         [Commands!Next]_(Commands!vars),
         UNCHANGED Commands!vars => P,
         \A s \in Session : Commands!Register(s) => P,
         \A s \in Session : Commands!RemoveSession(s) => P,
         \A s \in Session : Commands!Inspect(s) => P,
         \A w \in Socket : \A s \in Session : Commands!Connect(w, s) => P,
         \A w \in Socket : Commands!Accepted(w) => P,
         \A w \in Socket : Commands!Message(w) => P,
         \A w \in Socket : Commands!Handled(w) => P,
         \A w \in Socket : Commands!Closes(w) => P,
         \A w \in Socket : Commands!Ends(w) => P,
         \A c \in Call : \A k \in Commands!Command : Commands!RestCalls(c, k) => P,
         \A c \in Call : \A k \in Commands!Command : Commands!StdioCalls(c, k) => P,
         \A c \in Call : \A k \in Commands!Command : \A s \in Session :
           Commands!McpCalls(c, s, k) => P,
         \A c \in Call : \A s \in Session : Commands!WsSend(c, s) => P,
         \A c \in Call : Commands!BodyArrives(c) => P,
         \A c \in Call : Commands!StdioLists(c) => P,
         \A c \in Call : Commands!Finishes(c) => P,
         \A c \in Call : Commands!Forward(c) => P,
         \A c \in Call : Commands!Forwarded(c) => P
  PROVE  P
BY DEF Commands!Next

\* Connections, calls, sessions and None are told apart.
LEMMA CommandConstants ==
  /\ Socket \cap Call = {}
  /\ None \notin Socket /\ None \notin Call /\ None \notin Session
  /\ None \notin [Socket -> Nat]
BY CommandsAssumption DEF Commands!ConstantsAssumption

\* Without keeps the other ids of a list.
LEMMA WithoutFacts ==
  ASSUME NEW S, NEW q \in Seq(S), NEW s
  PROVE  /\ Commands!Without(q, s) \in Seq(S)
         /\ \A x \in Commands!ToSet(q) : x # s => x \in Commands!ToSet(Commands!Without(q, s))
<1>1. CASE s \notin Commands!ToSet(q)
  BY <1>1 DEF Commands!Without
<1>2. CASE s \in Commands!ToSet(q)
  <2> DEFINE i == CHOOSE j \in DOMAIN q : q[j] = s
             a == SubSeq(q, 1, i - 1)
             b == SubSeq(q, i + 1, Len(q))
  <2>1. i \in DOMAIN q /\ q[i] = s
    BY <1>2 DEF Commands!ToSet
  <2>2. Commands!Without(q, s) = a \o b
    BY <1>2 DEF Commands!Without, Commands!RemoveAt
  <2>3. Len(q) \in Nat /\ DOMAIN q = 1..Len(q) /\ \A j \in 1..Len(q) : q[j] \in S
    BY LenProperties, ElementOfSeq
  <2> HIDE DEF i
  <2>4. i \in 1..Len(q) /\ i \in Int /\ i - 1 \in Int /\ i + 1 \in Int /\ Len(q) \in Int
    BY <2>1, <2>3
  <2>5. /\ a \in Seq(S) /\ Len(a) = i - 1
        /\ \A j \in 1..(i - 1) : a[j] = q[j]
    <3>1. \A j \in 1..(i - 1) : q[j] \in S
      BY <2>3, <2>4
    <3>2. /\ a \in Seq(S)
          /\ Len(a) = IF 1 <= i - 1 THEN i - 1 - 1 + 1 ELSE 0
          /\ \A j \in 1..(i - 1 - 1 + 1) : a[j] = q[1 + j - 1]
      BY <2>4, <3>1, SubSeqProperties
    <3> HIDE DEF a
    <3> QED
      BY <2>4, <3>2
  <2>6. /\ b \in Seq(S) /\ Len(b) = Len(q) - i
        /\ \A j \in 1..(Len(q) - i) : b[j] = q[i + j]
    <3>1. \A j \in (i + 1)..Len(q) : q[j] \in S
      BY <2>3, <2>4
    <3>2. /\ b \in Seq(S)
          /\ Len(b) = IF i + 1 <= Len(q) THEN Len(q) - (i + 1) + 1 ELSE 0
          /\ \A j \in 1..(Len(q) - (i + 1) + 1) : b[j] = q[i + 1 + j - 1]
      BY <2>4, <3>1, SubSeqProperties
    <3> HIDE DEF b
    <3>3. \A m \in Nat : i \in 1..m /\ ~(i + 1 <= m) => 0 = m - i
      OBVIOUS
    <3>4. Len(b) = Len(q) - i
      <4>1. CASE i + 1 <= Len(q)
        BY <2>3, <2>4, <3>2, <4>1
      <4>2. CASE ~(i + 1 <= Len(q))
        BY <2>3, <2>4, <3>2, <3>3, <4>2
      <4> QED
        BY <4>1, <4>2
    <3>5. ASSUME NEW j \in 1..(Len(q) - i) PROVE b[j] = q[i + j]
      <4>1. j \in 1..(Len(q) - (i + 1) + 1) /\ i + 1 + j - 1 = i + j
        BY <2>3, <2>4
      <4> QED
        BY <3>2, <4>1
    <3> QED
      BY <3>2, <3>4, <3>5
  <2> HIDE DEF a, b
  <2>7. /\ a \o b \in Seq(S) /\ Len(a \o b) = Len(q) - 1
        /\ \A j \in 1..(Len(q) - 1) : (a \o b)[j] = IF j <= i - 1 THEN a[j] ELSE b[j - (i - 1)]
    <3>1. /\ a \o b \in Seq(S) /\ Len(a \o b) = Len(a) + Len(b)
          /\ \A j \in 1..(Len(a) + Len(b)) :
               (a \o b)[j] = IF j <= Len(a) THEN a[j] ELSE b[j - Len(a)]
      BY <2>5, <2>6, ConcatProperties
    <3>2. Len(a) + Len(b) = Len(q) - 1
      BY <2>3, <2>4, <2>5, <2>6
    <3> QED
      BY <2>5, <3>1, <3>2
  <2>8. DOMAIN (a \o b) = 1..(Len(q) - 1)
    BY <2>7, LenProperties
  <2>9. ASSUME NEW x \in Commands!ToSet(q), x # s PROVE x \in Commands!ToSet(a \o b)
    <3>1. PICK j \in 1..Len(q) : x = q[j]
      BY <2>3, <2>9 DEF Commands!ToSet
    <3>2. j < i \/ j > i
      BY <2>1, <2>4, <2>9, <3>1
    <3>3. CASE j < i
      <4>1. j \in 1..(Len(q) - 1) /\ j <= i - 1 /\ j \in 1..(i - 1)
        BY <2>3, <2>4, <3>1, <3>3
      <4> QED
        BY <2>5, <2>7, <2>8, <3>1, <4>1 DEF Commands!ToSet
    <3>4. CASE j > i
      <4> DEFINE m == j - 1
      <4>1. /\ m \in 1..(Len(q) - 1) /\ ~(m <= i - 1)
            /\ m - (i - 1) \in 1..(Len(q) - i) /\ i + (m - (i - 1)) = j
        BY <2>3, <2>4, <3>1, <3>4
      <4> HIDE DEF m
      <4>2. (a \o b)[m] = q[j]
        BY <2>6, <2>7, <4>1
      <4> QED
        BY <2>8, <3>1, <4>1, <4>2 DEF Commands!ToSet
    <3> QED
      BY <3>2, <3>3, <3>4
  <2> QED
    BY <2>2, <2>7, <2>9
<1> QED
  BY <1>1, <1>2

\* A tool, over REST, MCP or the proxy, is over at once or finds a registered
\* session as its command requires, which takes no step but its own.
LEMMA CallFacts ==
  ASSUME Commands!TypeOK, NEW c \in Call, NEW k \in Commands!Command,
         \/ Commands!RestCalls(c, k) \/ Commands!StdioCalls(c, k)
         \/ \E s \in Session : Commands!McpCalls(c, s, k)
  PROVE  /\ UNCHANGED <<listed, Commands!links, Commands!reading, job, received, changed, since>>
         /\ cpc[c] \in {"new", "listed"}
         /\ \/ \E s \in Session, there \in {"body", "running"} :
                 /\ s \in Commands!Registered /\ Commands!Meets(s, k)
                 /\ Commands!Inject(c, s, k, there)
                 /\ there = "body" => k.body
            \/ Commands!Over(c)
<1>1. \A s \in Commands!Registered : s \in Session
  BY LenProperties, ElementOfSeq DEF Commands!TypeOK, Commands!Registered, Commands!ToSet
<1>2. Commands!Start(k) \in {"body", "running"} /\ (Commands!Start(k) = "body" => k.body)
  BY DEF Commands!Start
<1>3. ASSUME NEW s, Commands!Rest(c, s, k)
      PROVE  /\ UNCHANGED <<listed, Commands!links, Commands!reading, job, received, changed, since>>
             /\ \/ \E q \in Session, there \in {"body", "running"} :
                     /\ q \in Commands!Registered /\ Commands!Meets(q, k)
                     /\ Commands!Inject(c, q, k, there)
                     /\ there = "body" => k.body
                \/ Commands!Over(c)
  BY <1>1, <1>2, <1>3 DEF Commands!Rest
<1>4. CASE Commands!RestCalls(c, k)
  BY <1>3, <1>4 DEF Commands!RestCalls
<1>5. CASE Commands!StdioCalls(c, k)
  BY <1>3, <1>5 DEF Commands!StdioCalls
<1>6. ASSUME NEW s \in Session, Commands!McpCalls(c, s, k)
      PROVE  /\ UNCHANGED <<listed, Commands!links, Commands!reading, job, received, changed, since>>
             /\ cpc[c] \in {"new", "listed"}
             /\ \/ \E q \in Session, there \in {"body", "running"} :
                     /\ q \in Commands!Registered /\ Commands!Meets(q, k)
                     /\ Commands!Inject(c, q, k, there)
                     /\ there = "body" => k.body
                \/ Commands!Over(c)
  BY <1>6 DEF Commands!McpCalls
<1> QED
  BY <1>4, <1>5, <1>6

Reply == [from : Socket \cup Call, n : Nat]

\* A controller that sends adds one reply, at the end of what the connection
\* it sends on received.
LEMMA SendsFacts ==
  ASSUME Commands!TypeOK, NEW k \in Socket, NEW x \in Socket \cup Call, NEW n \in Nat,
         Commands!Sends(k, x, n) \/ UNCHANGED received
  PROVE  /\ received' \in [Socket -> Seq(Reply)]
         /\ \A w \in Socket : \A i \in DOMAIN received'[w] :
              \/ i \in DOMAIN received[w] /\ received'[w][i] = received[w][i]
              \/ /\ w = ws[k] /\ received'[w][i] = [from |-> x, n |-> n]
                 /\ i \notin DOMAIN received[w]
         /\ \A w \in Socket : \A i, j \in DOMAIN received'[w] :
              i \notin DOMAIN received[w] /\ j \notin DOMAIN received[w] => i = j
<1> DEFINE r == [from |-> x, n |-> n]
<1>1. received \in [Socket -> Seq(Reply)] /\ r \in Reply
  BY DEF Commands!TypeOK, Reply
<1>2. CASE UNCHANGED received
  BY <1>1, <1>2
<1>3. CASE /\ ws[k] \in Socket
           /\ received' = [received EXCEPT ![ws[k]] = Append(received[ws[k]], r)]
  <2> HIDE DEF r
  <2> DEFINE w == ws[k]
             q == received[w]
  <2>1. w \in Socket /\ received' = [received EXCEPT ![w] = Append(q, r)] /\ q \in Seq(Reply)
    BY <1>1, <1>3
  <2> HIDE DEF q
  <2>2. /\ Append(q, r) \in Seq(Reply) /\ Len(Append(q, r)) = Len(q) + 1
        /\ \A i \in 1..Len(q) : Append(q, r)[i] = q[i]
        /\ Append(q, r)[Len(q) + 1] = r
    BY <1>1, <2>1, AppendProperties
  <2>3. /\ Len(q) \in Nat /\ DOMAIN q = 1..Len(q)
        /\ DOMAIN Append(q, r) = 1..(Len(q) + 1)
    BY <2>1, <2>2, LenProperties
  <2>4. /\ received' \in [Socket -> Seq(Reply)] /\ received'[w] = Append(q, r)
        /\ \A v \in Socket : v # w => received'[v] = received[v]
    BY <1>1, <2>1, <2>2
  <2>5. \A i \in DOMAIN received'[w] :
          \/ i \in DOMAIN received[w] /\ received'[w][i] = received[w][i]
          \/ received'[w][i] = r /\ i \notin DOMAIN received[w] /\ i = Len(q) + 1
    <3>1. \A i \in 1..(Len(q) + 1) : i \in 1..Len(q) \/ (i = Len(q) + 1 /\ i \notin 1..Len(q))
      BY <2>3
    <3> QED
      BY <2>2, <2>3, <2>4, <3>1 DEF q
  <2>6. \A v \in Socket : \A i \in DOMAIN received'[v] :
          \/ i \in DOMAIN received[v] /\ received'[v][i] = received[v][i]
          \/ v = w /\ received'[v][i] = r /\ i \notin DOMAIN received[v]
    BY <2>4, <2>5
  <2>7. \A v \in Socket : \A i, j \in DOMAIN received'[v] :
          i \notin DOMAIN received[v] /\ j \notin DOMAIN received[v] => i = j
    <3>1. \A i, j \in DOMAIN received'[w] :
            i \notin DOMAIN received[w] /\ j \notin DOMAIN received[w] => i = j
      BY <2>5
    <3>2. \A v \in Socket : v # w => DOMAIN received'[v] = DOMAIN received[v]
      BY <2>4
    <3> QED
      BY <3>1, <3>2
  <2> QED
    BY <2>4, <2>6, <2>7 DEF r
<1>4. CASE received' = received \/ ws[k] \notin Socket
  <2>1. received' = received
    BY <1>1, <1>4 DEF Commands!Sends
  <2> QED
    BY <1>1, <2>1
<1> QED
  BY <1>3, <1>4 DEF Commands!Sends

\* Every step of commands keeps the types.
LEMMA CommandsTypeStep ==
  Commands!TypeOK /\ Commands!ControllersInv /\ [Commands!Next]_(Commands!vars) => Commands!TypeOK'
<1> SUFFICES ASSUME Commands!TypeOK, Commands!ControllersInv, [Commands!Next]_(Commands!vars)
             PROVE  Commands!TypeOK'
  OBVIOUS
<1> USE DEF Commands!TypeOK
<1>a. \A w \in Socket : /\ place[w] # "new" => home[w] \in Session
                        /\ place[w] = "handling" => job[w] \in Socket
  BY DEF Commands!ControllersInv, Commands!ConnectionInv, Commands!Of
<1>b. \A c \in Call : /\ cpc[c] = "json" => sid[c] \in Session
                      /\ cpc[c] = "handling" => job[c] \in Socket
  BY DEF Commands!ControllersInv, Commands!CallInv, Commands!Of
<1>r. ASSUME received' \in [Socket -> Seq(Reply)]
      PROVE  received' \in [Socket -> Seq([from : Socket \cup Call, n : Nat])]
  BY <1>r DEF Reply
<1>1. CASE UNCHANGED Commands!vars
  BY <1>1 DEF Commands!vars
<1>2. ASSUME NEW s \in Session, Commands!Register(s) PROVE Commands!TypeOK'
  <2>1. listed' \in Seq(Session)
    BY <1>2, AppendProperties DEF Commands!Register
  <2> QED
    BY <1>2, <2>1 DEF Commands!Register, Commands!links, Commands!reading, Commands!calls
<1>3. ASSUME NEW s \in Session, Commands!RemoveSession(s) PROVE Commands!TypeOK'
  <2>1. listed' \in Seq(Session)
    BY <1>3, WithoutFacts DEF Commands!RemoveSession
  <2> QED
    BY <1>3, <2>1 DEF Commands!RemoveSession, Commands!links, Commands!reading, Commands!calls
<1>4. ASSUME NEW s \in Session, Commands!Inspect(s) PROVE Commands!TypeOK'
  BY <1>4 DEF Commands!Inspect, Commands!links, Commands!reading, Commands!calls
<1>5. ASSUME NEW w \in Socket, NEW s \in Session, Commands!Connect(w, s) PROVE Commands!TypeOK'
  BY <1>5 DEF Commands!Connect, Commands!Goes, Commands!calls
<1>6. ASSUME NEW w \in Socket, Commands!Accepted(w) PROVE Commands!TypeOK'
  <2>1. home[w] \in Session
    BY <1>6, <1>a DEF Commands!Accepted
  <2>2. since' \in [Socket -> [Socket -> Nat] \cup {None}]
    BY <1>6 DEF Commands!Accepted
  <2> QED
    BY <1>6, <2>1, <2>2
       DEF Commands!Accepted, Commands!Goes, Commands!Attach, Commands!registry, Commands!calls
<1>7. ASSUME NEW w \in Socket, Commands!Message(w) PROVE Commands!TypeOK'
  <2>1. controller[home[w]] \in Socket \cup {None}
    BY <1>7, <1>a DEF Commands!Message
  <2>2. job' \in [Socket \cup Call -> Socket \cup {None}]
    BY <1>7, <2>1 DEF Commands!Message, Commands!Handles
  <2>3. /\ asked' \in [Socket -> Nat]
        /\ place' \in [Socket -> {"new", "accepting", "reading", "handling", "ended"}]
    BY <1>7 DEF Commands!Message, Commands!Goes
  <2> QED
    BY <1>7, <2>2, <2>3
       DEF Commands!Message, Commands!registry, Commands!links, Commands!calls
<1>8. ASSUME NEW w \in Socket, Commands!Handled(w) PROVE Commands!TypeOK'
  <2>1. received' \in [Socket -> Seq(Reply)]
    BY <1>8, <1>a, SendsFacts DEF Commands!Handled, Commands!RouteEnds
  <2>2. job' \in [Socket \cup Call -> Socket \cup {None}]
    BY <1>8 DEF Commands!Handled, Commands!RouteEnds
  <2> QED
    BY <1>8, <1>r, <2>1, <2>2
       DEF Commands!Handled, Commands!Goes, Commands!registry, Commands!links, Commands!calls
<1>9. ASSUME NEW w \in Socket, Commands!Closes(w) PROVE Commands!TypeOK'
  BY <1>9 DEF Commands!Closes, Commands!registry, Commands!reading, Commands!calls
<1>10. ASSUME NEW w \in Socket, Commands!Ends(w) PROVE Commands!TypeOK'
  BY <1>10 DEF Commands!Ends, Commands!Goes, Commands!registry, Commands!calls
<1>11. ASSUME NEW c \in Call, NEW k \in Commands!Command,
              \/ Commands!RestCalls(c, k) \/ Commands!StdioCalls(c, k)
              \/ \E s \in Session : Commands!McpCalls(c, s, k)
       PROVE  Commands!TypeOK'
  <2>1. /\ UNCHANGED <<listed, Commands!links, Commands!reading, job, received, changed, since>>
        /\ \/ \E s \in Session, there \in {"body", "running"} : Commands!Inject(c, s, k, there)
           \/ Commands!Over(c)
    BY <1>11, CallFacts, ZenonT(30)
  <2>2. CASE Commands!Over(c)
    BY <2>1, <2>2 DEF Commands!Over, Commands!Goto, Commands!links, Commands!reading
  <2>3. ASSUME NEW s \in Session, NEW there \in {"body", "running"}, Commands!Inject(c, s, k, there)
        PROVE  Commands!TypeOK'
    BY <2>1, <2>3 DEF Commands!Inject, Commands!Goto, Commands!links, Commands!reading
  <2> QED
    BY <2>1, <2>2, <2>3
<1>12. ASSUME NEW c \in Call, NEW s \in Session, Commands!WsSend(c, s) PROVE Commands!TypeOK'
  BY <1>12 DEF Commands!WsSend, Commands!Over, Commands!Goto, Commands!links, Commands!reading
<1>13. ASSUME NEW c \in Call, Commands!BodyArrives(c) PROVE Commands!TypeOK'
  BY <1>13 DEF Commands!BodyArrives, Commands!Goto, Commands!registry, Commands!links,
               Commands!reading
<1>14. ASSUME NEW c \in Call, Commands!StdioLists(c) PROVE Commands!TypeOK'
  <2>1. listed # <<>> => Head(listed) \in Session
    BY ReadFacts
  <2> QED
    BY <1>14, <2>1
       DEF Commands!StdioLists, Commands!SessionsListed, Commands!Over, Commands!Goto,
           Commands!registry, Commands!links, Commands!reading
<1>15. ASSUME NEW c \in Call, Commands!Finishes(c) PROVE Commands!TypeOK'
  <2>1. received' \in [Socket -> Seq(Reply)]
    <3>1. ctl[c] # None => ctl[c] \in Socket
      OBVIOUS
    <3>2. (ctl[c] # None /\ Commands!Sends(ctl[c], c, 1)) \/ UNCHANGED received
      BY <1>15 DEF Commands!Finishes
    <3>3. ASSUME UNCHANGED received PROVE received' \in [Socket -> Seq(Reply)]
      BY <3>3 DEF Reply
    <3> QED
      BY <3>1, <3>2, <3>3, SendsFacts
  <2> QED
    BY <1>15, <1>r, <2>1
       DEF Commands!Finishes, Commands!Goto, Commands!registry, Commands!links, Commands!reading
<1>16. ASSUME NEW c \in Call, Commands!Forward(c) PROVE Commands!TypeOK'
  <2>1. controller[sid[c]] \in Socket \cup {None}
    BY <1>16, <1>b DEF Commands!Forward
  <2> QED
    BY <1>16, <2>1
       DEF Commands!Forward, Commands!Handles, Commands!Goto, Commands!registry, Commands!links,
           Commands!reading
<1>17. ASSUME NEW c \in Call, Commands!Forwarded(c) PROVE Commands!TypeOK'
  <2>1. received' \in [Socket -> Seq(Reply)]
    BY <1>17, <1>b, SendsFacts DEF Commands!Forwarded, Commands!RouteEnds
  <2> QED
    BY <1>17, <1>r, <2>1
       DEF Commands!Forwarded, Commands!RouteEnds, Commands!Goto, Commands!registry,
           Commands!links, Commands!reading
<1> HIDE DEF Commands!TypeOK
<1> QED
  BY <1>1, <1>2, <1>3, <1>4, <1>5, <1>6, <1>7, <1>8, <1>9, <1>10, <1>11, <1>12, <1>13, <1>14,
     <1>15, <1>16, <1>17, CommandCases

\* A call that waits for its body keeps what it found, or is counted as changed.
LEMMA WaitingStep ==
  /\ Commands!TypeOK /\ Commands!WaitingInv /\ Commands!ControllersInv
  /\ [Commands!Next]_(Commands!vars)
  => Commands!WaitingInv'
<1> SUFFICES ASSUME Commands!TypeOK, Commands!WaitingInv, Commands!ControllersInv,
                    [Commands!Next]_(Commands!vars)
             PROVE  Commands!WaitingInv'
  OBVIOUS
<1> DEFINE Same(q) == /\ q \in Commands!ToSet(listed) => q \in Commands!ToSet(listed')
                      /\ controller'[q] = controller[q] /\ websocket'[q] = websocket[q]
<1>a. /\ websocket \in [Session -> Socket \cup {None}]
      /\ controller \in [Session -> Socket \cup {None}]
      /\ cpc \in [Call -> {"new", "listed", "body", "json", "running", "handling", "over"}]
      /\ cmd \in [Call -> Commands!Command \cup {None}]
      /\ sid \in [Call -> Session \cup {None}]
      /\ ctl \in [Call -> Socket \cup {None}]
  BY DEF Commands!TypeOK
<1>w. \A c \in Call : cpc[c] = "body" =>
        /\ cmd[c] \in Commands!Command /\ cmd[c].body /\ sid[c] \in Session
        /\ c \notin changed => /\ sid[c] \in Commands!ToSet(listed)
                               /\ ctl[c] = controller[sid[c]]
                               /\ cmd[c].socket => websocket[sid[c]] # None
  BY DEF Commands!WaitingInv, Commands!Registered, Commands!Meets
\* The waiting calls waited before, and their sessions are the same
<1>b. ASSUME \A c \in Call : cpc'[c] = "body" =>
               /\ cpc[c] = "body" /\ cmd'[c] = cmd[c] /\ sid'[c] = sid[c] /\ ctl'[c] = ctl[c]
               /\ c \notin changed' => c \notin changed /\ Same(sid[c])
      PROVE  Commands!WaitingInv'
  BY <1>b, <1>w DEF Commands!WaitingInv, Commands!Registered, Commands!Meets
\* Nothing of the sessions changes
<1>c. ASSUME UNCHANGED <<listed, websocket, controller, changed>>,
             \A c \in Call : cpc'[c] = "body" =>
               cpc[c] = "body" /\ cmd'[c] = cmd[c] /\ sid'[c] = sid[c] /\ ctl'[c] = ctl[c]
      PROVE  Commands!WaitingInv'
  BY <1>b, <1>c
\* Session s changes
<1>d. ASSUME NEW s, UNCHANGED Commands!calls, Commands!Changes(s),
             \A q \in Session : q # s => Same(q)
      PROVE  Commands!WaitingInv'
  <2> HIDE DEF Same
  <2>1. /\ cpc' = cpc /\ cmd' = cmd /\ sid' = sid /\ ctl' = ctl
        /\ changed' = changed \cup {c \in Call : cpc[c] = "body" /\ cmd[c].body /\ sid[c] = s}
    BY <1>d DEF Commands!calls, Commands!Changes
  <2> QED
    BY <1>b, <1>d, <1>w, <2>1
<1>1. CASE UNCHANGED Commands!vars
  BY <1>1, <1>c DEF Commands!vars
<1>2. ASSUME NEW s \in Session, Commands!Register(s) PROVE Commands!WaitingInv'
  <2>1. \A q \in Commands!ToSet(listed) : q \in Commands!ToSet(listed')
    <3>1. /\ listed \in Seq(Session) /\ listed' = Append(listed, s)
          /\ Len(listed) \in Nat /\ DOMAIN listed = 1..Len(listed)
      BY <1>2, LenProperties DEF Commands!Register, Commands!TypeOK
    <3>2. /\ listed' \in Seq(Session) /\ Len(listed') = Len(listed) + 1
          /\ \A i \in 1..Len(listed) : listed'[i] = listed[i]
      BY <3>1, AppendProperties
    <3>3. DOMAIN listed' = 1..(Len(listed) + 1)
      BY <3>2, LenProperties
    <3> QED
      BY <3>1, <3>2, <3>3 DEF Commands!ToSet
  <2> QED
    BY <1>2, <1>b, <2>1 DEF Commands!Register, Commands!links, Commands!calls
<1>3. ASSUME NEW s \in Session, Commands!RemoveSession(s) PROVE Commands!WaitingInv'
  <2>1. \A q \in Session : q # s => Same(q)
    <3>1. listed \in Seq(Session) /\ listed' = Commands!Without(listed, s)
      BY <1>3 DEF Commands!RemoveSession, Commands!TypeOK
    <3> QED
      BY <1>3, <3>1, WithoutFacts DEF Commands!RemoveSession, Commands!links
  <2> HIDE DEF Same
  <2> QED
    BY <1>3, <1>d, <2>1 DEF Commands!RemoveSession
<1>4. ASSUME NEW s \in Session, Commands!Inspect(s) PROVE Commands!WaitingInv'
  BY <1>4, <1>c DEF Commands!Inspect, Commands!links, Commands!calls
<1>5. ASSUME NEW w \in Socket, NEW s \in Session, Commands!Connect(w, s)
      PROVE  Commands!WaitingInv'
  BY <1>5, <1>c DEF Commands!Connect, Commands!calls
<1>6. ASSUME NEW w \in Socket, Commands!Accepted(w) PROVE Commands!WaitingInv'
  <2>1. \A q \in Session : q # home[w] => Same(q)
    BY <1>6, <1>a DEF Commands!Accepted, Commands!Attach, Commands!registry
  <2> HIDE DEF Same
  <2> QED
    BY <1>6, <1>d, <2>1 DEF Commands!Accepted
<1>7. ASSUME NEW w \in Socket, Commands!Message(w) PROVE Commands!WaitingInv'
  BY <1>7, <1>c DEF Commands!Message, Commands!registry, Commands!links, Commands!calls
<1>8. ASSUME NEW w \in Socket, Commands!Handled(w) PROVE Commands!WaitingInv'
  BY <1>8, <1>c DEF Commands!Handled, Commands!registry, Commands!links, Commands!calls
<1>9. ASSUME NEW w \in Socket, Commands!Closes(w) PROVE Commands!WaitingInv'
  BY <1>9, <1>c DEF Commands!Closes, Commands!registry, Commands!calls
<1>10. ASSUME NEW w \in Socket, Commands!Ends(w) PROVE Commands!WaitingInv'
  <2>1. \A q \in Session : q # home[w] => Same(q)
    BY <1>10, <1>a DEF Commands!Ends, Commands!registry
  <2> HIDE DEF Same
  <2> QED
    BY <1>10, <1>d, <2>1 DEF Commands!Ends
<1>11. ASSUME NEW c \in Call, NEW k \in Commands!Command,
              \/ Commands!RestCalls(c, k) \/ Commands!StdioCalls(c, k)
              \/ \E s \in Session : Commands!McpCalls(c, s, k)
       PROVE  Commands!WaitingInv'
  <2>1. /\ UNCHANGED <<listed, websocket, controller, changed>>
        /\ \/ \E s \in Session, there \in {"body", "running"} :
                /\ s \in Commands!Registered /\ Commands!Meets(s, k)
                /\ Commands!Inject(c, s, k, there)
                /\ there = "body" => k.body
           \/ Commands!Over(c)
    BY <1>11, CallFacts DEF Commands!links
  <2>2. CASE Commands!Over(c)
    BY <1>a, <1>c, <2>1, <2>2 DEF Commands!Over, Commands!Goto
  <2>3. ASSUME NEW s \in Session, NEW there \in {"body", "running"},
               s \in Commands!Registered, Commands!Meets(s, k),
               Commands!Inject(c, s, k, there), there = "body" => k.body
        PROVE  Commands!WaitingInv'
    <3>1. /\ cpc'[c] = there /\ cmd'[c] = k /\ sid'[c] = s /\ ctl'[c] = controller[s]
          /\ \A d \in Call : d # c => /\ cpc'[d] = cpc[d] /\ cmd'[d] = cmd[d]
                                      /\ sid'[d] = sid[d] /\ ctl'[d] = ctl[d]
      BY <1>a, <2>3 DEF Commands!Inject, Commands!Goto
    <3> QED
      BY <1>w, <2>1, <2>3, <3>1 DEF Commands!WaitingInv, Commands!Registered, Commands!Meets
  <2> QED
    BY <2>1, <2>2, <2>3
<1>12. ASSUME NEW c \in Call, NEW s \in Session, Commands!WsSend(c, s) PROVE Commands!WaitingInv'
  BY <1>a, <1>c, <1>12 DEF Commands!WsSend, Commands!Over, Commands!Goto, Commands!links
<1>13. ASSUME NEW c \in Call, Commands!BodyArrives(c) PROVE Commands!WaitingInv'
  BY <1>a, <1>c, <1>13 DEF Commands!BodyArrives, Commands!Goto, Commands!registry, Commands!links
<1>14. ASSUME NEW c \in Call, Commands!StdioLists(c) PROVE Commands!WaitingInv'
  BY <1>a, <1>c, <1>14
     DEF Commands!StdioLists, Commands!Over, Commands!Goto, Commands!registry, Commands!links
<1>15. ASSUME NEW c \in Call, Commands!Finishes(c) PROVE Commands!WaitingInv'
  BY <1>a, <1>c, <1>15 DEF Commands!Finishes, Commands!Goto, Commands!registry, Commands!links
<1>16. ASSUME NEW c \in Call, Commands!Forward(c) PROVE Commands!WaitingInv'
  BY <1>a, <1>c, <1>16 DEF Commands!Forward, Commands!Goto, Commands!registry, Commands!links
<1>17. ASSUME NEW c \in Call, Commands!Forwarded(c) PROVE Commands!WaitingInv'
  BY <1>a, <1>c, <1>17 DEF Commands!Forwarded, Commands!Goto, Commands!registry, Commands!links
<1> QED
  BY <1>1, <1>2, <1>3, <1>4, <1>5, <1>6, <1>7, <1>8, <1>9, <1>10, <1>11, <1>12, <1>13, <1>14,
     <1>15, <1>16, <1>17, CommandCases

\* Messages and calls stay in the hands of controllers of their sessions.
LEMMA ControllersStep ==
  Commands!TypeOK /\ Commands!ControllersInv /\ [Commands!Next]_(Commands!vars)
    => Commands!ControllersInv'
<1> SUFFICES ASSUME Commands!TypeOK, Commands!ControllersInv, [Commands!Next]_(Commands!vars)
             PROVE  Commands!ControllersInv'
  OBVIOUS
<1> DEFINE Lasts == /\ \A k \in Socket : ws[k] = k => ws'[k] = k /\ home'[k] = home[k]
                    /\ \A s \in Session : controller[s] # None => controller'[s] # None
<1>a. /\ controller \in [Session -> Socket \cup {None}]
      /\ ws \in [Socket -> Socket \cup {None}]
      /\ place \in [Socket -> {"new", "accepting", "reading", "handling", "ended"}]
      /\ home \in [Socket -> Session \cup {None}]
      /\ asked \in [Socket -> Nat]
      /\ job \in [Socket \cup Call -> Socket \cup {None}]
      /\ cpc \in [Call -> {"new", "listed", "body", "json", "running", "handling", "over"}]
      /\ sid \in [Call -> Session \cup {None}]
      /\ ctl \in [Call -> Socket \cup {None}]
      /\ since \in [Socket -> [Socket -> Nat] \cup {None}]
  BY DEF Commands!TypeOK
<1>n. /\ Socket \cap Call = {} /\ None \notin Socket /\ None \notin Session
      /\ None \notin [Socket -> Nat]
  BY CommandConstants
<1>i. /\ \A w \in Socket : Commands!ConnectionInv(w)
      /\ \A s \in Session : controller[s] # None => Commands!Of(controller[s], s)
      /\ \A c \in Call : Commands!CallInv(c)
  BY DEF Commands!ControllersInv
<1>k. \A k \in Socket : ws[k] = k =>
        /\ place[k] \notin {"new", "accepting"} /\ since[k] # None /\ since[k] \in [Socket -> Nat]
        /\ \A x \in Socket : since[k][x] <= asked[x]
  BY <1>a, <1>i, <1>n DEF Commands!ConnectionInv
\* A connection that rests is as before when the controllers last
<1>s. ASSUME NEW w \in Socket, Lasts, place'[w] = place[w], home'[w] = home[w],
             asked'[w] = asked[w], ws'[w] = ws[w], job'[w] = job[w],
             \A k \in Socket : place[k] \notin {"new", "accepting"} => since'[k] = since[k],
             since'[w] = since[w], \A x \in Socket : asked'[x] \in Nat /\ asked'[x] >= asked[x]
      PROVE  Commands!ConnectionInv(w)'
  <2>1. Commands!ConnectionInv(w)
    BY <1>i
  <2>2. ASSUME place[w] \notin {"new", "accepting"}
        PROVE  since[w] # None /\ \A x \in Socket : since[w][x] <= asked'[x]
    <3>1. since[w] # None /\ since[w] \in [Socket -> Nat] /\ \A x \in Socket : since[w][x] <= asked[x]
      BY <1>a, <2>1, <2>2 DEF Commands!ConnectionInv
    <3>2. \A x \in Socket : since[w][x] \in Nat /\ asked[x] \in Nat
      BY <1>a, <3>1
    <3> QED
      BY <1>s, <3>1, <3>2
  <2>3. ASSUME place[w] = "handling"
        PROVE  /\ Commands!Of(job[w], home[w])'
               /\ job[w] = w \/ asked[w] > since'[job[w]][w]
    BY <1>k, <1>s, <2>1, <2>3 DEF Commands!ConnectionInv, Commands!Of
  <2> QED
    BY <1>s, <2>1, <2>2, <2>3 DEF Commands!ConnectionInv
\* So is a call
<1>c. ASSUME NEW d \in Call, Lasts, cpc'[d] = cpc[d], ctl'[d] = ctl[d], sid'[d] = sid[d],
             job'[d] = job[d]
      PROVE  Commands!CallInv(d)'
  BY <1>i, <1>c DEF Commands!CallInv, Commands!Of
\* No controller changes
<1>o. ASSUME Lasts, UNCHANGED controller
      PROVE  \A s \in Session : controller'[s] # None => Commands!Of(controller[s], s)'
  BY <1>i, <1>o DEF Commands!Of
\* A connection goes on, by which no call and no controller changes
<1>b. ASSUME NEW w \in Socket, Lasts, UNCHANGED <<controller, ws, since, Commands!calls>>,
             \A x \in Socket \cup Call : x # w => job'[x] = job[x],
             \A v \in Socket : v # w =>
               place'[v] = place[v] /\ home'[v] = home[v] /\ asked'[v] = asked[v],
             asked'[w] \in Nat /\ asked'[w] >= asked[w],
             Commands!ConnectionInv(w)'
      PROVE  Commands!ControllersInv'
  <2> HIDE DEF Lasts
  <2>1. \A x \in Socket : asked'[x] \in Nat /\ asked'[x] >= asked[x]
    BY <1>a, <1>b
  <2>2. \A v \in Socket : Commands!ConnectionInv(v)'
    BY <1>b, <1>s, <2>1
  <2>3. \A d \in Call : Commands!CallInv(d)'
    BY <1>b, <1>c, <1>n DEF Commands!calls
  <2>4. \A s \in Session : controller'[s] # None => Commands!Of(controller[s], s)'
    BY <1>b, <1>o
  <2> QED
    BY <2>2, <2>3, <2>4 DEF Commands!ControllersInv
\* A call goes on, by which no connection changes
<1>d. ASSUME NEW c \in Call, UNCHANGED <<controller, ws, since, Commands!reading>>,
             \A x \in Socket \cup Call : x # c => job'[x] = job[x],
             \A d \in Call : d # c => cpc'[d] = cpc[d] /\ ctl'[d] = ctl[d] /\ sid'[d] = sid[d],
             Commands!CallInv(c)'
      PROVE  Commands!ControllersInv'
  <2>1. Lasts /\ UNCHANGED <<place, home, asked>>
    BY <1>d DEF Commands!reading
  <2> HIDE DEF Lasts
  <2>2. \A x \in Socket : asked'[x] \in Nat /\ asked'[x] >= asked[x]
    BY <1>a, <2>1
  <2>3. \A v \in Socket : Commands!ConnectionInv(v)'
    BY <1>d, <1>n, <1>s, <2>1, <2>2
  <2>4. \A d \in Call : Commands!CallInv(d)'
    BY <1>c, <1>d, <2>1
  <2>5. \A s \in Session : controller'[s] # None => Commands!Of(controller[s], s)'
    BY <1>d, <1>o, <2>1
  <2> QED
    BY <2>3, <2>4, <2>5 DEF Commands!ControllersInv
\* Nothing of the two changes
<1>e. ASSUME UNCHANGED <<controller, ws, since, job, Commands!reading, Commands!calls>>
      PROVE  Commands!ControllersInv'
  BY <1>e, <1>i
     DEF Commands!ControllersInv, Commands!ConnectionInv, Commands!CallInv, Commands!Of,
         Commands!reading, Commands!calls
<1>1. CASE UNCHANGED Commands!vars
  BY <1>1, <1>e DEF Commands!vars, Commands!reading, Commands!calls
<1>2. ASSUME NEW s \in Session, Commands!Register(s) PROVE Commands!ControllersInv'
  BY <1>2, <1>e DEF Commands!Register, Commands!links
<1>3. ASSUME NEW s \in Session, Commands!RemoveSession(s) PROVE Commands!ControllersInv'
  BY <1>3, <1>e DEF Commands!RemoveSession, Commands!links
<1>4. ASSUME NEW s \in Session, Commands!Inspect(s) PROVE Commands!ControllersInv'
  BY <1>4, <1>e DEF Commands!Inspect, Commands!links
<1>5. ASSUME NEW w \in Socket, NEW s \in Session, Commands!Connect(w, s)
      PROVE  Commands!ControllersInv'
  <2>1. /\ place[w] = "new" /\ place'[w] = "accepting" /\ home'[w] = s
        /\ UNCHANGED <<controller, ws, asked, since, job, Commands!calls>>
        /\ \A v \in Socket : v # w => place'[v] = place[v] /\ home'[v] = home[v]
    BY <1>a, <1>5 DEF Commands!Connect, Commands!Goes, Commands!calls
  <2>2. Lasts
    BY <1>k, <2>1
  <2>3. Commands!ConnectionInv(w)'
    BY <1>i, <1>n, <2>1 DEF Commands!ConnectionInv
  <2>4. asked'[w] \in Nat /\ asked'[w] >= asked[w]
    BY <1>a, <2>1
  <2> HIDE DEF Lasts
  <2> QED
    BY <1>b, <2>1, <2>2, <2>3, <2>4
<1>6. ASSUME NEW w \in Socket, Commands!Accepted(w) PROVE Commands!ControllersInv'
  <2>1. /\ place[w] = "accepting" /\ place'[w] = "reading" /\ ws'[w] = w /\ since'[w] = asked
        /\ UNCHANGED <<home, asked, job, Commands!calls>>
        /\ controller' = [controller EXCEPT ![home[w]] = w]
        /\ \A v \in Socket : v # w =>
             place'[v] = place[v] /\ ws'[v] = ws[v] /\ since'[v] = since[v]
    BY <1>a, <1>6 DEF Commands!Accepted, Commands!Goes, Commands!Attach, Commands!calls
  <2>2. home[w] \in Session /\ ws[w] = None
    BY <1>i, <2>1 DEF Commands!ConnectionInv
  <2>3. Lasts
    BY <1>a, <1>n, <2>1, <2>2
  <2>4. Commands!ConnectionInv(w)'
    BY <1>a, <1>n, <2>1, <2>2 DEF Commands!ConnectionInv
  <2>5. \A s \in Session : controller'[s] # None => Commands!Of(controller[s], s)'
    <3>1. ASSUME NEW s \in Session, controller'[s] # None PROVE Commands!Of(controller[s], s)'
      <4>1. CASE s = home[w]
        BY <1>a, <2>1, <4>1 DEF Commands!Of
      <4>2. CASE s # home[w]
        BY <1>a, <1>i, <2>1, <2>3, <3>1, <4>2 DEF Commands!Of
      <4> QED
        BY <4>1, <4>2
    <3> QED
      BY <3>1
  <2> HIDE DEF Lasts
  <2>6. \A v \in Socket : v # w => Commands!ConnectionInv(v)'
    <3>1. \A x \in Socket : asked'[x] \in Nat /\ asked'[x] >= asked[x]
      BY <1>a, <2>1
    <3>2. \A k \in Socket : place[k] \notin {"new", "accepting"} => since'[k] = since[k]
      BY <2>1
    <3> QED
      BY <1>s, <2>1, <2>3, <3>1, <3>2
  <2>7. \A d \in Call : Commands!CallInv(d)'
    BY <1>c, <2>1, <2>3 DEF Commands!calls
  <2> QED
    BY <2>4, <2>5, <2>6, <2>7 DEF Commands!ControllersInv
<1>7. ASSUME NEW w \in Socket, Commands!Message(w) PROVE Commands!ControllersInv'
  <2> DEFINE k == controller[home[w]]
  <2>1. /\ place[w] = "reading" /\ k # None /\ place'[w] = "handling"
        /\ asked'[w] = asked[w] + 1 /\ job'[w] = k
        /\ UNCHANGED <<controller, ws, since, home, Commands!calls>>
        /\ \A x \in Socket \cup Call : x # w => job'[x] = job[x]
        /\ \A v \in Socket : v # w => place'[v] = place[v] /\ asked'[v] = asked[v]
    BY <1>a, <1>7 DEF Commands!Message, Commands!Handles, Commands!Goes, Commands!links,
                      Commands!calls
  <2>2. home[w] \in Session
    BY <1>i, <2>1 DEF Commands!ConnectionInv
  <2>3. Commands!Of(k, home[w])
    BY <1>i, <2>1, <2>2
  <2>4. k \in Socket /\ ws[k] = k /\ home[k] = home[w] /\ since[k] \in [Socket -> Nat]
        /\ since[k][w] <= asked[w]
    BY <1>k, <2>3 DEF Commands!Of
  <2>5. since[k][w] \in Nat /\ asked[w] \in Nat
    BY <1>a, <2>4
  <2> HIDE DEF k
  <2>6. asked'[w] > since[k][w] /\ asked'[w] \in Nat /\ asked'[w] >= asked[w]
    BY <2>1, <2>4, <2>5
  <2>7. since[w] # None /\ \A x \in Socket : since[w][x] <= asked'[x]
    <3>1. since[w] # None /\ \A x \in Socket : since[w][x] <= asked[x]
      BY <1>i, <2>1 DEF Commands!ConnectionInv
    <3>2. \A x \in Socket : since[w][x] \in Nat /\ asked[x] \in Nat
      BY <1>a, <3>1
    <3> QED
      BY <2>1, <3>1, <3>2
  <2>8. Commands!ConnectionInv(w)'
    BY <2>1, <2>2, <2>4, <2>6, <2>7 DEF Commands!ConnectionInv, Commands!Of
  <2>9. Lasts
    BY <2>1
  <2> HIDE DEF Lasts
  <2> QED
    BY <1>b, <2>1, <2>6, <2>8, <2>9
<1>8. ASSUME NEW w \in Socket,
             \/ Commands!Handled(w) \/ Commands!Ends(w)
      PROVE  Commands!ControllersInv'
  <2>1. /\ place[w] \in {"reading", "handling"} /\ place'[w] \in {"reading", "ended"}
        /\ UNCHANGED <<controller, ws, since, home, asked, Commands!calls>>
        /\ \A x \in Socket \cup Call : x # w => job'[x] = job[x]
        /\ \A v \in Socket : v # w => place'[v] = place[v]
    BY <1>a, <1>8 DEF Commands!Handled, Commands!Ends, Commands!RouteEnds, Commands!Goes,
                      Commands!links, Commands!calls
  <2>2. Commands!ConnectionInv(w)'
    BY <1>i, <2>1 DEF Commands!ConnectionInv
  <2>3. Lasts /\ asked'[w] \in Nat /\ asked'[w] >= asked[w]
    BY <1>a, <2>1
  <2> HIDE DEF Lasts
  <2> QED
    BY <1>b, <2>1, <2>2, <2>3
<1>9. ASSUME NEW w \in Socket, Commands!Closes(w) PROVE Commands!ControllersInv'
  BY <1>9, <1>e DEF Commands!Closes
<1>11. ASSUME NEW c \in Call, NEW k \in Commands!Command,
              \/ Commands!RestCalls(c, k) \/ Commands!StdioCalls(c, k)
              \/ \E s \in Session : Commands!McpCalls(c, s, k)
       PROVE  Commands!ControllersInv'
  <2>1. /\ UNCHANGED <<controller, ws, since, job, Commands!reading>>
        /\ \/ \E s \in Session, there \in {"body", "running"} : Commands!Inject(c, s, k, there)
           \/ Commands!Over(c)
    BY <1>11, CallFacts DEF Commands!links
  <2>2. CASE Commands!Over(c)
    BY <1>a, <1>d, <2>1, <2>2 DEF Commands!Over, Commands!Goto, Commands!CallInv
  <2>3. ASSUME NEW s \in Session, NEW there \in {"body", "running"},
               Commands!Inject(c, s, k, there)
        PROVE  Commands!ControllersInv'
    <3>1. /\ cpc'[c] = there /\ sid'[c] = s /\ ctl'[c] = controller[s]
          /\ \A d \in Call : d # c => cpc'[d] = cpc[d] /\ ctl'[d] = ctl[d] /\ sid'[d] = sid[d]
      BY <1>a, <2>3 DEF Commands!Inject, Commands!Goto
    <3>2. Commands!CallInv(c)'
      BY <1>i, <2>1, <3>1 DEF Commands!CallInv, Commands!Of, Commands!reading
    <3> QED
      BY <1>d, <2>1, <3>1, <3>2
  <2> QED
    BY <2>1, <2>2, <2>3
<1>12. ASSUME NEW c \in Call, NEW s \in Session, Commands!WsSend(c, s)
       PROVE  Commands!ControllersInv'
  <2>1. /\ UNCHANGED <<controller, ws, since, job, ctl, Commands!reading>>
        /\ \A d \in Call : d # c => cpc'[d] = cpc[d] /\ sid'[d] = sid[d]
        /\ cpc'[c] = "over" \/ (cpc'[c] = "json" /\ sid'[c] = s /\ controller[s] # None)
    BY <1>a, <1>12 DEF Commands!WsSend, Commands!Over, Commands!Goto, Commands!links
  <2>2. Commands!CallInv(c)'
    BY <2>1 DEF Commands!CallInv
  <2> QED
    BY <1>d, <2>1, <2>2
<1>13. ASSUME NEW c \in Call, Commands!BodyArrives(c) PROVE Commands!ControllersInv'
  <2>1. /\ UNCHANGED <<controller, ws, since, job, ctl, sid, Commands!reading>>
        /\ \A d \in Call : d # c => cpc'[d] = cpc[d]
        /\ cpc[c] = "body" /\ cpc'[c] = "running"
    BY <1>a, <1>13 DEF Commands!BodyArrives, Commands!Goto, Commands!links
  <2>2. Commands!CallInv(c)'
    BY <1>i, <2>1 DEF Commands!CallInv, Commands!Of, Commands!reading
  <2> QED
    BY <1>d, <2>1, <2>2
<1>14. ASSUME NEW c \in Call, Commands!StdioLists(c) \/ Commands!Finishes(c)
       PROVE  Commands!ControllersInv'
  <2>1. /\ UNCHANGED <<controller, ws, since, job, Commands!reading>>
        /\ \A d \in Call : d # c => cpc'[d] = cpc[d] /\ ctl'[d] = ctl[d] /\ sid'[d] = sid[d]
        /\ cpc'[c] \in {"listed", "over"}
    BY <1>a, <1>14 DEF Commands!StdioLists, Commands!Finishes, Commands!Over, Commands!Goto,
                       Commands!links
  <2>2. Commands!CallInv(c)'
    BY <2>1 DEF Commands!CallInv
  <2> QED
    BY <1>d, <2>1, <2>2
<1>16. ASSUME NEW c \in Call, Commands!Forward(c) PROVE Commands!ControllersInv'
  <2>1. /\ UNCHANGED <<controller, ws, since, ctl, sid, Commands!reading>>
        /\ \A x \in Socket \cup Call : x # c => job'[x] = job[x]
        /\ \A d \in Call : d # c => cpc'[d] = cpc[d]
        /\ cpc[c] = "json" /\ cpc'[c] = "handling" /\ job'[c] = controller[sid[c]]
    BY <1>a, <1>16 DEF Commands!Forward, Commands!Handles, Commands!Goto, Commands!links
  <2>2. Commands!CallInv(c)'
    BY <1>i, <2>1 DEF Commands!CallInv, Commands!Of, Commands!reading
  <2> QED
    BY <1>d, <2>1, <2>2
<1>17. ASSUME NEW c \in Call, Commands!Forwarded(c) PROVE Commands!ControllersInv'
  <2>1. /\ UNCHANGED <<controller, ws, since, ctl, sid, Commands!reading>>
        /\ \A x \in Socket \cup Call : x # c => job'[x] = job[x]
        /\ \A d \in Call : d # c => cpc'[d] = cpc[d]
        /\ cpc'[c] = "over"
    BY <1>a, <1>17 DEF Commands!Forwarded, Commands!RouteEnds, Commands!Goto, Commands!links
  <2>2. Commands!CallInv(c)'
    BY <2>1 DEF Commands!CallInv
  <2> QED
    BY <1>d, <2>1, <2>2
<1> QED
  BY <1>1, <1>2, <1>3, <1>4, <1>5, <1>6, <1>7, <1>8, <1>9, <1>11, <1>12, <1>13, <1>14, <1>16,
     <1>17, CommandCases

\* What a reply was judged by stays: when a connection was accepted, whose it
\* is, how often its browser asked, and which calls are over.
Endures ==
  /\ \A w \in Socket :
       /\ since[w] # None => since'[w] = since[w] /\ place[w] # "new"
       /\ place[w] # "new" => place'[w] # "new" /\ home'[w] = home[w]
       /\ asked[w] \in Nat /\ asked'[w] \in Nat /\ asked'[w] >= asked[w]
       /\ place'[w] = "handling" => \/ place[w] = "handling" /\ asked'[w] = asked[w]
                                    \/ asked'[w] = asked[w] + 1
  /\ \A c \in Call : cpc[c] = "over" => cpc'[c] = "over" /\ sid'[c] = sid[c]

\* No step of commands changes it.
LEMMA LastingFacts ==
  ASSUME Commands!TypeOK, Commands!ControllersInv, [Commands!Next]_(Commands!vars)
  PROVE  Endures
<1> USE DEF Endures
<1>a. /\ place \in [Socket -> {"new", "accepting", "reading", "handling", "ended"}]
      /\ home \in [Socket -> Session \cup {None}]
      /\ asked \in [Socket -> Nat]
      /\ cpc \in [Call -> {"new", "listed", "body", "json", "running", "handling", "over"}]
      /\ sid \in [Call -> Session \cup {None}]
      /\ since \in [Socket -> [Socket -> Nat] \cup {None}]
  BY DEF Commands!TypeOK
<1>i. \A w \in Socket : since[w] # None => place[w] \notin {"new", "accepting"}
  BY DEF Commands!ControllersInv, Commands!ConnectionInv
<1>b. ASSUME UNCHANGED <<since, Commands!reading>>,
             \A c \in Call : cpc[c] = "over" => cpc'[c] = "over" /\ sid'[c] = sid[c]
      PROVE  Endures
  BY <1>a, <1>b, <1>i DEF Commands!reading
<1>1. CASE UNCHANGED Commands!vars
  BY <1>1, <1>b DEF Commands!vars, Commands!reading
<1>2. ASSUME NEW s \in Session,
             Commands!Register(s) \/ Commands!RemoveSession(s) \/ Commands!Inspect(s)
      PROVE  Endures
  BY <1>2, <1>b DEF Commands!Register, Commands!RemoveSession, Commands!Inspect, Commands!calls
<1>5. ASSUME NEW w \in Socket, NEW s \in Session, Commands!Connect(w, s) PROVE Endures
  BY <1>a, <1>5, <1>i DEF Commands!Connect, Commands!Goes, Commands!calls
<1>6. ASSUME NEW w \in Socket, Commands!Accepted(w) PROVE Endures
  BY <1>a, <1>6, <1>i DEF Commands!Accepted, Commands!Goes, Commands!calls
<1>7. ASSUME NEW w \in Socket, Commands!Message(w) PROVE Endures
  <2>1. /\ place[w] = "reading" /\ place'[w] = "handling" /\ asked'[w] = asked[w] + 1
        /\ UNCHANGED <<since, home, Commands!calls>>
        /\ \A v \in Socket : v # w => place'[v] = place[v] /\ asked'[v] = asked[v]
    BY <1>a, <1>7 DEF Commands!Message, Commands!Goes, Commands!calls
  <2> QED
    BY <1>a, <1>i, <2>1 DEF Commands!calls
<1>8. ASSUME NEW w \in Socket, Commands!Handled(w) \/ Commands!Ends(w) PROVE Endures
  <2>1. /\ place[w] # "new" /\ place'[w] \in {"reading", "ended"}
        /\ UNCHANGED <<since, home, asked, Commands!calls>>
        /\ \A v \in Socket : v # w => place'[v] = place[v]
    BY <1>a, <1>8 DEF Commands!Handled, Commands!Ends, Commands!Goes, Commands!calls
  <2> QED
    BY <1>a, <1>i, <2>1 DEF Commands!calls
<1>9. ASSUME NEW w \in Socket, Commands!Closes(w) PROVE Endures
  BY <1>9, <1>b DEF Commands!Closes, Commands!calls
<1>11. ASSUME NEW c \in Call, NEW k \in Commands!Command,
              \/ Commands!RestCalls(c, k) \/ Commands!StdioCalls(c, k)
              \/ \E s \in Session : Commands!McpCalls(c, s, k)
       PROVE  Endures
  <2>1. /\ UNCHANGED <<since, Commands!reading>> /\ cpc[c] # "over"
        /\ \/ \E s \in Session, there \in {"body", "running"} : Commands!Inject(c, s, k, there)
           \/ Commands!Over(c)
    BY <1>11, CallFacts
  <2>2. \A d \in Call : d # c => cpc'[d] = cpc[d] /\ sid'[d] = sid[d]
    BY <1>a, <2>1 DEF Commands!Inject, Commands!Over, Commands!Goto
  <2> QED
    BY <1>b, <2>1, <2>2
<1>12. ASSUME NEW c \in Call, NEW s \in Session, Commands!WsSend(c, s) PROVE Endures
  BY <1>a, <1>b, <1>12 DEF Commands!WsSend, Commands!Over, Commands!Goto
<1>13. ASSUME NEW c \in Call, Commands!BodyArrives(c) \/ Commands!StdioLists(c) PROVE Endures
  BY <1>a, <1>b, <1>13 DEF Commands!BodyArrives, Commands!StdioLists, Commands!Over, Commands!Goto
<1>14. ASSUME NEW c \in Call,
              Commands!Finishes(c) \/ Commands!Forward(c) \/ Commands!Forwarded(c)
       PROVE  Endures
  BY <1>a, <1>b, <1>14 DEF Commands!Finishes, Commands!Forward, Commands!Forwarded, Commands!Goto
<1> HIDE DEF Endures
<1> QED
  BY <1>1, <1>2, <1>5, <1>6, <1>7, <1>8, <1>9, <1>11, <1>12, <1>13, <1>14, CommandCases

\* Proper after the step, of a reply that was there before
ProperThen(r, w) ==
  /\ since'[w] # None
  /\ r.from \in Socket =>
       /\ place'[r.from] # "new" /\ r.n <= asked'[r.from]
       /\ place'[r.from] = "handling" => r.n < asked'[r.from]
       /\ home'[r.from] = home'[w] /\ (r.from = w \/ r.n > since'[w][r.from])
  /\ r.from \in Call => cpc'[r.from] = "over" /\ sid'[r.from] = home'[w]

\* A reply that stood where it should still does.
LEMMA ProperLasts ==
  ASSUME Commands!TypeOK, Commands!ControllersInv, [Commands!Next]_(Commands!vars)
  PROVE  \A w \in Socket : \A r \in Reply : Commands!Proper(r, w) => ProperThen(r, w)
<1> SUFFICES ASSUME NEW w \in Socket, NEW r \in Reply, Commands!Proper(r, w)
             PROVE  ProperThen(r, w)
  OBVIOUS
<1>1. /\ since[w] # None /\ since'[w] = since[w] /\ home'[w] = home[w]
      /\ r.n \in Nat
  BY LastingFacts DEF Endures, Commands!Proper, Reply
<1>2. ASSUME r.from \in Socket
      PROVE  /\ place'[r.from] # "new" /\ r.n <= asked'[r.from]
             /\ place'[r.from] = "handling" => r.n < asked'[r.from]
             /\ home'[r.from] = home'[w] /\ (r.from = w \/ r.n > since'[w][r.from])
  <2>1. /\ place[r.from] # "new" /\ r.n <= asked[r.from]
        /\ place[r.from] = "handling" => r.n < asked[r.from]
        /\ home[r.from] = home[w] /\ (r.from = w \/ r.n > since[w][r.from])
    BY <1>2 DEF Commands!Proper
  <2> DEFINE v == r.from
             n == r.n
  <2>2. /\ asked[v] \in Nat /\ asked'[v] \in Nat /\ asked'[v] >= asked[v] /\ n \in Nat
        /\ place'[v] # "new" /\ home'[v] = home[v]
        /\ place'[v] = "handling" => \/ place[v] = "handling" /\ asked'[v] = asked[v]
                                     \/ asked'[v] = asked[v] + 1
    BY <1>1, <1>2, <2>1, LastingFacts DEF Endures
  <2>3. n <= asked'[v] /\ (place'[v] = "handling" => n < asked'[v])
    <3>1. n <= asked[v] /\ (place[v] = "handling" => n < asked[v])
      BY <2>1
    <3> HIDE DEF n, v
    <3> QED
      BY <2>2, <3>1
  <2> QED
    BY <1>1, <2>1, <2>2, <2>3
<1>3. r.from \in Call => cpc'[r.from] = "over" /\ sid'[r.from] = home'[w]
  BY <1>1, LastingFacts DEF Endures, Commands!Proper
<1> QED
  BY <1>1, <1>2, <1>3 DEF ProperThen

\* A browser hears only what it should, and nothing twice, after every step.
LEMMA RepliesStep ==
  Commands!CommandsInv /\ [Commands!Next]_(Commands!vars) => Commands!RepliesInv'
<1> SUFFICES ASSUME Commands!CommandsInv, [Commands!Next]_(Commands!vars)
             PROVE  Commands!RepliesInv'
  OBVIOUS
<1>a. Commands!TypeOK /\ Commands!ControllersInv /\ Commands!RepliesInv
  BY DEF Commands!CommandsInv
<1>t. /\ received \in [Socket -> Seq(Reply)]
      /\ \A w \in Socket : \A i \in DOMAIN received[w] : received[w][i] \in Reply
  <2>1. received \in [Socket -> Seq(Reply)]
    BY <1>a DEF Commands!TypeOK, Reply
  <2>2. ASSUME NEW q \in Seq(Reply) PROVE \A i \in DOMAIN q : q[i] \in Reply
    BY ElementOfSeq, LenProperties
  <2> QED
    BY <2>1, <2>2
<1>n. Socket \cap Call = {} /\ None \notin Socket
  BY CommandConstants
<1>p. \A w \in Socket : \A i \in DOMAIN received[w] : ProperThen(received[w][i], w)
  <2>1. \A w \in Socket : \A i \in DOMAIN received[w] : Commands!Proper(received[w][i], w)
    BY <1>a DEF Commands!RepliesInv
  <2> QED
    BY <1>a, <1>t, <2>1, ProperLasts
<1>o. \A w \in Socket : \A i, j \in DOMAIN received[w] :
        i # j /\ received[w][i].from = w /\ received[w][j].from = w
        => received[w][i].n # received[w][j].n
  BY <1>a DEF Commands!RepliesInv
<1>u. ASSUME \A w \in Socket : \A i \in DOMAIN received'[w] : ProperThen(received'[w][i], w),
             \A w \in Socket : \A i, j \in DOMAIN received'[w] :
               i # j /\ received'[w][i].from = w /\ received'[w][j].from = w
               => received'[w][i].n # received'[w][j].n
      PROVE  Commands!RepliesInv'
  BY <1>u DEF Commands!RepliesInv, Commands!Proper, ProperThen
\* Nothing is sent
<1>c. ASSUME UNCHANGED received PROVE Commands!RepliesInv'
  BY <1>c, <1>o, <1>p, <1>u
\* Controller k sends a reply that is proper, and new to it
<1>b. ASSUME NEW k \in Socket, NEW x \in Socket \cup Call, NEW n \in Nat, ws[k] = k,
             Commands!Sends(k, x, n) \/ UNCHANGED received,
             ProperThen([from |-> x, n |-> n], k),
             x = k => \A i \in DOMAIN received[k] : received[k][i].from = k => received[k][i].n # n
      PROVE  Commands!RepliesInv'
  <2> DEFINE new == [from |-> x, n |-> n]
             Old(w, i) == i \in DOMAIN received[w] /\ received'[w][i] = received[w][i]
             New(w, i) == w = k /\ received'[w][i] = new /\ i \notin DOMAIN received[w]
  <2>1. /\ \A w \in Socket : \A i \in DOMAIN received'[w] : Old(w, i) \/ New(w, i)
        /\ \A w \in Socket : \A i, j \in DOMAIN received'[w] :
             i \notin DOMAIN received[w] /\ j \notin DOMAIN received[w] => i = j
    BY <1>a, <1>b, SendsFacts
  <2>2. new.from = x /\ new.n = n /\ ProperThen(new, k)
    BY <1>b
  <2> HIDE DEF new
  <2>3. \A w \in Socket : \A i \in DOMAIN received'[w] : ProperThen(received'[w][i], w)
    BY <1>p, <2>1, <2>2
  <2>4. ASSUME NEW w \in Socket, NEW i \in DOMAIN received'[w], NEW j \in DOMAIN received'[w],
               i # j, received'[w][i].from = w, received'[w][j].from = w
        PROVE  received'[w][i].n # received'[w][j].n
    <3>1. CASE Old(w, i) /\ Old(w, j)
      BY <1>o, <2>4, <3>1
    <3>2. CASE Old(w, i) /\ New(w, j)
      BY <1>b, <2>2, <2>4, <3>2
    <3>3. CASE New(w, i) /\ Old(w, j)
      BY <1>b, <2>2, <2>4, <3>3
    <3>4. CASE New(w, i) /\ New(w, j)
      BY <2>1, <2>4, <3>4
    <3> QED
      BY <2>1, <3>1, <3>2, <3>3, <3>4
  <2> QED
    BY <1>u, <2>3, <2>4
\* A call that ends tells the browser of its session
<1>d. ASSUME NEW c \in Call, NEW k \in Socket, Commands!Of(k, sid[c]), UNCHANGED sid,
             cpc'[c] = "over", Commands!Sends(k, c, 1) \/ UNCHANGED received
      PROVE  Commands!RepliesInv'
  <2>1. ws[k] = k /\ home[k] = sid[c] /\ since[k] # None
    <3>1. ws[k] = k /\ home[k] = sid[c]
      BY <1>d DEF Commands!Of
    <3>2. since[k] # None
      BY <1>a, <1>n, <3>1 DEF Commands!ControllersInv, Commands!ConnectionInv, Commands!TypeOK
    <3> QED
      BY <3>1, <3>2
  <2>2. since'[k] = since[k] /\ home'[k] = home[k]
    BY <1>a, <2>1, LastingFacts DEF Endures
  <2>3. c \notin Socket /\ c # k
    BY <1>d, <1>n
  <2>4. ProperThen([from |-> c, n |-> 1], k)
    BY <1>d, <2>1, <2>2, <2>3 DEF ProperThen
  <2> QED
    BY <1>b, <1>d, <2>1, <2>3, <2>4
<1>1. CASE UNCHANGED Commands!vars
  BY <1>1, <1>c DEF Commands!vars
<1>2. ASSUME NEW s \in Session,
             Commands!Register(s) \/ Commands!RemoveSession(s) \/ Commands!Inspect(s)
      PROVE  Commands!RepliesInv'
  BY <1>2, <1>c DEF Commands!Register, Commands!RemoveSession, Commands!Inspect
<1>3. ASSUME NEW w \in Socket,
             \/ \E s \in Session : Commands!Connect(w, s)
             \/ Commands!Accepted(w) \/ Commands!Message(w) \/ Commands!Closes(w) \/ Commands!Ends(w)
      PROVE  Commands!RepliesInv'
  BY <1>3, <1>c DEF Commands!Connect, Commands!Accepted, Commands!Message, Commands!Closes,
                    Commands!Ends
<1>4. ASSUME NEW w \in Socket, Commands!Handled(w) PROVE Commands!RepliesInv'
  <2> DEFINE k == job[w]
             n == asked[w]
  <2>1. /\ place[w] = "handling" /\ place'[w] = "reading" /\ UNCHANGED <<home, asked, since>>
        /\ Commands!Sends(k, w, n) \/ UNCHANGED received
    BY <1>a, <1>4 DEF Commands!Handled, Commands!Goes, Commands!RouteEnds, Commands!TypeOK
  <2>2. Commands!Of(k, home[w]) /\ (k = w \/ n > since[k][w]) /\ n \in Nat
    BY <1>a, <2>1 DEF Commands!ControllersInv, Commands!ConnectionInv, Commands!TypeOK
  <2>3. k \in Socket /\ ws[k] = k /\ home[k] = home[w]
    BY <2>2 DEF Commands!Of
  <2>4. since[k] # None
    BY <1>a, <1>n, <2>3 DEF Commands!ControllersInv, Commands!ConnectionInv, Commands!TypeOK
  <2>5. k = w => \A i \in DOMAIN received[w] : received[w][i].from = w => received[w][i].n # n
    <3> SUFFICES ASSUME NEW i \in DOMAIN received[w], received[w][i].from = w
                 PROVE  received[w][i].n # n
      OBVIOUS
    <3>1. received[w][i].n < n /\ received[w][i].n \in Nat
      BY <1>a, <1>t, <2>1 DEF Commands!RepliesInv, Commands!Proper, Reply
    <3> QED
      BY <2>2, <3>1
  <2> HIDE DEF k
  <2>6. ProperThen([from |-> w, n |-> n], k)
    <3>1. w \notin Call
      BY <1>n
    <3>2. n <= asked'[w]
      BY <2>1, <2>2
    <3> QED
      BY <2>1, <2>2, <2>3, <2>4, <3>1, <3>2 DEF ProperThen
  <2> HIDE DEF n
  <2> QED
    BY <1>b, <2>1, <2>2, <2>3, <2>5, <2>6
<1>5. ASSUME NEW c \in Call, NEW k \in Commands!Command,
             \/ Commands!RestCalls(c, k) \/ Commands!StdioCalls(c, k)
             \/ \E s \in Session : Commands!McpCalls(c, s, k)
      PROVE  Commands!RepliesInv'
  BY <1>5, <1>a, <1>c, CallFacts
<1>6. ASSUME NEW c \in Call,
             \/ \E s \in Session : Commands!WsSend(c, s)
             \/ Commands!BodyArrives(c) \/ Commands!StdioLists(c) \/ Commands!Forward(c)
      PROVE  Commands!RepliesInv'
  BY <1>6, <1>c DEF Commands!WsSend, Commands!BodyArrives, Commands!StdioLists, Commands!Forward
<1>7. ASSUME NEW c \in Call, Commands!Finishes(c) PROVE Commands!RepliesInv'
  <2>1. /\ cpc[c] = "running" /\ cpc'[c] = "over" /\ UNCHANGED sid
        /\ (ctl[c] # None /\ Commands!Sends(ctl[c], c, 1)) \/ UNCHANGED received
    BY <1>a, <1>7 DEF Commands!Finishes, Commands!Goto, Commands!TypeOK
  <2>2. CASE ctl[c] # None
    <3>1. Commands!Of(ctl[c], sid[c]) /\ ctl[c] \in Socket
      BY <1>a, <2>1, <2>2 DEF Commands!ControllersInv, Commands!CallInv, Commands!Of
    <3> QED
      BY <1>d, <2>1, <3>1
  <2> QED
    BY <1>c, <2>1, <2>2
<1>8. ASSUME NEW c \in Call, Commands!Forwarded(c) PROVE Commands!RepliesInv'
  <2>1. /\ cpc[c] = "handling" /\ cpc'[c] = "over" /\ UNCHANGED sid
        /\ Commands!Sends(job[c], c, 1) \/ UNCHANGED received
    BY <1>a, <1>8 DEF Commands!Forwarded, Commands!RouteEnds, Commands!Goto, Commands!TypeOK
  <2>2. Commands!Of(job[c], sid[c]) /\ job[c] \in Socket
    BY <1>a, <2>1 DEF Commands!ControllersInv, Commands!CallInv, Commands!Of
  <2> QED
    BY <1>d, <2>1, <2>2
<1> HIDE DEF Commands!RepliesInv
<1> QED
  BY <1>1, <1>2, <1>3, <1>4, <1>5, <1>6, <1>7, <1>8, CommandCases

\* Nothing is registered, connected or called at first.
LEMMA CommandsInit == Commands!Init => Commands!CommandsInv
<1> SUFFICES ASSUME Commands!Init PROVE Commands!CommandsInv
  OBVIOUS
<1> USE DEF Commands!Init
<1>1. /\ listed \in Seq(Session)
      /\ received \in [Socket -> Seq([from : Socket \cup Call, n : Nat])]
  BY EmptySeq
<1>2. Commands!TypeOK
  BY <1>1 DEF Commands!TypeOK
<1>3. Commands!WaitingInv
  BY DEF Commands!WaitingInv
<1>4. Commands!ControllersInv
  BY DEF Commands!ControllersInv, Commands!ConnectionInv, Commands!CallInv
<1>5. \A w \in Socket : DOMAIN received[w] = {}
  OBVIOUS
<1>6. Commands!RepliesInv
  BY <1>5 DEF Commands!RepliesInv
<1> QED
  BY <1>2, <1>3, <1>4, <1>6 DEF Commands!CommandsInv

\* Commands never leave the invariant.
LEMMA CommandsInvariance == ServicesSpec => [](part = "commands" => Commands!CommandsInv)
<1> DEFINE Inv == part = "commands" => Commands!CommandsInv
<1>1. ServicesInit => Inv
  BY CommandsInit DEF ServicesInit
<1>2. Inv /\ [ServicesNext]_all => Inv'
  <2> SUFFICES ASSUME Inv, [ServicesNext]_all, part' = "commands" PROVE Commands!CommandsInv'
    OBVIOUS
  <2>1. part = "commands" /\ [Commands!Next]_(Commands!vars)
    BY DEF ServicesNext, all, commands, Commands!vars
  <2>2. /\ Commands!CommandsInv /\ Commands!TypeOK /\ Commands!WaitingInv
        /\ Commands!ControllersInv
    BY <2>1 DEF Commands!CommandsInv
  <2>3. /\ Commands!TypeOK' /\ Commands!WaitingInv' /\ Commands!ControllersInv'
        /\ Commands!RepliesInv'
    BY <2>1, <2>2, CommandsTypeStep, WaitingStep, ControllersStep, RepliesStep
  <2> QED
    BY <2>3 DEF Commands!CommandsInv
<1> QED
  BY <1>1, <1>2, PTL DEF ServicesSpec

\* No browser hears of another session, one of its messages answered twice, or
\* an answer to what another connection asked before it came.
THEOREM ReplySafety == ServicesSpec => []RepliesGoToTheAsker
<1>1. (part = "commands" => Commands!CommandsInv) => RepliesGoToTheAsker
  <2> SUFFICES ASSUME Commands!TypeOK, Commands!RepliesInv PROVE Commands!RepliesGoToTheAsker
    BY DEF Commands!CommandsInv, RepliesGoToTheAsker
  <2>1. \A w \in Socket : \A i \in DOMAIN received[w] :
          received[w][i].from \in Socket \cup Call
    <3>1. received \in [Socket -> Seq(Reply)]
      BY DEF Commands!TypeOK, Reply
    <3>2. ASSUME NEW q \in Seq(Reply) PROVE \A i \in DOMAIN q : q[i].from \in Socket \cup Call
      <4>1. \A i \in DOMAIN q : q[i] \in Reply
        BY ElementOfSeq, LenProperties
      <4> QED
        BY <4>1 DEF Reply
    <3> QED
      BY <3>1, <3>2
  <2> QED
    BY <2>1 DEF Commands!RepliesInv, Commands!Proper, Commands!RepliesGoToTheAsker
<1> QED
  BY <1>1, CommandsInvariance, PTL

\* The handler of a command begins with a registered session, the connection
\* its command requires and the controller of that session, unless the session
\* changed while the body was awaited.
THEOREM MeetingSafety == ServicesSpec => CommandMeetsItsSession
<1> DEFINE Meets == part = "commands" => \A c \in Call : Commands!Begins(c) => Commands!Meeting(c)
<1>1. (part = "commands" => Commands!CommandsInv) /\ [ServicesNext]_all => [Meets]_<<part, commands>>
  <2> SUFFICES ASSUME part = "commands", Commands!CommandsInv, Commands!Next,
                      NEW c \in Call, Commands!Begins(c)
               PROVE  Commands!Meeting(c)
    BY DEF ServicesNext, all, commands
  <2>a. Commands!TypeOK /\ Commands!WaitingInv
    BY DEF Commands!CommandsInv
  <2>b. /\ cpc \in [Call -> {"new", "listed", "body", "json", "running", "handling", "over"}]
        /\ cmd \in [Call -> Commands!Command \cup {None}]
        /\ sid \in [Call -> Session \cup {None}]
        /\ ctl \in [Call -> Socket \cup {None}]
        /\ cpc[c] # "running" /\ cpc'[c] = "running"
    BY <2>a DEF Commands!TypeOK, Commands!Begins
  \* The body arrives
  <2>1. ASSUME NEW d \in Call, Commands!BodyArrives(d) PROVE Commands!Meeting(c)
    <3>1. cpc[c] = "body" /\ UNCHANGED <<cmd, sid, ctl>>
      BY <2>1, <2>b DEF Commands!BodyArrives, Commands!Goto
    <3> QED
      BY <2>a, <3>1 DEF Commands!WaitingInv, Commands!Meeting
  \* A tool is called
  <2>2. ASSUME NEW d \in Call, NEW k \in Commands!Command,
               \/ Commands!RestCalls(d, k) \/ Commands!StdioCalls(d, k)
               \/ \E s \in Session : Commands!McpCalls(d, s, k)
        PROVE  Commands!Meeting(c)
    <3>1. \/ \E s \in Session, there \in {"body", "running"} :
               /\ s \in Commands!Registered /\ Commands!Meets(s, k)
               /\ Commands!Inject(d, s, k, there)
          \/ Commands!Over(d)
      BY <2>a, <2>2, CallFacts
    <3>2. \A e \in Call : e # d => cpc'[e] = cpc[e]
      BY <2>b, <3>1 DEF Commands!Inject, Commands!Over, Commands!Goto
    <3>3. d = c
      BY <2>b, <3>2
    <3>4. ~Commands!Over(d)
      BY <2>b, <3>3 DEF Commands!Over, Commands!Goto
    <3>5. PICK s \in Session, there \in {"body", "running"} :
            /\ s \in Commands!Registered /\ Commands!Meets(s, k)
            /\ Commands!Inject(d, s, k, there)
      BY <3>1, <3>4
    <3>6. sid'[c] = s /\ ctl'[c] = controller[s] /\ cmd'[c] = k
      BY <2>b, <3>3, <3>5 DEF Commands!Inject
    <3> QED
      BY <3>5, <3>6 DEF Commands!Meeting
  \* No other step makes a handler begin
  <2>3. \/ \E d \in Call : Commands!BodyArrives(d)
        \/ \E d \in Call, k \in Commands!Command :
             \/ Commands!RestCalls(d, k) \/ Commands!StdioCalls(d, k)
             \/ \E s \in Session : Commands!McpCalls(d, s, k)
    <3>1. ASSUME NEW s \in Session,
                 Commands!Register(s) \/ Commands!RemoveSession(s) \/ Commands!Inspect(s)
          PROVE  FALSE
      BY <2>b, <3>1 DEF Commands!Register, Commands!RemoveSession, Commands!Inspect, Commands!calls
    <3>2. ASSUME NEW w \in Socket,
                 \/ \E s \in Session : Commands!Connect(w, s)
                 \/ Commands!Accepted(w) \/ Commands!Message(w) \/ Commands!Handled(w)
                 \/ Commands!Closes(w) \/ Commands!Ends(w)
          PROVE  FALSE
      BY <2>b, <3>2 DEF Commands!Connect, Commands!Accepted, Commands!Message, Commands!Handled,
                        Commands!Closes, Commands!Ends, Commands!calls
    <3>3. ASSUME NEW d \in Call,
                 \/ \E s \in Session : Commands!WsSend(d, s)
                 \/ Commands!StdioLists(d) \/ Commands!Finishes(d)
                 \/ Commands!Forward(d) \/ Commands!Forwarded(d)
          PROVE  FALSE
      BY <2>b, <3>3 DEF Commands!WsSend, Commands!StdioLists, Commands!Finishes, Commands!Forward,
                        Commands!Forwarded, Commands!Over, Commands!Goto
    <3> QED
      BY <3>1, <3>2, <3>3 DEF Commands!Next
  <2> QED
    BY <2>1, <2>2, <2>3
<1> QED
  BY <1>1, CommandsInvariance, PTL DEF ServicesSpec, CommandMeetsItsSession

-----------------------------------------------------------------------------
(* Secure sessions *)

\* A step of the host or of a page is one of these.
LEMMA SecureCases ==
  ASSUME NEW P,
         [Secure!Next]_(Secure!vars),
         UNCHANGED Secure!vars => P,
         \A s \in Tab : Secure!Hello(s) => P,
         \A s \in Tab : Secure!TakeResponse(s) => P,
         \A s \in Tab : Secure!SendFrame(s) => P,
         \A s \in Tab : Secure!PageCloses(s) => P,
         \A s \in Tab : \A c \in Code : Secure!EnterCode(s, c) => P,
         Secure!Receive => P,
         Secure!Respond => P,
         Secure!Establish => P,
         Secure!Forward => P,
         Secure!LoseLink => P,
         Secure!SendRaises => P,
         Secure!StopHost => P,
         \A i \in HostKey : \A c \in Code : Secure!Reconnect(i, c) => P
  PROVE  P
BY DEF Secure!Next

\* Key is a key, and names its session, identity and code.
LEMMA KeyFacts ==
  /\ \A s \in Tab, i \in HostKey, c \in Code :
       /\ Secure!Key(s, i, c) \in Secure!Keys /\ Secure!Key(s, i, c) # None
       /\ Secure!Key(s, i, c).identity = i
  /\ \A s \in Tab, i, j \in HostKey, c, d \in Code :
       Secure!Key(s, i, c) = Secure!Key(s, j, d) => i = j /\ c = d
<1>1. \A s \in Tab, i \in HostKey, c \in Code : Secure!Key(s, i, c) \in Secure!Keys
  BY DEF Secure!Key, Secure!Keys
<1>2. \A s \in Tab, i, j \in HostKey, c, d \in Code :
        Secure!Key(s, i, c) = Secure!Key(s, j, d) => i = j /\ c = d
  BY DEF Secure!Key
<1> QED
  BY <1>1, <1>2, SecureAssumption DEF Secure!ConstantsAssumption, Secure!Key

\* An entry of the host is not None, and SessionOf finds it or a fresh one.
LEMMA SessionFacts ==
  ASSUME keyed \in [Tab -> Secure!Sessions \cup {None}], NEW s \in Tab
  PROVE  /\ Secure!SessionOf(s) \in Secure!Sessions
         /\ Secure!SessionOf(s) # None
         /\ keyed[s] # None => Secure!SessionOf(s) = keyed[s]
         /\ keyed[s] = None => /\ Secure!SessionOf(s).key = None
                               /\ Secure!SessionOf(s).fired = FALSE
<1>1. Secure!Fresh \in Secure!Sessions /\ None \notin Secure!Sessions
  BY SecureAssumption DEF Secure!ConstantsAssumption, Secure!Sessions, Secure!Fresh
<1>2. CASE keyed[s] = None
  BY <1>1, <1>2 DEF Secure!SessionOf, Secure!Fresh
<1>3. CASE keyed[s] # None
  BY <1>1, <1>3 DEF Secure!SessionOf
<1> QED
  BY <1>2, <1>3

Frame == [sid : Tab, kind : {"H", "A", "C"}, key : Secure!Keys \cup {None}]

\* A frame that is sent is the last of those under way.
LEMMA SendFacts ==
  ASSUME toHost \in Seq(Frame), NEW s \in Tab, NEW kind \in {"H", "A", "C"},
         NEW key \in Secure!Keys \cup {None}, Secure!Send(s, kind, key)
  PROVE  /\ toHost' \in Seq(Frame)
         /\ toHost' # <<>>
         /\ Len(toHost) \in Nat /\ DOMAIN toHost = 1..Len(toHost)
         /\ DOMAIN toHost' = 1..(Len(toHost) + 1)
         /\ \A i \in DOMAIN toHost : i \in DOMAIN toHost' /\ toHost'[i] = toHost[i]
         /\ toHost'[Len(toHost) + 1] = [sid |-> s, kind |-> kind, key |-> key]
<1> DEFINE f == [sid |-> s, kind |-> kind, key |-> key]
<1>1. f \in Frame /\ toHost' = Append(toHost, f)
  BY DEF Secure!Send, Frame
<1> HIDE DEF f
<1>2. /\ toHost' \in Seq(Frame) /\ Len(toHost') = Len(toHost) + 1
      /\ \A i \in 1..Len(toHost) : toHost'[i] = toHost[i]
      /\ toHost'[Len(toHost) + 1] = f
  BY <1>1, AppendProperties
<1>3. /\ Len(toHost) \in Nat /\ DOMAIN toHost = 1..Len(toHost) /\ DOMAIN toHost' = 1..Len(toHost')
  BY <1>2, LenProperties
<1>4. toHost' # <<>>
  BY <1>2, <1>3, EmptySeq
<1> QED
  BY <1>2, <1>3, <1>4 DEF f

\* A frame the host understands is of a page whose session it keeps with the
\* key of that page.
LEMMA OpenedFrame ==
  ASSUME Secure!TypeOK, Secure!FramesInv, toHost # <<>>,
         Head(toHost).kind = "A", Secure!Decrypts(Head(toHost))
  PROVE  LET s == Head(toHost).sid
         IN /\ s \in Tab /\ keyed[s] # None /\ Secure!SessionOf(s) = keyed[s]
            /\ keyed[s].key # None /\ keyed[s].key = Head(toHost).key /\ keyed[s].key = pkey[s]
            /\ ppc[s] \in {"secure", "closed"}
<1> DEFINE f == Head(toHost)
<1>1. toHost \in Seq(Frame) /\ keyed \in [Tab -> Secure!Sessions \cup {None}]
  BY DEF Secure!TypeOK, Frame
<1>2. f \in Frame /\ f = toHost[1] /\ 1 \in DOMAIN toHost
  BY <1>1, ReadFacts
<1>3. f.sid \in Tab /\ f.key = pkey[f.sid] /\ f.key # None /\ ppc[f.sid] \in {"secure", "closed"}
  BY <1>2 DEF Secure!FramesInv, Secure!Sound, Frame
<1>4. Secure!SessionOf(f.sid).key = f.key
  BY DEF Secure!Decrypts
<1> QED
  BY <1>1, <1>3, <1>4, SessionFacts

\* Every step of the host and of the pages keeps the types.
LEMMA SecureTypeStep ==
  Secure!TypeOK /\ Secure!HostInv /\ Secure!FramesInv /\ [Secure!Next]_(Secure!vars)
    => Secure!TypeOK'
<1> SUFFICES ASSUME Secure!TypeOK, Secure!HostInv, Secure!FramesInv, [Secure!Next]_(Secure!vars)
             PROVE  Secure!TypeOK'
  OBVIOUS
<1> USE DEF Secure!TypeOK
<1>a. toHost \in Seq(Frame) /\ keyed \in [Tab -> Secure!Sessions \cup {None}]
  BY DEF Frame
<1>b. ASSUME toHost' \in Seq(Frame)
      PROVE  toHost' \in Seq([sid : Tab, kind : {"H", "A", "C"}, key : Secure!Keys \cup {None}])
  BY <1>b DEF Frame
<1>k. \A s \in Tab, i \in HostKey, c \in Code : Secure!Key(s, i, c) \in Secure!Keys
  BY KeyFacts
<1>1. CASE UNCHANGED Secure!vars
  BY <1>1 DEF Secure!vars
<1>2. ASSUME NEW s \in Tab, Secure!Hello(s) PROVE Secure!TypeOK'
  <2>1. toHost' \in Seq(Frame)
    BY <1>a, <1>2, SendFacts DEF Secure!Hello
  <2> QED
    BY <1>2, <1>b, <2>1 DEF Secure!Hello, Secure!Page, Secure!host, Secure!feeds
<1>3. ASSUME NEW s \in Tab, Secure!TakeResponse(s) PROVE Secure!TypeOK'
  <2>1. /\ toPage[s] # <<>> /\ toPage[s] \in Seq(Secure!Keys)
        /\ toPage' = [toPage EXCEPT ![s] = Tail(@)]
    BY <1>3 DEF Secure!TakeResponse
  <2>2. Head(toPage[s]) \in Secure!Keys /\ Tail(toPage[s]) \in Seq(Secure!Keys)
    BY <2>1, ReadFacts
  <2>3. toPage' \in [Tab -> Seq(Secure!Keys)]
    BY <2>1, <2>2
  <2>4. ppc' \in [Tab -> {"new", "waiting", "asking", "secure", "closed"}]
    BY <1>3 DEF Secure!TakeResponse, Secure!Page
  <2>5. pkey' \in [Tab -> Secure!Keys \cup {None}]
    <3>1. known[s] # None => Secure!Key(s, pinned[s], known[s]) \in Secure!Keys
      BY <1>k
    <3> QED
      BY <1>3, <2>2, <3>1 DEF Secure!TakeResponse, Secure!Tried
  <2> QED
    BY <1>3, <2>3, <2>4, <2>5 DEF Secure!TakeResponse, Secure!host, Secure!feeds
<1>4. ASSUME NEW s \in Tab, NEW c \in Code, Secure!EnterCode(s, c) PROVE Secure!TypeOK'
  BY <1>4, <1>k DEF Secure!EnterCode, Secure!Page, Secure!host, Secure!feeds, Secure!wires
<1>5. ASSUME NEW s \in Tab, Secure!SendFrame(s) PROVE Secure!TypeOK'
  <2>1. toHost' \in Seq(Frame)
    BY <1>a, <1>5, SendFacts DEF Secure!SendFrame
  <2> QED
    BY <1>5, <1>b, <2>1 DEF Secure!SendFrame, Secure!host, Secure!feeds
<1>6. ASSUME NEW s \in Tab, Secure!PageCloses(s) PROVE Secure!TypeOK'
  <2>1. toHost' \in Seq(Frame)
    BY <1>a, <1>6, SendFacts DEF Secure!PageCloses
  <2> QED
    BY <1>6, <1>b, <2>1 DEF Secure!PageCloses, Secure!Page, Secure!host, Secure!feeds
<1>7. ASSUME Secure!Receive PROVE Secure!TypeOK'
  <2> DEFINE f == Head(toHost)
             s == f.sid
  <2>1. toHost # <<>> /\ toHost' = Tail(toHost)
    BY <1>7 DEF Secure!Receive
  <2>2. f \in Frame /\ toHost' \in Seq(Frame)
    BY <1>a, <2>1, ReadFacts
  <2>3. s \in Tab
    BY <2>2 DEF Frame
  <2>4. hpc' \in {"reading", "pairing", "connected"} /\ (hpc' # "reading" => frame' = f)
    BY <1>7 DEF Secure!Receive, Secure!Handled
  <2>5. /\ running' \subseteq Tab
        /\ pending' \in [Tab -> {0, 1}]
    BY <1>7 DEF Secure!Receive
  <2>6. Secure!SessionOf(s) \in Secure!Sessions
    BY <1>a, <2>3, SessionFacts
  <2>7. \/ keyed' = [keyed EXCEPT ![s] = Secure!SessionOf(s)]
        \/ UNCHANGED keyed
        \/ keyed[s] # None /\ keyed' = [keyed EXCEPT ![s].fired = TRUE]
        \/ keyed' = [keyed EXCEPT ![s] = None]
    BY <1>7, <2>1, OpenedFrame DEF Secure!Receive
  <2>8. keyed[s] # None => [keyed[s] EXCEPT !.fired = TRUE] \in Secure!Sessions
    <3> SUFFICES ASSUME keyed[s] # None
                 PROVE  [keyed[s] EXCEPT !.fired = TRUE] \in Secure!Sessions
      OBVIOUS
    <3> DEFINE e == keyed[s]
    <3>1. e \in Secure!Sessions
      BY <1>a, <2>3
    <3> HIDE DEF e, s
    <3>2. [e EXCEPT !.fired = TRUE] \in Secure!Sessions
      BY <3>1 DEF Secure!Sessions
    <3> QED
      BY <3>2 DEF e
  <2>9. keyed' \in [Tab -> Secure!Sessions \cup {None}]
    <3> HIDE DEF f, s
    <3> QED
      BY <2>3, <2>6, <2>7, <2>8
  <2> QED
    BY <1>7, <1>b, <2>2, <2>3, <2>4, <2>5, <2>9 DEF Secure!Receive, Secure!host
<1>8. ASSUME Secure!Respond PROVE Secure!TypeOK'
  <2> DEFINE k == Secure!Key(frame.sid, hostkey, code)
  <2>1. frame.sid \in Tab /\ k \in Secure!Keys
        /\ toPage' = [toPage EXCEPT ![frame.sid] = Append(@, k)]
    BY <1>8, <1>k DEF Secure!Respond
  <2> HIDE DEF k
  <2>2. Append(toPage[frame.sid], k) \in Seq(Secure!Keys)
    BY <2>1, AppendProperties
  <2>3. toPage' \in [Tab -> Seq(Secure!Keys)]
    BY <2>1, <2>2
  <2> QED
    BY <1>8, <2>1, <2>3 DEF Secure!Respond, Secure!host, Secure!pages
<1>9. ASSUME Secure!Establish PROVE Secure!TypeOK'
  <2> DEFINE s == frame.sid
             k == Secure!Key(s, hostkey, code)
  <2>1. s \in Tab /\ k \in Secure!Keys /\ keyed[s] # None
    BY <1>9, <1>k DEF Secure!Establish, Secure!HostInv
  <2>2. keyed' = [keyed EXCEPT ![s].key = k] /\ running' = running \cup {s}
    BY <1>9 DEF Secure!Establish
  <2>3. [keyed[s] EXCEPT !.key = k] \in Secure!Sessions
    <3> HIDE DEF k, s
    <3> QED
      BY <2>1 DEF Secure!Sessions
  <2>4. keyed' \in [Tab -> Secure!Sessions \cup {None}] /\ running' \subseteq Tab
    <3> HIDE DEF k, s
    <3> QED
      BY <2>1, <2>2, <2>3
  <2> QED
    BY <1>9, <2>4 DEF Secure!Establish, Secure!Handled, Secure!host, Secure!wires, Secure!pages
<1>10. ASSUME Secure!Forward PROVE Secure!TypeOK'
  BY <1>10 DEF Secure!Forward, Secure!Handled, Secure!host, Secure!wires
<1>11. ASSUME Secure!LoseLink PROVE Secure!TypeOK'
  <2>1. toHost' \in Seq(Frame)
    BY <1>11, EmptySeq DEF Secure!LoseLink
  <2> QED
    BY <1>11, <1>b, <2>1 DEF Secure!LoseLink, Secure!feeds, Secure!pages
<1>12. ASSUME Secure!SendRaises PROVE Secure!TypeOK'
  BY <1>12 DEF Secure!SendRaises, Secure!Handled, Secure!host, Secure!wires, Secure!pages
<1>13. ASSUME Secure!StopHost PROVE Secure!TypeOK'
  BY <1>13 DEF Secure!StopHost, Secure!feeds, Secure!wires, Secure!pages
<1>14. ASSUME NEW i \in HostKey, NEW c \in Code, Secure!Reconnect(i, c) PROVE Secure!TypeOK'
  BY <1>14 DEF Secure!Reconnect, Secure!feeds, Secure!wires, Secure!pages
<1> HIDE DEF Secure!TypeOK
<1> QED
  BY <1>1, <1>2, <1>3, <1>4, <1>5, <1>6, <1>7, <1>8, <1>9, <1>10, <1>11, <1>12, <1>13, <1>14,
     SecureCases

\* What the host keeps stays of its present link, identity and code.
LEMMA HostStep ==
  Secure!SecureInv /\ [Secure!Next]_(Secure!vars) => Secure!HostInv'
<1> SUFFICES ASSUME Secure!TypeOK, Secure!HostInv, Secure!FramesInv, [Secure!Next]_(Secure!vars)
             PROVE  Secure!HostInv'
  BY DEF Secure!SecureInv
<1> USE DEF Secure!HostInv
<1>a. /\ toHost \in Seq(Frame) /\ keyed \in [Tab -> Secure!Sessions \cup {None}]
      /\ running \subseteq Tab
      /\ ppc \in [Tab -> {"new", "waiting", "asking", "secure", "closed"}]
      /\ pkey \in [Tab -> Secure!Keys \cup {None}]
      /\ hpc # "reading" => frame.sid \in Tab
      /\ hostkey \in HostKey /\ code \in Code
  BY DEF Frame, Secure!TypeOK
\* A step of a page that is not secure yet, or stays so, or closes
<1>b. ASSUME NEW s \in Tab, UNCHANGED <<Secure!host, keyed, running, Secure!feeds>>,
             \/ ppc[s] \in {"new", "waiting", "asking"}
             \/ UNCHANGED pkey /\ ppc'[s] = "closed",
             ppc' = [ppc EXCEPT ![s] = ppc'[s]], ppc'[s] # "new",
             UNCHANGED pkey \/ pkey' = [pkey EXCEPT ![s] = pkey'[s]]
      PROVE  Secure!HostInv'
  BY <1>a, <1>b DEF Secure!host, Secure!feeds
<1>1. CASE UNCHANGED Secure!vars
  BY <1>1 DEF Secure!vars
<1>2. ASSUME NEW s \in Tab, Secure!Hello(s) PROVE Secure!HostInv'
  BY <1>a, <1>b, <1>2 DEF Secure!Hello, Secure!Page
<1>3. ASSUME NEW s \in Tab, Secure!TakeResponse(s) PROVE Secure!HostInv'
  <2>1. /\ ppc[s] = "waiting" /\ ppc'[s] # "new" /\ ppc' = [ppc EXCEPT ![s] = ppc'[s]]
        /\ UNCHANGED <<Secure!host, keyed, running, Secure!feeds>>
    BY <1>a, <1>3 DEF Secure!TakeResponse, Secure!Page
  <2>2. UNCHANGED pkey \/ pkey' = [pkey EXCEPT ![s] = pkey'[s]]
    BY <1>a, <1>3 DEF Secure!TakeResponse
  <2> QED
    BY <1>b, <2>1, <2>2
<1>4. ASSUME NEW s \in Tab, NEW c \in Code, Secure!EnterCode(s, c) PROVE Secure!HostInv'
  <2>1. /\ ppc[s] = "asking" /\ ppc'[s] # "new" /\ ppc' = [ppc EXCEPT ![s] = ppc'[s]]
        /\ pkey' = [pkey EXCEPT ![s] = pkey'[s]]
        /\ UNCHANGED <<Secure!host, keyed, running, Secure!feeds>>
    BY <1>a, <1>4 DEF Secure!EnterCode, Secure!Page
  <2> QED
    BY <1>b, <2>1
<1>5. ASSUME NEW s \in Tab, Secure!SendFrame(s) PROVE Secure!HostInv'
  BY <1>5 DEF Secure!SendFrame, Secure!host, Secure!feeds
<1>6. ASSUME NEW s \in Tab, Secure!PageCloses(s) PROVE Secure!HostInv'
  BY <1>a, <1>b, <1>6 DEF Secure!PageCloses, Secure!Page
<1>7. ASSUME Secure!Receive PROVE Secure!HostInv'
  <2> DEFINE f == Head(toHost)
             s == f.sid
             Good(x, q) ==
               /\ x.key # None => x.key = Secure!Key(q, hostkey, code)
               /\ x.fired => ppc[q] \in {"secure", "closed"} /\ x.key # None /\ x.key = pkey[q]
  <2>1. /\ link' = "up" /\ toHost # <<>>
        /\ hostkey' = hostkey /\ code' = code /\ ppc' = ppc /\ pkey' = pkey
    BY <1>7 DEF Secure!Receive, Secure!host
  <2>2. f \in Frame /\ f = toHost[1] /\ 1 \in DOMAIN toHost
    BY <1>a, <2>1, ReadFacts
  <2>3. s \in Tab /\ ppc[s] # "new"
    BY <2>2 DEF Frame, Secure!FramesInv, Secure!Sound
  <2>4. \A q \in Tab : keyed[q] # None => Good(keyed[q], q)
    OBVIOUS
  <2>5. /\ Secure!SessionOf(s) # None /\ Good(Secure!SessionOf(s), s)
        /\ keyed[s] # None => Secure!SessionOf(s) = keyed[s]
    <3>1. CASE keyed[s] = None
      BY <1>a, <2>3, <3>1, SessionFacts
    <3>2. CASE keyed[s] # None
      BY <1>a, <2>3, <2>4, <3>2, SessionFacts, ZenonT(30)
    <3> QED
      BY <3>1, <3>2
  <2> SUFFICES /\ hpc' # "reading" => keyed'[frame'.sid] # None /\ frame'.sid = s
               /\ running' \subseteq {q \in Tab : keyed'[q] # None /\ keyed'[q].key # None}
               /\ \A q \in Tab : keyed'[q] # None => Good(keyed'[q], q)
    BY <2>1, <2>3
  <2>6. CASE \/ f.kind = "H" /\ keyed' = [keyed EXCEPT ![s] = Secure!SessionOf(s)]
                /\ hpc' = "pairing" /\ frame' = f /\ UNCHANGED running
             \/ f.kind = "A" /\ ~Secure!Decrypts(f) /\ Secure!Handled
                /\ keyed' = [keyed EXCEPT ![s] = Secure!SessionOf(s)] /\ UNCHANGED running
    <3>1. /\ keyed' = [keyed EXCEPT ![s] = Secure!SessionOf(s)] /\ UNCHANGED running
          /\ hpc' = "reading" \/ (hpc' = "pairing" /\ frame' = f)
      BY <2>6 DEF Secure!Handled
    <3> HIDE DEF Good, f
    <3>2. keyed'[s] = Secure!SessionOf(s) /\ \A q \in Tab : q # s => keyed'[q] = keyed[q]
      BY <1>a, <2>3, <3>1
    <3>3. \A q \in Tab : keyed'[q] # None => Good(keyed'[q], q)
      BY <2>4, <2>5, <3>2
    <3>4. running' \subseteq {q \in Tab : keyed'[q] # None /\ keyed'[q].key # None}
      BY <2>5, <3>1, <3>2
    <3> QED
      BY <2>3, <2>5, <3>1, <3>2, <3>3, <3>4
  <2>7. CASE f.kind = "A" /\ Secure!Decrypts(f) /\ UNCHANGED <<keyed, running>> /\ Secure!Handled
    BY <2>4, <2>7 DEF Secure!Handled
  <2>8. CASE f.kind = "A" /\ Secure!Decrypts(f) /\ hpc' = "connected" /\ frame' = f
             /\ keyed' = [keyed EXCEPT ![s].fired = TRUE] /\ UNCHANGED running
    <3>1. /\ keyed[s] # None /\ keyed[s].key # None /\ keyed[s].key = pkey[s]
          /\ ppc[s] \in {"secure", "closed"}
      BY <2>1, <2>8, OpenedFrame
    <3>2. /\ keyed'[s] = [keyed[s] EXCEPT !.fired = TRUE]
          /\ \A q \in Tab : q # s => keyed'[q] = keyed[q]
      BY <1>a, <2>3, <2>8
    <3>3. keyed'[s] \in Secure!Sessions /\ keyed'[s].key = keyed[s].key
      <4> DEFINE e == keyed[s]
      <4>1. e \in Secure!Sessions
        BY <1>a, <2>3, <3>1
      <4> HIDE DEF e
      <4>2. [e EXCEPT !.fired = TRUE] \in Secure!Sessions /\ [e EXCEPT !.fired = TRUE].key = e.key
        BY <4>1 DEF Secure!Sessions
      <4> QED
        BY <3>2, <4>2 DEF e
    <3>4. keyed'[s] # None /\ Good(keyed'[s], s)
      BY <2>4, <2>3, <3>1, <3>3, SecureAssumption DEF Secure!ConstantsAssumption
    <3> HIDE DEF Good
    <3> QED
      BY <2>3, <2>4, <2>8, <3>1, <3>2, <3>3, <3>4
  <2>9. CASE f.kind = "C" /\ Secure!Handled /\ keyed' = [keyed EXCEPT ![s] = None]
             /\ running' = running \ {s}
    <3> HIDE DEF Good, f
    <3> QED
      BY <1>a, <2>3, <2>4, <2>9 DEF Secure!Handled
  <2> QED
    BY <1>7, <2>6, <2>7, <2>8, <2>9, <2>1, OpenedFrame DEF Secure!Receive
<1>8. ASSUME Secure!Respond PROVE Secure!HostInv'
  BY <1>8 DEF Secure!Respond, Secure!host, Secure!pages
<1>9. ASSUME Secure!Establish PROVE Secure!HostInv'
  <2> DEFINE s == frame.sid
             k == Secure!Key(s, hostkey, code)
  <2>1. /\ s \in Tab /\ keyed[s] # None /\ k # None
        /\ keyed' = [keyed EXCEPT ![s].key = k] /\ running' = running \cup {s}
        /\ link' = "up" /\ hpc' = "reading"
        /\ UNCHANGED <<hostkey, code, ppc, pkey>>
    BY <1>a, <1>9, KeyFacts DEF Secure!Establish, Secure!Handled, Secure!host, Secure!pages
  <2>2. keyed[s].key # None => keyed[s].key = k
    BY <2>1
  <2> HIDE DEF k, s
  <2>3. keyed[s] = [key |-> keyed[s].key, fired |-> keyed[s].fired] /\ keyed[s] \in Secure!Sessions
    BY <1>a, <2>1 DEF Secure!Sessions
  <2>4. /\ keyed'[s] = [keyed[s] EXCEPT !.key = k]
        /\ \A q \in Tab : q # s => keyed'[q] = keyed[q]
    BY <1>a, <2>1
  <2>5. keyed'[s] = [key |-> k, fired |-> keyed[s].fired]
    BY <2>3, <2>4
  <2>6. keyed'[s] # None
    <3>1. [key |-> k, fired |-> keyed[s].fired] \in Secure!Sessions
      <4>1. k \in Secure!Keys
        BY <1>a, <2>1, KeyFacts DEF k
      <4> QED
        BY <2>3, <4>1 DEF Secure!Sessions
    <3> QED
      BY <2>5, <3>1, SecureAssumption DEF Secure!ConstantsAssumption
  <2>7. \A q \in Tab : keyed'[q] # None =>
          /\ keyed'[q].key # None => keyed'[q].key = Secure!Key(q, hostkey, code)
          /\ keyed'[q].fired => /\ ppc[q] \in {"secure", "closed"}
                               /\ keyed'[q].key # None /\ keyed'[q].key = pkey[q]
    BY <2>1, <2>2, <2>4, <2>5 DEF k
  <2>8. running' \subseteq {q \in Tab : keyed'[q] # None /\ keyed'[q].key # None}
    BY <2>1, <2>4, <2>5, <2>6
  <2> QED
    BY <2>1, <2>7, <2>8
<1>10. ASSUME Secure!Forward PROVE Secure!HostInv'
  BY <1>10 DEF Secure!Forward, Secure!Handled, Secure!host
<1>11. ASSUME Secure!LoseLink PROVE Secure!HostInv'
  BY <1>11 DEF Secure!LoseLink, Secure!feeds, Secure!pages
<1>12. ASSUME Secure!SendRaises PROVE Secure!HostInv'
  BY <1>12 DEF Secure!SendRaises, Secure!Handled, Secure!host, Secure!pages
<1>13. ASSUME Secure!StopHost PROVE Secure!HostInv'
  BY <1>13 DEF Secure!StopHost, Secure!feeds, Secure!pages
<1>14. ASSUME NEW i \in HostKey, NEW c \in Code, Secure!Reconnect(i, c) PROVE Secure!HostInv'
  BY <1>14 DEF Secure!Reconnect, Secure!feeds, Secure!pages
<1> HIDE DEF Secure!HostInv
<1> QED
  BY <1>1, <1>2, <1>3, <1>4, <1>5, <1>6, <1>7, <1>8, <1>9, <1>10, <1>11, <1>12, <1>13, <1>14,
     SecureCases

\* What pages have sent still stands after every step.
LEMMA FramesStep ==
  Secure!SecureInv /\ [Secure!Next]_(Secure!vars) => Secure!FramesInv'
<1> SUFFICES ASSUME Secure!TypeOK, Secure!HostInv, Secure!FramesInv, [Secure!Next]_(Secure!vars)
             PROVE  Secure!FramesInv'
  BY DEF Secure!SecureInv
<1> DEFINE SoundThen(f) ==
             /\ ppc'[f.sid] # "new"
             /\ f.kind = "A" => /\ ppc'[f.sid] \in {"secure", "closed"}
                                /\ f.key = pkey'[f.sid] /\ f.key # None
             /\ f.kind = "C" => ppc'[f.sid] = "closed"
           Lasting == \A f \in Frame : Secure!Sound(f) => SoundThen(f)
           Keyed == \A s \in Tab : ppc'[s] \in {"asking", "secure"} => pkey'[s] # None
<1>a. /\ toHost \in Seq(Frame)
      /\ ppc \in [Tab -> {"new", "waiting", "asking", "secure", "closed"}]
      /\ pkey \in [Tab -> Secure!Keys \cup {None}]
      /\ None \notin Secure!Keys
  BY SecureAssumption DEF Frame, Secure!TypeOK, Secure!ConstantsAssumption
<1>i. \A i \in DOMAIN toHost :
        /\ toHost[i] \in Frame
        /\ Secure!Sound(toHost[i])
        /\ toHost[i].kind = "C" =>
             ppc[toHost[i].sid] = "closed"
             /\ \A j \in DOMAIN toHost : j > i => toHost[j].sid # toHost[i].sid
  <2>1. \A i \in DOMAIN toHost : toHost[i] \in Frame
    BY <1>a, ElementOfSeq, LenProperties
  <2> QED
    BY <2>1 DEF Secure!FramesInv, Secure!Sound
<1>u. ASSUME toHost' # <<>> => link' = "up", Keyed,
             \A i \in DOMAIN toHost' :
               /\ SoundThen(toHost'[i])
               /\ toHost'[i].kind = "C" =>
                    \A j \in DOMAIN toHost' : j > i => toHost'[j].sid # toHost'[i].sid
      PROVE  Secure!FramesInv'
  BY <1>u DEF Secure!FramesInv, Secure!Sound
\* What does not touch a page
<1>k. ASSUME UNCHANGED <<ppc, pkey>> PROVE Lasting /\ Keyed
  BY <1>k DEF Secure!FramesInv, Secure!Sound
\* A page that is not secure has no data frame under way
<1>p. ASSUME NEW s \in Tab, ppc' = [ppc EXCEPT ![s] = ppc'[s]], ppc'[s] # "new",
             \/ ppc[s] \in {"new", "waiting", "asking"}
             \/ ppc[s] = "secure" /\ ppc'[s] \in {"secure", "closed"} /\ UNCHANGED pkey,
             UNCHANGED pkey \/ pkey' = [pkey EXCEPT ![s] = pkey'[s]]
      PROVE  Lasting
  BY <1>a, <1>p DEF Secure!Sound, Frame
\* No frame is sent or read
<1>b. ASSUME UNCHANGED toHost, toHost # <<>> => UNCHANGED link, Lasting, Keyed
      PROVE  Secure!FramesInv'
  <2> HIDE DEF SoundThen, Keyed
  <2>1. toHost' # <<>> => link' = "up"
    BY <1>b DEF Secure!FramesInv
  <2>2. \A i \in DOMAIN toHost : SoundThen(toHost[i])
    BY <1>b, <1>i
  <2> QED
    BY <1>b, <1>i, <1>u, <2>1, <2>2
\* A frame is sent by a page that has not closed
<1>c. ASSUME NEW s \in Tab, NEW kind \in {"H", "A", "C"}, NEW key \in Secure!Keys \cup {None},
             Secure!Send(s, kind, key), ppc[s] # "closed", link' = "up", Lasting, Keyed,
             SoundThen([sid |-> s, kind |-> kind, key |-> key])
      PROVE  Secure!FramesInv'
  <2> DEFINE n == Len(toHost) + 1
             g == [sid |-> s, kind |-> kind, key |-> key]
  <2>1. /\ toHost' # <<>> /\ Len(toHost) \in Nat
        /\ DOMAIN toHost = 1..Len(toHost) /\ DOMAIN toHost' = 1..n
        /\ \A i \in DOMAIN toHost : i \in DOMAIN toHost' /\ toHost'[i] = toHost[i]
        /\ toHost'[n] = g
    BY <1>a, <1>c, SendFacts
  <2>2. g.sid = s /\ SoundThen(g)
    BY <1>c
  <2> HIDE DEF SoundThen, Keyed, g
  <2>3. \A i \in DOMAIN toHost' : i \in DOMAIN toHost \/ i = n
    BY <2>1
  <2>4. \A i \in DOMAIN toHost' : SoundThen(toHost'[i])
    BY <1>c, <1>i, <2>1, <2>2, <2>3
  <2>5. ASSUME NEW i \in DOMAIN toHost', toHost'[i].kind = "C",
               NEW j \in DOMAIN toHost', j > i
        PROVE  toHost'[j].sid # toHost'[i].sid
    <3>1. i \in DOMAIN toHost
      BY <2>1, <2>3, <2>5
    <3>2. CASE j \in DOMAIN toHost
      BY <1>i, <2>1, <2>5, <3>1, <3>2
    <3>3. CASE j = n
      BY <1>c, <1>i, <2>1, <2>2, <2>5, <3>1, <3>3
    <3> QED
      BY <2>3, <3>2, <3>3
  <2> QED
    BY <1>c, <1>u, <2>4, <2>5
<1>1. CASE UNCHANGED Secure!vars
  BY <1>1, <1>b, <1>k DEF Secure!vars
<1>2. ASSUME NEW s \in Tab, Secure!Hello(s) PROVE Secure!FramesInv'
  <2>1. /\ ppc[s] = "new" /\ ppc' = [ppc EXCEPT ![s] = "waiting"] /\ UNCHANGED pkey
        /\ Secure!Send(s, "H", None) /\ link' = "up"
    BY <1>2 DEF Secure!Hello, Secure!Page, Secure!host
  <2>2. ppc'[s] = "waiting" /\ Lasting
    BY <1>a, <1>p, <2>1
  <2>3. Keyed
    BY <1>a, <2>1 DEF Secure!FramesInv
  <2>4. SoundThen([sid |-> s, kind |-> "H", key |-> None])
    BY <2>2
  <2> HIDE DEF SoundThen, Keyed
  <2> QED
    BY <1>c, <2>1, <2>2, <2>3, <2>4
<1>3. ASSUME NEW s \in Tab, Secure!TakeResponse(s) PROVE Secure!FramesInv'
  <2>1. /\ ppc[s] = "waiting" /\ ppc'[s] # "new" /\ ppc' = [ppc EXCEPT ![s] = ppc'[s]]
        /\ UNCHANGED <<toHost, link>>
    BY <1>a, <1>3 DEF Secure!TakeResponse, Secure!Page, Secure!host
  <2>2. UNCHANGED pkey \/ pkey' = [pkey EXCEPT ![s] = pkey'[s]]
    BY <1>a, <1>3 DEF Secure!TakeResponse
  <2>3. ppc'[s] \in {"asking", "secure"} => pkey'[s] # None
    <3>1. /\ toPage[s] # <<>> /\ toPage[s] \in Seq(Secure!Keys) /\ hostkey \in HostKey
          /\ pinned[s] \in HostKey /\ known[s] \in Code \cup {None}
      BY <1>3 DEF Secure!TakeResponse, Secure!TypeOK
    <3>2. Head(toPage[s]) \in Secure!Keys
      BY <3>1, ReadFacts
    <3>3. known[s] # None => Secure!Key(s, pinned[s], known[s]) # None
      BY <3>1, KeyFacts
    <3> QED
      BY <1>a, <1>3, <3>2, <3>3 DEF Secure!TakeResponse, Secure!Tried, Secure!Page
  <2>4. Keyed
    BY <1>a, <2>1, <2>2, <2>3 DEF Secure!FramesInv
  <2>5. Lasting
    BY <1>p, <2>1, <2>2
  <2> HIDE DEF SoundThen, Keyed
  <2> QED
    BY <1>b, <2>1, <2>4, <2>5
<1>4. ASSUME NEW s \in Tab, NEW c \in Code, Secure!EnterCode(s, c) PROVE Secure!FramesInv'
  <2>1. /\ ppc[s] = "asking" /\ ppc'[s] = "secure" /\ ppc' = [ppc EXCEPT ![s] = ppc'[s]]
        /\ pkey'[s] # None /\ pkey' = [pkey EXCEPT ![s] = pkey'[s]]
        /\ UNCHANGED <<toHost, link>>
    <3>1. Secure!Key(s, pinned[s], c) # None
      BY KeyFacts DEF Secure!TypeOK
    <3> QED
      BY <1>a, <1>4, <3>1 DEF Secure!EnterCode, Secure!Page, Secure!host, Secure!wires
  <2>2. Keyed
    BY <1>a, <2>1 DEF Secure!FramesInv
  <2>3. Lasting
    BY <1>p, <2>1
  <2> HIDE DEF SoundThen, Keyed
  <2> QED
    BY <1>b, <2>1, <2>2, <2>3
<1>5. ASSUME NEW s \in Tab, Secure!SendFrame(s) PROVE Secure!FramesInv'
  <2>1. /\ ppc[s] = "secure" /\ UNCHANGED <<ppc, pkey, link>>
        /\ \/ link' = "up" /\ Secure!Send(s, "A", pkey[s])
           \/ UNCHANGED toHost
    BY <1>5 DEF Secure!SendFrame, Secure!host
  <2>2. Lasting /\ Keyed
    BY <1>k, <2>1
  <2>3. SoundThen([sid |-> s, kind |-> "A", key |-> pkey[s]])
    BY <1>a, <2>1, <2>2
  <2> HIDE DEF SoundThen, Keyed
  <2> QED
    BY <1>a, <1>b, <1>c, <2>1, <2>2, <2>3
<1>6. ASSUME NEW s \in Tab, Secure!PageCloses(s) PROVE Secure!FramesInv'
  <2>1. /\ ppc[s] \in {"waiting", "asking", "secure"} /\ ppc' = [ppc EXCEPT ![s] = "closed"]
        /\ UNCHANGED <<pkey, link>>
        /\ \/ link' = "up" /\ Secure!Send(s, "C", None)
           \/ UNCHANGED toHost
    BY <1>6 DEF Secure!PageCloses, Secure!Page, Secure!host
  <2>2. ppc'[s] = "closed" /\ Lasting
    BY <1>a, <1>p, <2>1
  <2>3. Keyed
    BY <1>a, <2>1 DEF Secure!FramesInv
  <2>4. SoundThen([sid |-> s, kind |-> "C", key |-> None])
    BY <2>2
  <2> HIDE DEF SoundThen, Keyed
  <2> QED
    BY <1>b, <1>c, <2>1, <2>2, <2>3, <2>4
<1>7. ASSUME Secure!Receive PROVE Secure!FramesInv'
  <2>1. /\ toHost # <<>> /\ toHost' = Tail(toHost) /\ link' = "up"
        /\ UNCHANGED <<ppc, pkey>>
    BY <1>7 DEF Secure!Receive, Secure!host
  <2>2. \A i \in DOMAIN toHost' : i + 1 \in DOMAIN toHost /\ toHost'[i] = toHost[i + 1]
    BY <1>a, <2>1, ReadFacts
  <2>3. \A i \in DOMAIN toHost' : i \in Int
    BY <1>a, <2>1, ReadFacts, LenProperties
  <2>4. Lasting /\ Keyed
    BY <1>k, <2>1
  <2> HIDE DEF SoundThen, Keyed
  <2>5. \A i \in DOMAIN toHost' : SoundThen(toHost'[i])
    BY <1>i, <2>2, <2>4
  <2>6. \A i, j \in DOMAIN toHost' : j > i => j + 1 > i + 1
    BY <2>3
  <2>7. \A i \in DOMAIN toHost' : toHost'[i].kind = "C" =>
          \A j \in DOMAIN toHost' : j > i => toHost'[j].sid # toHost'[i].sid
    BY <1>i, <2>2, <2>6
  <2> QED
    BY <1>u, <2>1, <2>4, <2>5, <2>7
<1>8. CASE Secure!Respond
  BY <1>8, <1>b, <1>k DEF Secure!Respond, Secure!host, Secure!pages
<1>9. CASE Secure!Establish
  BY <1>9, <1>b, <1>k DEF Secure!Establish, Secure!host, Secure!wires, Secure!pages
<1>10. CASE Secure!Forward
  BY <1>10, <1>b, <1>k DEF Secure!Forward, Secure!host, Secure!wires
<1>11. CASE Secure!LoseLink
  <2>1. Keyed
    BY <1>11, <1>k DEF Secure!LoseLink, Secure!pages
  <2> HIDE DEF SoundThen, Keyed
  <2>2. toHost' = <<>> /\ DOMAIN toHost' = {}
    BY <1>11 DEF Secure!LoseLink
  <2> QED
    BY <1>u, <2>1, <2>2
<1>12. CASE Secure!SendRaises
  BY <1>12, <1>b, <1>k DEF Secure!SendRaises, Secure!host, Secure!wires, Secure!pages
<1>13. CASE Secure!StopHost
  BY <1>13, <1>b, <1>k DEF Secure!StopHost, Secure!wires, Secure!pages, Secure!FramesInv
<1>14. ASSUME NEW i \in HostKey, NEW c \in Code, Secure!Reconnect(i, c) PROVE Secure!FramesInv'
  BY <1>14, <1>b, <1>k DEF Secure!Reconnect, Secure!wires, Secure!pages, Secure!FramesInv
<1> QED
  BY <1>1, <1>2, <1>3, <1>4, <1>5, <1>6, <1>7, <1>8, <1>9, <1>10, <1>11, <1>12, <1>13, <1>14,
     SecureCases

\* Pages whose host kept its link are still served after every step.
LEMMA PagesStep ==
  Secure!SecureInv /\ [Secure!Next]_(Secure!vars) => Secure!PagesInv'
<1> SUFFICES ASSUME Secure!TypeOK, Secure!HostInv, Secure!FramesInv, Secure!PagesInv,
                    [Secure!Next]_(Secure!vars)
             PROVE  Secure!PagesInv'
  BY DEF Secure!SecureInv
<1> DEFINE Active == {"waiting", "asking", "secure"}
           K(s) == Secure!Key(s, hostkey, code)
           ServedThen(s) ==
             \/ keyed'[s] # None /\ keyed'[s].key = Secure!Key(s, hostkey', code') /\ s \in running'
             \/ hpc' = "responding" /\ frame'.sid = s
           ToldThen(s) ==
             /\ link' = "up"
             /\ toPage'[s] \in Seq({Secure!Key(s, hostkey', code')})
             /\ toPage'[s] # <<>> \/ ppc'[s] # "waiting" => ServedThen(s)
             /\ ppc'[s] # "waiting" => pkey'[s] = Secure!Key(s, hostkey', code')
<1>a. /\ toHost \in Seq(Frame) /\ keyed \in [Tab -> Secure!Sessions \cup {None}]
      /\ ppc \in [Tab -> {"new", "waiting", "asking", "secure", "closed"}]
      /\ pkey \in [Tab -> Secure!Keys \cup {None}]
      /\ toPage \in [Tab -> Seq(Secure!Keys)]
      /\ hostkey \in HostKey /\ code \in Code /\ pinned \in [Tab -> HostKey]
      /\ known \in [Tab -> Code \cup {None}]
      /\ hpc # "reading" => frame.sid \in Tab
      /\ link = "up" \/ link = "lost" \/ link = "down"
  BY DEF Frame, Secure!TypeOK
<1>i. \A i \in DOMAIN toHost : toHost[i] \in Frame /\ toHost[i].sid \in Tab
  <2>1. \A i \in DOMAIN toHost : toHost[i] \in Frame
    BY <1>a, ElementOfSeq, LenProperties
  <2> QED
    BY <2>1 DEF Frame
<1>p. /\ \A s \in Tab : ppc[s] = "new" => toPage[s] = <<>>
      /\ \A s \in Tab \ cut : ppc[s] \in Active => Secure!Told(s)
      /\ \A i \in DOMAIN toHost : toHost[i].kind = "A" /\ toHost[i].sid \notin cut =>
           toHost[i].key = K(toHost[i].sid) /\ Secure!Served(toHost[i].sid)
      /\ refused \subseteq cut
  BY DEF Secure!PagesInv
<1>u. ASSUME \A s \in Tab : ppc'[s] = "new" => toPage'[s] = <<>>,
             \A s \in Tab \ cut' : ppc'[s] \in Active => ToldThen(s),
             \A i \in DOMAIN toHost' : toHost'[i].kind = "A" /\ toHost'[i].sid \notin cut' =>
               /\ toHost'[i].key = Secure!Key(toHost'[i].sid, hostkey', code')
               /\ ServedThen(toHost'[i].sid),
             refused' \subseteq cut'
      PROVE  Secure!PagesInv'
  <2>1. \A s \in Tab : ToldThen(s) => Secure!Told(s)'
    BY DEF Secure!Told, Secure!Served
  <2> HIDE DEF ToldThen
  <2>2. \A s \in Tab \ cut' : ppc'[s] \in Active => Secure!Told(s)'
    BY <1>u, <2>1
  <2> QED
    BY <1>u, <2>2 DEF Secure!PagesInv, Secure!Served
\* Without a link, no frame is under way and no page relies on the host
<1>d. link # "up" => toHost = <<>> /\ \A s \in Tab \ cut : ppc[s] \notin Active
  BY <1>p DEF Secure!FramesInv, Secure!Told
<1>f. ASSUME toHost' = <<>>, \A s \in Tab \ cut' : ppc'[s] \notin Active,
             UNCHANGED <<ppc, toPage>>, refused' \subseteq cut'
      PROVE  Secure!PagesInv'
  <2> HIDE DEF Active, ToldThen, ServedThen
  <2> QED
    BY <1>f, <1>u, <1>p
\* A step of page s, which may send a frame
<1>b. ASSUME NEW s \in Tab, UNCHANGED <<Secure!host, keyed, running, Secure!feeds, cut, refused>>,
             ppc' = [ppc EXCEPT ![s] = ppc'[s]], ppc'[s] # "new",
             UNCHANGED pkey \/ pkey' = [pkey EXCEPT ![s] = pkey'[s]],
             UNCHANGED toPage \/ toPage' = [toPage EXCEPT ![s] = toPage'[s]],
             s \notin cut /\ ppc'[s] \in Active => ToldThen(s),
             \/ UNCHANGED toHost
             \/ \E kind \in {"H", "A", "C"}, key \in Secure!Keys \cup {None} :
                  /\ Secure!Send(s, kind, key)
                  /\ kind = "A" /\ s \notin cut => key = K(s) /\ Secure!Served(s)
      PROVE  Secure!PagesInv'
  <2>1. \A q \in Tab : q # s => ppc'[q] = ppc[q] /\ pkey'[q] = pkey[q] /\ toPage'[q] = toPage[q]
    BY <1>a, <1>b
  <2>2. UNCHANGED <<hostkey, code, link, keyed, running, hpc, frame, cut, refused>>
    BY <1>b DEF Secure!host, Secure!feeds
  <2>3. \A q \in Tab : Secure!Served(q) => ServedThen(q)
    BY <2>2 DEF Secure!Served
  <2>4. \A q \in Tab \ cut' : ppc'[q] \in Active => ToldThen(q)
    <3>1. ASSUME NEW q \in Tab \ cut', ppc'[q] \in Active, q # s PROVE ToldThen(q)
      BY <1>p, <2>1, <2>2, <2>3, <3>1 DEF Secure!Told
    <3> QED
      BY <1>b, <2>2, <3>1
  <2> HIDE DEF ToldThen, ServedThen, Active
  <2>5. \A i \in DOMAIN toHost' : toHost'[i].kind = "A" /\ toHost'[i].sid \notin cut' =>
          /\ toHost'[i].key = Secure!Key(toHost'[i].sid, hostkey', code')
          /\ ServedThen(toHost'[i].sid)
    <3>1. CASE UNCHANGED toHost
      BY <1>i, <1>p, <2>2, <2>3, <3>1
    <3>2. ASSUME NEW kind \in {"H", "A", "C"}, NEW key \in Secure!Keys \cup {None},
                 Secure!Send(s, kind, key),
                 kind = "A" /\ s \notin cut => key = K(s) /\ Secure!Served(s)
          PROVE  \A i \in DOMAIN toHost' : toHost'[i].kind = "A" /\ toHost'[i].sid \notin cut' =>
                   /\ toHost'[i].key = Secure!Key(toHost'[i].sid, hostkey', code')
                   /\ ServedThen(toHost'[i].sid)
      <4> DEFINE n == Len(toHost) + 1
      <4>1. /\ Len(toHost) \in Nat
            /\ DOMAIN toHost = 1..Len(toHost) /\ DOMAIN toHost' = 1..n
            /\ \A i \in DOMAIN toHost : toHost'[i] = toHost[i]
            /\ toHost'[n] = [sid |-> s, kind |-> kind, key |-> key]
        BY <1>a, <3>2, SendFacts
      <4>2. \A i \in DOMAIN toHost' : i \in DOMAIN toHost \/ i = n
        BY <4>1
      <4>3. /\ toHost'[n].sid = s /\ toHost'[n].key = key
            /\ toHost'[n].kind = "A" => kind = "A"
        BY <4>1
      <4> HIDE DEF n
      <4> QED
        BY <1>i, <1>p, <2>2, <2>3, <3>2, <4>1, <4>2, <4>3
    <3> QED
      BY <1>b, <3>1, <3>2
  <2> QED
    BY <1>b, <1>p, <1>u, <2>1, <2>2, <2>4, <2>5
\* A step of the host on its link, which may end the session of a page that
\* is gone
<1>e. ASSUME UNCHANGED <<hostkey, code, link, ppc, pkey, cut>>, refused' \subseteq cut,
             \A i \in DOMAIN toHost' : \E j \in DOMAIN toHost : toHost'[i] = toHost[j],
             \A q \in Tab : Secure!Served(q) =>
               \/ ServedThen(q)
               \/ ppc[q] \notin Active /\ \A i \in DOMAIN toHost' : toHost'[i].sid # q,
             \A q \in Tab : \/ toPage'[q] = toPage[q]
                            \/ /\ toPage'[q] = Append(toPage[q], K(q))
                               /\ ServedThen(q) /\ ppc[q] # "new"
      PROVE  Secure!PagesInv'
  <2>1. \A s \in Tab : ppc'[s] = "new" => toPage'[s] = <<>>
    BY <1>e, <1>p
  <2>2. ASSUME NEW s \in Tab \ cut', ppc'[s] \in Active PROVE ToldThen(s)
    <3>1. /\ link = "up" /\ toPage[s] \in Seq({K(s)})
          /\ toPage[s] # <<>> \/ ppc[s] # "waiting" => Secure!Served(s)
          /\ ppc[s] # "waiting" => pkey[s] = K(s)
      BY <1>e, <1>p, <2>2 DEF Secure!Told
    <3>2. Secure!Served(s) => ServedThen(s)
      BY <1>e, <2>2
    <3>3. toPage'[s] \in Seq({K(s)})
      <4> DEFINE k == K(s)
      <4>1. toPage[s] \in Seq({k}) /\ (toPage'[s] = toPage[s] \/ toPage'[s] = Append(toPage[s], k))
        BY <1>e, <3>1
      <4> HIDE DEF k
      <4>2. toPage'[s] \in Seq({k})
        BY <4>1, AppendProperties
      <4> QED
        BY <4>2 DEF k
    <3>4. toPage'[s] # <<>> \/ ppc'[s] # "waiting" => ServedThen(s)
      <4> HIDE DEF ServedThen
      <4> QED
        BY <1>e, <3>1, <3>2
    <3> QED
      BY <1>e, <3>1, <3>3, <3>4
  <2> HIDE DEF ToldThen, ServedThen, Active
  <2>3. \A i \in DOMAIN toHost' : toHost'[i].kind = "A" /\ toHost'[i].sid \notin cut' =>
          /\ toHost'[i].key = Secure!Key(toHost'[i].sid, hostkey', code')
          /\ ServedThen(toHost'[i].sid)
    BY <1>e, <1>i, <1>p
  <2> QED
    BY <1>e, <1>u, <2>1, <2>2, <2>3
<1>1. CASE UNCHANGED Secure!vars
  BY <1>1, <1>p DEF Secure!vars, Secure!PagesInv, Secure!Told, Secure!Served
<1>2. ASSUME NEW s \in Tab, Secure!Hello(s) PROVE Secure!PagesInv'
  <2>1. /\ ppc[s] = "new" /\ link = "up" /\ ppc' = [ppc EXCEPT ![s] = "waiting"]
        /\ UNCHANGED <<pkey, toPage>> /\ Secure!Send(s, "H", None)
        /\ UNCHANGED <<Secure!host, keyed, running, Secure!feeds, cut, refused>>
    BY <1>2 DEF Secure!Hello, Secure!Page
  <2>2. ppc'[s] = "waiting" /\ link' = "up" /\ toPage'[s] = <<>>
    BY <1>a, <1>p, <2>1 DEF Secure!host
  <2>3. ToldThen(s)
    BY <2>2, EmptySeq
  <2> HIDE DEF ToldThen, Active
  <2> QED
    BY <1>b, <2>1, <2>2, <2>3
<1>3. ASSUME NEW s \in Tab, Secure!TakeResponse(s) PROVE Secure!PagesInv'
  <2> DEFINE probe == Head(toPage[s])
  <2>1. /\ ppc[s] = "waiting" /\ toPage[s] # <<>>
        /\ toPage' = [toPage EXCEPT ![s] = Tail(toPage[s])]
        /\ ppc' = [ppc EXCEPT ![s] = ppc'[s]] /\ ppc'[s] \in {"closed", "secure", "asking"}
        /\ UNCHANGED <<Secure!host, keyed, running, Secure!feeds, toHost, cut, refused>>
    BY <1>a, <1>3 DEF Secure!TakeResponse, Secure!Page
  <2>2. UNCHANGED pkey \/ pkey' = [pkey EXCEPT ![s] = pkey'[s]]
    BY <1>a, <1>3 DEF Secure!TakeResponse
  <2>3. ppc'[s] # "closed" => pkey'[s] = probe
    BY <1>a, <1>3, <2>1 DEF Secure!TakeResponse, Secure!Page, Secure!Tried
  <2>4. s \notin cut /\ ppc'[s] \in Active => ToldThen(s)
    <3> SUFFICES ASSUME s \notin cut, ppc'[s] \in Active PROVE ToldThen(s)
      OBVIOUS
    <3>1. link = "up" /\ toPage[s] \in Seq({K(s)}) /\ Secure!Served(s)
      BY <1>p, <2>1 DEF Secure!Told
    <3>2. probe = K(s) /\ Tail(toPage[s]) \in Seq({K(s)})
      <4> DEFINE k == K(s)
      <4>1. toPage[s] \in Seq({k}) /\ toPage[s] # <<>>
        BY <2>1, <3>1
      <4> HIDE DEF k
      <4>2. Head(toPage[s]) \in {k} /\ Tail(toPage[s]) \in Seq({k})
        BY <4>1, ReadFacts
      <4> QED
        BY <4>2 DEF k
    <3>3. /\ toPage'[s] = Tail(toPage[s]) /\ pkey'[s] = K(s)
          /\ UNCHANGED <<hostkey, code, link, keyed, running, hpc, frame>>
      BY <1>a, <2>1, <2>3, <3>2 DEF Secure!host, Secure!feeds
    <3> QED
      BY <3>1, <3>2, <3>3 DEF Secure!Served
  <2>5. toPage' = [toPage EXCEPT ![s] = toPage'[s]]
    BY <1>a, <2>1
  <2> HIDE DEF ToldThen, Active
  <2> QED
    BY <1>b, <2>1, <2>2, <2>4, <2>5
<1>4. ASSUME NEW s \in Tab, NEW c \in Code, Secure!EnterCode(s, c) PROVE Secure!PagesInv'
  <2>1. /\ ppc[s] = "asking" /\ ppc' = [ppc EXCEPT ![s] = "secure"]
        /\ pkey' = [pkey EXCEPT ![s] = pkey[s]] /\ UNCHANGED toPage
        /\ UNCHANGED <<Secure!host, keyed, running, Secure!feeds, toHost, cut, refused>>
    BY <1>4 DEF Secure!EnterCode, Secure!Page, Secure!Tried, Secure!wires
  <2>2. ppc'[s] = "secure" /\ UNCHANGED pkey
    BY <1>a, <2>1
  <2>3. s \notin cut => ToldThen(s)
    BY <1>p, <2>1, <2>2 DEF Secure!Told, Secure!Served, Secure!host, Secure!feeds
  <2> HIDE DEF ToldThen, Active
  <2> QED
    BY <1>b, <2>1, <2>2, <2>3
<1>5. ASSUME NEW s \in Tab, Secure!SendFrame(s) PROVE Secure!PagesInv'
  <2>1. /\ ppc[s] = "secure" /\ UNCHANGED <<ppc, pkey, toPage>>
        /\ (Secure!Send(s, "A", pkey[s]) \/ UNCHANGED toHost)
        /\ UNCHANGED <<Secure!host, keyed, running, Secure!feeds, cut, refused>>
    BY <1>5 DEF Secure!SendFrame
  <2>2. s \notin cut => ToldThen(s) /\ pkey[s] = K(s) /\ Secure!Served(s)
    BY <1>p, <2>1 DEF Secure!Told, Secure!Served, Secure!host, Secure!feeds
  <2>3. ppc' = [ppc EXCEPT ![s] = ppc'[s]] /\ ppc'[s] # "new"
    BY <1>a, <2>1
  <2>4. pkey[s] \in Secure!Keys \cup {None}
    BY <1>a
  <2> HIDE DEF ToldThen, Active, K
  <2> QED
    BY <1>b, <2>1, <2>2, <2>3, <2>4
<1>6. ASSUME NEW s \in Tab, Secure!PageCloses(s) PROVE Secure!PagesInv'
  <2>1. /\ ppc' = [ppc EXCEPT ![s] = "closed"] /\ UNCHANGED <<pkey, toPage>>
        /\ (Secure!Send(s, "C", None) \/ UNCHANGED toHost)
        /\ UNCHANGED <<Secure!host, keyed, running, Secure!feeds, cut, refused>>
    BY <1>6 DEF Secure!PageCloses, Secure!Page
  <2>2. ppc'[s] = "closed"
    BY <1>a, <2>1
  <2>3. ppc'[s] \notin Active
    BY <2>2
  <2> HIDE DEF ToldThen, Active
  <2> QED
    BY <1>b, <2>1, <2>2, <2>3
<1>7. ASSUME Secure!Receive PROVE Secure!PagesInv'
  <2> DEFINE f == Head(toHost)
             s == f.sid
             Kept(q) == keyed'[q] # None /\ keyed'[q].key = keyed[q].key /\ q \in running'
             Ahead(q) == ppc[q] \notin Active /\ \A i \in DOMAIN toHost' : toHost'[i].sid # q
  <2>1. /\ hpc = "reading" /\ toHost # <<>> /\ toHost' = Tail(toHost)
        /\ UNCHANGED <<hostkey, code, link, ppc, pkey, cut, toPage>>
    BY <1>7 DEF Secure!Receive, Secure!host
  <2>2. /\ f \in Frame /\ f = toHost[1] /\ 1 \in DOMAIN toHost
        /\ \A i \in DOMAIN toHost' : i + 1 \in DOMAIN toHost /\ toHost'[i] = toHost[i + 1]
    BY <1>a, <2>1, ReadFacts
  <2>3. s \in Tab
    BY <2>2 DEF Frame
  <2>4. /\ keyed[s] = None => Secure!SessionOf(s) # None
        /\ keyed[s] # None => Secure!SessionOf(s) = keyed[s]
    BY <1>a, <2>3, SessionFacts
  <2>5. \A q \in Tab : Secure!Served(q) => keyed[q] # None /\ keyed[q].key = K(q) /\ q \in running
    BY <2>1 DEF Secure!Served
  <2>6. SUFFICES /\ refused' \subseteq cut
                 /\ \A q \in Tab : keyed[q] # None /\ q \in running => Kept(q) \/ Ahead(q)
    <3>1. \A q \in Tab : Secure!Served(q) /\ Kept(q) => ServedThen(q)
      BY <2>1, <2>5
    <3>2. \A i \in DOMAIN toHost' : \E j \in DOMAIN toHost : toHost'[i] = toHost[j]
      BY <2>2
    <3> HIDE DEF Kept, ServedThen, Active
    <3> QED
      BY <1>e, <2>1, <2>5, <2>6, <3>1, <3>2
  <2>7. CASE \/ f.kind = "H" /\ keyed' = [keyed EXCEPT ![s] = Secure!SessionOf(s)]
                /\ UNCHANGED <<running, refused>>
             \/ f.kind = "A" /\ ~Secure!Decrypts(f) /\ refused' = refused \cup {s}
                /\ keyed' = [keyed EXCEPT ![s] = Secure!SessionOf(s)] /\ UNCHANGED running
    <3>1. refused' \subseteq cut
      <4>1. f.kind = "A" /\ ~Secure!Decrypts(f) => s \in cut
        <5> SUFFICES ASSUME f.kind = "A", s \notin cut PROVE Secure!Decrypts(f)
          OBVIOUS
        <5>1. f.key = K(s) /\ Secure!Served(s)
          BY <1>p, <2>2
        <5> QED
          BY <2>3, <2>4, <2>5, <5>1 DEF Secure!Decrypts
      <4> QED
        BY <1>p, <2>7, <4>1
    <3> HIDE DEF f, Ahead
    <3>2. \A q \in Tab : keyed[q] # None /\ q \in running => Kept(q)
      BY <1>a, <2>3, <2>4, <2>7
    <3> QED
      BY <3>1, <3>2
  <2>8. CASE UNCHANGED <<keyed, running, refused>>
    BY <1>p, <2>8
  <2>9. CASE /\ f.kind = "A" /\ Secure!Decrypts(f)
             /\ keyed' = [keyed EXCEPT ![s].fired = TRUE] /\ UNCHANGED <<running, refused>>
    <3>1. keyed[s] # None
      BY <2>1, <2>9, OpenedFrame
    <3>2. /\ keyed'[s] = [keyed[s] EXCEPT !.fired = TRUE]
          /\ \A q \in Tab : q # s => keyed'[q] = keyed[q]
      BY <1>a, <2>3, <2>9
    <3>3. keyed'[s] \in Secure!Sessions /\ keyed'[s].key = keyed[s].key
      <4> DEFINE e == keyed[s]
      <4>1. e \in Secure!Sessions
        BY <1>a, <2>3, <3>1
      <4> HIDE DEF e
      <4>2. [e EXCEPT !.fired = TRUE] \in Secure!Sessions /\ [e EXCEPT !.fired = TRUE].key = e.key
        BY <4>1 DEF Secure!Sessions
      <4> QED
        BY <3>2, <4>2 DEF e
    <3>4. keyed'[s] # None
      BY <3>3, SecureAssumption DEF Secure!ConstantsAssumption
    <3> HIDE DEF Ahead
    <3>5. \A q \in Tab : keyed[q] # None /\ q \in running => Kept(q)
      BY <2>9, <3>2, <3>3, <3>4
    <3> QED
      BY <1>p, <2>9, <3>5
  <2>10. CASE /\ f.kind = "C" /\ keyed' = [keyed EXCEPT ![s] = None]
              /\ running' = running \ {s} /\ UNCHANGED refused
    <3>1. /\ ppc[s] = "closed"
          /\ \A j \in DOMAIN toHost : j > 1 => toHost[j].sid # s
      BY <2>2, <2>10 DEF Secure!FramesInv, Secure!Sound
    <3>2. \A i \in DOMAIN toHost' : i + 1 > 1
      <4>1. DOMAIN toHost' = 1..Len(toHost') /\ Len(toHost') \in Nat
        BY <1>a, <2>1, ReadFacts, LenProperties
      <4> QED
        BY <4>1
    <3>3. Ahead(s)
      BY <2>2, <3>1, <3>2
    <3> HIDE DEF f, Ahead
    <3>4. \A q \in Tab : q # s /\ keyed[q] # None /\ q \in running => Kept(q)
      BY <1>a, <2>3, <2>10
    <3> QED
      BY <1>p, <2>10, <3>3, <3>4
  <2> HIDE DEF Kept, Ahead
  <2> QED
    BY <1>7, <2>7, <2>8, <2>9, <2>10 DEF Secure!Receive
<1>8. ASSUME Secure!Respond PROVE Secure!PagesInv'
  <2> DEFINE s == frame.sid
  <2>1. /\ hpc = "pairing" /\ hpc' = "responding" /\ s \in Tab /\ ppc[s] # "new"
        /\ toPage' = [toPage EXCEPT ![s] = Append(toPage[s], K(s))]
        /\ UNCHANGED <<hostkey, code, link, keyed, running, frame, toHost, ppc, pkey, cut, refused>>
    BY <1>a, <1>8 DEF Secure!Respond, Secure!HostInv, Secure!host, Secure!pages
  <2>2. \A q \in Tab : Secure!Served(q) => ServedThen(q)
    BY <2>1 DEF Secure!Served
  <2>3. ServedThen(s)
    BY <2>1
  <2>4. \A q \in Tab : q # s => toPage'[q] = toPage[q]
    BY <1>a, <2>1
  <2>5. toPage'[s] = Append(toPage[s], K(s))
    BY <1>a, <2>1
  <2> HIDE DEF ServedThen, Active, K
  <2> QED
    BY <1>e, <1>p, <2>1, <2>2, <2>3, <2>4, <2>5
<1>9. ASSUME Secure!Establish PROVE Secure!PagesInv'
  <2> DEFINE s == frame.sid
             k == K(s)
  <2>1. /\ hpc = "responding" /\ s \in Tab /\ keyed[s] # None /\ k # None /\ k \in Secure!Keys
        /\ keyed' = [keyed EXCEPT ![s].key = k] /\ running' = running \cup {s}
        /\ UNCHANGED <<hostkey, code, link, toHost, toPage, ppc, pkey, cut, refused>>
    BY <1>a, <1>9, KeyFacts
       DEF Secure!Establish, Secure!HostInv, Secure!host, Secure!wires, Secure!pages
  <2> HIDE DEF k, s
  <2>2. keyed'[s] = [keyed[s] EXCEPT !.key = k] /\ \A q \in Tab : q # s => keyed'[q] = keyed[q]
    BY <1>a, <2>1
  <2>3. keyed'[s] # None /\ keyed'[s].key = k
    <3>1. keyed[s] = [key |-> keyed[s].key, fired |-> keyed[s].fired] /\ keyed[s] \in Secure!Sessions
      BY <1>a, <2>1 DEF Secure!Sessions
    <3>2. keyed'[s] = [key |-> k, fired |-> keyed[s].fired]
      BY <2>2, <3>1
    <3>3. [key |-> k, fired |-> keyed[s].fired] \in Secure!Sessions
      BY <2>1, <3>1 DEF Secure!Sessions
    <3> QED
      BY <3>2, <3>3, SecureAssumption DEF Secure!ConstantsAssumption
  <2>4. \A q \in Tab : Secure!Served(q) => ServedThen(q)
    <3>1. ServedThen(s)
      BY <2>1, <2>3 DEF k
    <3>2. \A q \in Tab : q # s /\ Secure!Served(q) => ServedThen(q)
      BY <2>1, <2>2 DEF Secure!Served, s
    <3> QED
      BY <3>1, <3>2
  <2> HIDE DEF ServedThen, Active
  <2> QED
    BY <1>e, <1>p, <2>1, <2>4
<1>10. ASSUME Secure!Forward PROVE Secure!PagesInv'
  <2>1. /\ hpc = "connected"
        /\ UNCHANGED <<hostkey, code, link, keyed, running, toHost, toPage, ppc, pkey, cut, refused>>
    BY <1>10 DEF Secure!Forward, Secure!host, Secure!wires
  <2>2. \A q \in Tab : Secure!Served(q) => ServedThen(q)
    BY <2>1 DEF Secure!Served
  <2> HIDE DEF ServedThen, Active
  <2> QED
    BY <1>e, <1>p, <2>1, <2>2
<1>11. ASSUME Secure!LoseLink PROVE Secure!PagesInv'
  BY <1>11, <1>f, <1>p DEF Secure!LoseLink, Secure!pages
<1>12. ASSUME Secure!SendRaises PROVE Secure!PagesInv'
  BY <1>12, <1>d, <1>f, <1>p DEF Secure!SendRaises, Secure!wires, Secure!pages
<1>13. ASSUME Secure!StopHost PROVE Secure!PagesInv'
  BY <1>13, <1>d, <1>f, <1>p DEF Secure!StopHost, Secure!wires, Secure!pages
<1>14. ASSUME NEW i \in HostKey, NEW c \in Code, Secure!Reconnect(i, c) PROVE Secure!PagesInv'
  BY <1>14, <1>d, <1>f, <1>p DEF Secure!Reconnect, Secure!wires, Secure!pages
<1> QED
  BY <1>1, <1>2, <1>3, <1>4, <1>5, <1>6, <1>7, <1>8, <1>9, <1>10, <1>11, <1>12, <1>13, <1>14,
     SecureCases

\* A host that starts, and pages that have not begun.
LEMMA SecureInit == Secure!Init => Secure!SecureInv
<1> SUFFICES ASSUME Secure!Init PROVE Secure!SecureInv
  OBVIOUS
<1> USE DEF Secure!Init
<1>1. toHost \in Seq([sid : Tab, kind : {"H", "A", "C"}, key : Secure!Keys \cup {None}])
  BY EmptySeq
<1>2. toPage \in [Tab -> Seq(Secure!Keys)]
  BY EmptySeq
<1>3. Secure!TypeOK
  BY <1>1, <1>2 DEF Secure!TypeOK
<1>4. DOMAIN toHost = {}
  OBVIOUS
<1>5. Secure!HostInv /\ Secure!FramesInv /\ Secure!PagesInv
  BY <1>4 DEF Secure!HostInv, Secure!FramesInv, Secure!PagesInv
<1> QED
  BY <1>3, <1>5 DEF Secure!SecureInv

\* Host and pages never leave the invariant.
LEMMA SecureInvariance == ServicesSpec => [](part = "secure" => Secure!SecureInv)
<1> DEFINE Inv == part = "secure" => Secure!SecureInv
<1>1. ServicesInit => Inv
  BY SecureInit DEF ServicesInit
<1>2. Inv /\ [ServicesNext]_all => Inv'
  <2> SUFFICES ASSUME Inv, [ServicesNext]_all, part' = "secure" PROVE Secure!SecureInv'
    OBVIOUS
  <2>1. part = "secure" /\ [Secure!Next]_(Secure!vars)
    BY DEF ServicesNext, all, secure, Secure!vars
  <2>2. Secure!SecureInv /\ Secure!TypeOK /\ Secure!HostInv /\ Secure!FramesInv
    BY <2>1 DEF Secure!SecureInv
  <2>3. Secure!TypeOK' /\ Secure!HostInv' /\ Secure!FramesInv' /\ Secure!PagesInv'
    BY <2>1, <2>2, SecureTypeStep, HostStep, FramesStep, PagesStep
  <2> QED
    BY <2>3 DEF Secure!SecureInv
<1> QED
  BY <1>1, <1>2, PTL DEF ServicesSpec

\* Only a page that derived the key of its session, with the code of the
\* screen, is reported as connected, and only keyed sessions have a proxy.
THEOREM ConnectionSafety == ServicesSpec => []ConnectedKnowsCode
<1>1. (part = "secure" => Secure!SecureInv) => ConnectedKnowsCode
  BY DEF Secure!SecureInv, Secure!HostInv, ConnectedKnowsCode, Secure!ConnectedKnowsCode
<1> QED
  BY <1>1, SecureInvariance, PTL

\* A page that is connected is served with its key, and its frames are not
\* dropped, while the host keeps its link.
THEOREM HearingSafety == ServicesSpec => []SecurePageIsHeard
<1>1. (part = "secure" => Secure!SecureInv) => SecurePageIsHeard
  <2> SUFFICES ASSUME Secure!PagesInv PROVE Secure!SecurePageIsHeard
    BY DEF Secure!SecureInv, SecurePageIsHeard
  <2>1. \A s \in Tab \ cut : ppc[s] = "secure" =>
          pkey[s] = Secure!Key(s, hostkey, code) /\ Secure!Served(s)
    BY DEF Secure!PagesInv, Secure!Told
  <2> QED
    BY <2>1 DEF Secure!PagesInv, Secure!Served, Secure!SecurePageIsHeard
<1> QED
  BY <1>1, SecureInvariance, PTL

-----------------------------------------------------------------------------
(* Reconnect tokens *)

\* A ping of a page, the cleanup, the clock and a revocation leave the stored
\* tokens as old as the last pings of their pages.
LEMMA TokensStep ==
  Tokens!TypeOK /\ Tokens!TokenFollowsPings /\ [Tokens!Next]_(Tokens!vars)
    => Tokens!TypeOK' /\ Tokens!TokenFollowsPings'
<1> SUFFICES ASSUME Tokens!TypeOK, Tokens!TokenFollowsPings, [Tokens!Next]_(Tokens!vars)
             PROVE  Tokens!TypeOK' /\ Tokens!TokenFollowsPings'
  OBVIOUS
<1> USE TokensAssumption DEF Tokens!ConstantsAssumption, Tokens!TypeOK, Tokens!TokenFollowsPings
<1>1. /\ Tokens!Cleanup \in [Tab -> Nat \cup {None}]
      /\ \A p \in Tab : \/ Tokens!Cleanup[p] = tokens[p]
                        \/ /\ Tokens!Cleanup[p] = None /\ tokens[p] # None
                           /\ now - tokens[p] > Ttl
      /\ \A p \in Tab : Tokens!Cleanup[p] # None => Tokens!Cleanup[p] = tokens[p]
                                                    /\ now - tokens[p] <= Ttl
  BY DEF Tokens!Cleanup
<1> HIDE DEF Tokens!Cleanup
<1>2. CASE UNCHANGED Tokens!vars
  BY <1>2 DEF Tokens!vars
<1>3. CASE Tokens!Tick
  BY <1>3 DEF Tokens!Tick
<1>4. CASE Tokens!Verify
  BY <1>1, <1>4 DEF Tokens!Verify
<1>5. ASSUME NEW p \in Tab, Tokens!Revoke(p)
      PROVE  Tokens!TypeOK' /\ Tokens!TokenFollowsPings'
  BY <1>5 DEF Tokens!Revoke
<1>6. ASSUME NEW p \in Tab, Tokens!HandlePing(p)
      PROVE  Tokens!TypeOK' /\ Tokens!TokenFollowsPings'
  <2>1. /\ now' = now
        /\ pinged' = [pinged EXCEPT ![p] = now]
        /\ issued' = issued \cup {p}
        /\ revoked' = revoked
        /\ lapsed' = lapsed \cup (IF pinged[p] # None /\ now - pinged[p] > Ttl THEN {p} ELSE {})
    BY <1>6 DEF Tokens!HandlePing, Tokens!Refresh, Tokens!Generate
  <2>2. /\ tokens' \in [Tab -> Nat \cup {None}]
        /\ \A q \in Tab \ {p} : tokens'[q] = Tokens!Cleanup[q]
        /\ tokens'[p] = IF p \in issued /\ Tokens!Cleanup[p] = None THEN None ELSE now
    BY <1>1, <1>6 DEF Tokens!HandlePing, Tokens!Refresh, Tokens!Generate
  <2>3. Tokens!TypeOK'
    BY <2>1, <2>2
  <2>4. ASSUME NEW q \in Tab, q # p
        PROVE  /\ q \in issued' <=> pinged'[q] # None
               /\ q \in lapsed' \cup revoked' => q \in issued' /\ tokens'[q] = None
               /\ tokens'[q] # None => q \in issued' /\ tokens'[q] = pinged'[q]
               /\ q \in issued' => /\ pinged'[q] <= now'
                                   /\ \/ tokens'[q] # None \/ q \in lapsed' \cup revoked'
                                      \/ now' - pinged'[q] > Ttl
    BY <1>1, <2>1, <2>2, <2>4
  <2>5. /\ p \in issued' /\ pinged'[p] = now /\ pinged'[p] # None
        /\ tokens'[p] # None => tokens'[p] = pinged'[p]
        /\ pinged'[p] <= now'
    BY <2>1, <2>2
  <2>6. /\ p \in lapsed' \cup revoked' => tokens'[p] = None
        /\ tokens'[p] # None \/ p \in lapsed' \cup revoked'
    <3>1. CASE p \notin issued
      BY <3>1, <2>1, <2>2
    <3>2. CASE p \in issued
      BY <3>2, <1>1, <2>1, <2>2
    <3> QED
      BY <3>1, <3>2
  <2> QED
    BY <2>3, <2>4, <2>5, <2>6
<1> QED
  BY <1>2, <1>3, <1>4, <1>5, <1>6 DEF Tokens!Next

\* A page whose token is stored pinged in time, and one that pinged in time has
\* its token.
THEOREM TokenSafety == ServicesSpec => []TokenLivesWithItsPage
<1> DEFINE Inv == part = "tokens" => Tokens!TypeOK /\ Tokens!TokenFollowsPings
<1>1. ServicesInit => Inv
  BY TokensAssumption
     DEF ServicesInit, Tokens!Init, Tokens!ConstantsAssumption, Tokens!TypeOK,
         Tokens!TokenFollowsPings
<1>2. Inv /\ [ServicesNext]_all => Inv'
  <2> SUFFICES ASSUME Inv, [ServicesNext]_all, part' = "tokens"
               PROVE  Tokens!TypeOK' /\ Tokens!TokenFollowsPings'
    OBVIOUS
  <2>1. part = "tokens" /\ [Tokens!Next]_(Tokens!vars)
    BY DEF ServicesNext, all, tokenage, Tokens!vars
  <2> QED
    BY <2>1, TokensStep
<1>3. Inv => TokenLivesWithItsPage
  BY TokensAssumption
     DEF TokenLivesWithItsPage, Tokens!TokenLivesWithItsPage, Tokens!Cleanup,
         Tokens!ConstantsAssumption, Tokens!TypeOK, Tokens!TokenFollowsPings
<1> QED
  BY <1>1, <1>2, <1>3, PTL DEF ServicesSpec
=============================================================================
