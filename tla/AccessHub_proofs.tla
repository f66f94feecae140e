-------------------------- MODULE AccessHub_proofs --------------------------
(***************************************************************************)
(* Theorems about AccessHub, for any sets of addresses, users, hosts,      *)
(* tunnels, invites and requests, any limit, window and time to live.      *)
(***************************************************************************)
EXTENDS MCSessionsHub, FiniteSetTheorems, TLAPS

\* The instance counts as its environment does.
LEMMA HubCounts == \A S : (Hub!IsFiniteSet(S) <=> IsFiniteSet(S)) /\ Hub!Cardinality(S) = Cardinality(S)
<1>1. \A S : Hub!IsFiniteSet(S) <=> IsFiniteSet(S)
  BY DEF Hub!IsFiniteSet, IsFiniteSet
<1>2. \A S : Hub!Cardinality(S) = Cardinality(S)
  BY DEF Hub!Cardinality, Cardinality
<1>3. QED
  BY <1>1, <1>2

\* Types hold initially and are preserved by every step.
LEMMA TypeInit == Hub!Init => Hub!TypeOK
BY HubCounts, FS_EmptySet DEF Hub!Init, Hub!TypeOK

LEMMA TypeStep == Hub!ConstantsAssumption /\ Hub!TypeOK /\ [Hub!Next]_Hub!vars => Hub!TypeOK'
<1> SUFFICES ASSUME Hub!ConstantsAssumption, Hub!TypeOK, [Hub!Next]_Hub!vars PROVE Hub!TypeOK'
  OBVIOUS
<1> USE DEF Hub!TypeOK, Hub!ConstantsAssumption, Hub!clockwork, Hub!accounts, Hub!linked, Hub!asking
<1>1. CASE Hub!Tick
  BY <1>1 DEF Hub!Tick
<1>2. ASSUME NEW r \in Req, NEW ip \in Ip, Hub!Login(r, ip) PROVE Hub!TypeOK'
  <2> DEFINE a == [ip |-> ip, req |-> r, at |-> now]
             kept == Hub!Others(ip) \cup Hub!Recent(ip)
  <2>1. kept \subseteq attempts
    BY DEF Hub!Others, Hub!Recent
  <2>2. IsFiniteSet(kept)
    BY <2>1, HubCounts, FS_Subset
  <2>3. IsFiniteSet(kept \cup {a})
    BY <2>2, FS_AddElement
  <2>4. a \in [ip : Ip, req : Req, at : Nat] /\ [ip |-> ip, at |-> now] \in [ip : Ip, at : Nat]
    OBVIOUS
  <2>5. attempts' \in {kept, kept \cup {a}}
    BY <1>2 DEF Hub!Login
  <2>6. attempts' \in SUBSET [ip : Ip, req : Req, at : Nat] /\ IsFiniteSet(attempts')
    BY <2>1, <2>2, <2>3, <2>4, <2>5
  <2>7. /\ tried' \in [Req -> [ip : Ip, at : Nat] \cup {None}]
        /\ doing' \in [Req -> {"new", "password", "naming", "asking", "done", "refused"}]
    BY <1>2, <2>4 DEF Hub!Login, Hub!Go
  <2>8. QED
    BY <1>2, <2>6, <2>7, HubCounts DEF Hub!Login
<1>3. ASSUME NEW r \in Req, NEW u \in User, Hub!CheckPassword(r, u) PROVE Hub!TypeOK'
  BY <1>3 DEF Hub!CheckPassword, Hub!CreateSession, Hub!Refuse, Hub!Go
<1>4. ASSUME NEW r \in Req, NEW k \in Req, Hub!RequestHost(r, k) PROVE Hub!TypeOK'
  BY <1>4 DEF Hub!RequestHost, Hub!Go
<1>5. ASSUME NEW r \in Req, NEW h \in Host, NEW i \in Invite, Hub!TokenLogin(r, h, i) PROVE Hub!TypeOK'
  BY <1>5, SMTT(30) DEF Hub!TokenLogin, Hub!Go
<1>6. ASSUME NEW r \in Req, NEW h \in Host, Hub!CreateHost(r, h) PROVE Hub!TypeOK'
  BY <1>6 DEF Hub!CreateHost, Hub!StoreHost, Hub!Go
<1>7. ASSUME NEW r \in Req, Hub!Logout(r) PROVE Hub!TypeOK'
  BY <1>7 DEF Hub!Logout
<1>8. ASSUME NEW r \in Req, Hub!Verify(r) PROVE Hub!TypeOK'
  BY <1>8 DEF Hub!Verify
<1>9. ASSUME NEW r \in Req, Hub!Answer(r) PROVE Hub!TypeOK'
  BY <1>9 DEF Hub!Answer, Hub!CreateSession, Hub!Refuse, Hub!Go
<1>10. ASSUME NEW r \in Req, Hub!TimesOut(r) PROVE Hub!TypeOK'
  BY <1>10 DEF Hub!TimesOut, Hub!Refuse, Hub!Go
<1>11. ASSUME NEW t \in Tunnel, NEW h \in Host, Hub!OpenTunnel(t, h) PROVE Hub!TypeOK'
  BY <1>11 DEF Hub!OpenTunnel, Hub!At
<1>12. ASSUME NEW t \in Tunnel, Hub!Greeted(t) PROVE Hub!TypeOK'
  BY <1>12 DEF Hub!Greeted, Hub!Register, Hub!At
<1>13. ASSUME NEW t \in Tunnel, Hub!Replaced(t) PROVE Hub!TypeOK'
  BY <1>13 DEF Hub!Replaced, Hub!Register, Hub!At
<1>14. ASSUME NEW t \in Tunnel, Hub!GreetingFails(t) PROVE Hub!TypeOK'
  BY <1>14 DEF Hub!GreetingFails, Hub!At
<1>15. ASSUME NEW t \in Tunnel, Hub!TunnelEnds(t) PROVE Hub!TypeOK'
  BY <1>15 DEF Hub!TunnelEnds, Hub!Abandon, Hub!Waiting, Hub!At
<1>16. ASSUME NEW i \in Invite, Hub!Generate(i) PROVE Hub!TypeOK'
  BY <1>16 DEF Hub!Generate
<1>17. CASE UNCHANGED Hub!vars
  BY <1>17 DEF Hub!vars
<1>18. QED
  BY <1>1, <1>2, <1>3, <1>4, <1>5, <1>6, <1>7, <1>8, <1>9, <1>10, <1>11, <1>12, <1>13, <1>14,
     <1>15, <1>16, <1>17 DEF Hub!Next

-----------------------------------------------------------------------------
(* The limiter *)

\* The attempts of one address that fall into the window from a time on.
Tries(ip, from) == {r \in Req : tried[r] # None /\ tried[r].ip = ip
                                /\ tried[r].at \in from .. from + Window - 1}

\* Attempts in a window that holds the present are still stored, so that there
\* are no more of them than check counts.
LEMMA TriesAreCounted ==
  ASSUME Hub!ConstantsAssumption, Hub!TypeOK, Hub!LimiterInv, NEW ip \in Ip, NEW from \in Nat,
         now \in from .. from + Window - 1
  PROVE  /\ IsFiniteSet(Hub!Recent(ip)) /\ IsFiniteSet(Tries(ip, from))
         /\ Cardinality(Hub!Recent(ip)) \in Nat
         /\ Cardinality(Tries(ip, from)) <= Cardinality(Hub!Recent(ip))
<1> USE DEF Hub!TypeOK, Hub!ConstantsAssumption
<1>1. IsFiniteSet(Hub!Recent(ip)) /\ Cardinality(Hub!Recent(ip)) \in Nat
  BY HubCounts, FS_Subset, FS_CardinalityType DEF Hub!Recent
<1> DEFINE f == [r \in Tries(ip, from) |-> [ip |-> ip, req |-> r, at |-> tried[r].at]]
<1>2. \A r \in Tries(ip, from) : f[r] \in Hub!Recent(ip)
  <2> TAKE r \in Tries(ip, from)
  <2>1. tried[r] # None /\ tried[r].ip = ip /\ tried[r].at \in from .. from + Window - 1 /\ r \in Req
    BY DEF Tries
  <2>2. tried[r] \in [ip : Ip, at : Nat]
    BY <2>1
  <2>3. tried[r].at \in Nat /\ now - tried[r].at < Window
    BY <2>1, <2>2
  <2>4. [ip |-> tried[r].ip, req |-> r, at |-> tried[r].at] \in attempts
    BY <2>1, <2>3 DEF Hub!LimiterInv
  <2>5. f[r] \in attempts /\ f[r].ip = ip /\ f[r].at = tried[r].at
    BY <2>1, <2>4
  <2>6. QED
    BY <2>3, <2>5 DEF Hub!Recent
<1>3. f \in Injection(Tries(ip, from), Hub!Recent(ip))
  <2>1. f \in [Tries(ip, from) -> Hub!Recent(ip)]
    BY <1>2
  <2>2. \A q, r \in Tries(ip, from) : f[q] = f[r] => q = r
    <3> SUFFICES ASSUME NEW q \in Tries(ip, from), NEW r \in Tries(ip, from), f[q] = f[r] PROVE q = r
      OBVIOUS
    <3>1. f[q].req = q /\ f[r].req = r
      OBVIOUS
    <3>2. QED
      BY <3>1
  <2>3. QED
    BY <2>1, <2>2 DEF Injection, IsInjective
<1> HIDE DEF f
<1>4. IsFiniteSet(Tries(ip, from)) /\ Cardinality(Tries(ip, from)) <= Cardinality(Hub!Recent(ip))
  BY <1>1, <1>3, FS_Injection
<1>5. QED
  BY <1>1, <1>4

\* Where no attempt is added and time may pass, the limiter's invariant stays.
LEMMA LimiterQuiet ==
  ASSUME Hub!ConstantsAssumption, Hub!TypeOK, Hub!LimiterInv, now' \in Nat, now' >= now,
         UNCHANGED <<attempts, tried>>,
         \A r \in Req : doing'[r] = "new" => doing[r] = "new"
  PROVE  Hub!LimiterInv'
<1>1. Hub!LimiterHolds'
  BY DEF Hub!LimiterInv, Hub!LimiterHolds
<1>2. ASSUME NEW r \in Req, tried'[r] # None
      PROVE  /\ doing'[r] # "new" /\ tried'[r].at <= now'
             /\ now' - tried'[r].at < Window =>
                  [ip |-> tried'[r].ip, req |-> r, at |-> tried'[r].at] \in attempts'
  <2>1. tried[r].at \in Nat
    BY <1>2 DEF Hub!TypeOK
  <2>2. doing[r] # "new" /\ tried[r].at <= now
    BY <1>2 DEF Hub!LimiterInv
  <2>3. now' - tried[r].at < Window => now - tried[r].at < Window
    BY <2>1, <2>2 DEF Hub!TypeOK, Hub!ConstantsAssumption
  <2>4. QED
    BY <1>2, <2>1, <2>2, <2>3 DEF Hub!LimiterInv, Hub!TypeOK
<1>3. QED
  BY <1>1, <1>2 DEF Hub!LimiterInv

\* A sign-in is let in only when the window up to now has room for it.
LEMMA LimiterLogin ==
  ASSUME Hub!ConstantsAssumption, Hub!TypeOK, Hub!LimiterInv,
         NEW r \in Req, NEW ip \in Ip, Hub!Login(r, ip)
  PROVE  Hub!LimiterInv'
<1> DEFINE a == [ip |-> ip, req |-> r, at |-> now]
           room == Cardinality(Hub!Recent(ip)) < Limit
<1>1. /\ UNCHANGED now /\ doing[r] = "new"
      /\ doing' \in [Req -> {"password", "refused"} \cup {doing[q] : q \in Req}]
      /\ \A q \in Req \ {r} : doing'[q] = doing[q]
      /\ doing'[r] # "new"
      /\ Hub!Others(ip) \cup Hub!Recent(ip) \subseteq attempts'
      /\ \A q \in Req \ {r} : tried'[q] = tried[q]
      /\ room => tried'[r] = [ip |-> ip, at |-> now] /\ a \in attempts'
      /\ ~room => tried' = tried
  BY HubCounts DEF Hub!Login, Hub!Go, Hub!TypeOK
<1>2. tried[r] = None
  BY <1>1 DEF Hub!LimiterInv
<1>3. ASSUME NEW q \in Req, tried'[q] # None
      PROVE  /\ doing'[q] # "new" /\ tried'[q].at <= now'
             /\ now' - tried'[q].at < Window =>
                  [ip |-> tried'[q].ip, req |-> q, at |-> tried'[q].at] \in attempts'
  <2>1. CASE q = r
    <3>1. room /\ tried'[r].ip = ip /\ tried'[r].at = now
      BY <2>1, <1>1, <1>2, <1>3
    <3>2. QED
      BY <2>1, <3>1, <1>1 DEF Hub!TypeOK
  <2>2. CASE q # r
    <3> DEFINE b == [ip |-> tried[q].ip, req |-> q, at |-> tried[q].at]
    <3>1. tried'[q] = tried[q] /\ tried[q] \in [ip : Ip, at : Nat] /\ doing'[q] = doing[q]
      BY <2>2, <1>1, <1>3 DEF Hub!TypeOK
    <3>2. doing[q] # "new" /\ tried[q].at <= now /\ (now - tried[q].at < Window => b \in attempts)
      BY <3>1, <1>3 DEF Hub!LimiterInv
    <3>3. now - tried[q].at < Window => b \in Hub!Others(ip) \cup Hub!Recent(ip)
      BY <3>2 DEF Hub!Others, Hub!Recent
    <3>4. QED
      BY <3>1, <3>2, <3>3, <1>1
  <2>3. QED
    BY <2>1, <2>2
<1>4. ASSUME NEW jp \in Ip, NEW from \in 0 .. MaxTime
      PROVE  Cardinality({q \in Req : tried'[q] # None /\ tried'[q].ip = jp
                                      /\ tried'[q].at \in from .. from + Window - 1}) <= Limit
  <2> DEFINE later == {q \in Req : tried'[q] # None /\ tried'[q].ip = jp
                                   /\ tried'[q].at \in from .. from + Window - 1}
  <2>1. Cardinality(Tries(jp, from)) <= Limit
    BY <1>4, HubCounts DEF Hub!LimiterInv, Hub!LimiterHolds, Tries
  <2>2. CASE room /\ jp = ip /\ now \in from .. from + Window - 1
    <3>1. from \in Nat
      OBVIOUS
    <3>2. /\ IsFiniteSet(Tries(ip, from)) /\ Cardinality(Hub!Recent(ip)) \in Nat
          /\ Cardinality(Tries(ip, from)) <= Cardinality(Hub!Recent(ip))
      BY <2>2, <3>1, TriesAreCounted
    <3>3. later = Tries(ip, from) \cup {r} /\ r \notin Tries(ip, from)
      <4>1. [ip |-> ip, at |-> now] \in [ip : Ip, at : Nat]
        BY DEF Hub!TypeOK
      <4>2. tried'[r] = [ip |-> ip, at |-> now] /\ tried'[r] # None
        BY <2>2, <1>1, <4>1 DEF Hub!ConstantsAssumption
      <4>3. tried'[r].ip = ip /\ tried'[r].at = now
        BY <4>2
      <4>4. QED
        BY <2>2, <1>1, <1>2, <4>2, <4>3 DEF Tries
    <3>4. Cardinality(later) = Cardinality(Tries(ip, from)) + 1 /\ Cardinality(Tries(ip, from)) \in Nat
      BY <3>2, <3>3, FS_AddElement, FS_CardinalityType
    <3>5. \A x, y, z : x \in Nat /\ y \in Nat /\ z = x + 1 /\ x <= y /\ y < Limit => z <= Limit
      BY DEF Hub!ConstantsAssumption
    <3>6. QED
      BY <2>2, <3>2, <3>4, <3>5
  <2>3. CASE ~(room /\ jp = ip /\ now \in from .. from + Window - 1)
    <3>1. later = Tries(jp, from)
      BY <2>3, <1>1, <1>2 DEF Tries
    <3>2. QED
      BY <2>1, <3>1
  <2>4. QED
    BY <2>2, <2>3
<1>5. Hub!LimiterHolds'
  BY <1>4, HubCounts DEF Hub!LimiterHolds
<1>6. QED
  BY <1>3, <1>5 DEF Hub!LimiterInv

LEMMA LimiterInit == Hub!ConstantsAssumption /\ Hub!Init => Hub!LimiterInv
<1> SUFFICES ASSUME Hub!ConstantsAssumption, Hub!Init PROVE Hub!LimiterInv
  OBVIOUS
<1>1. ASSUME NEW ip \in Ip, NEW from \in 0 .. MaxTime
      PROVE  {r \in Req : tried[r] # None /\ tried[r].ip = ip
                           /\ tried[r].at \in from .. from + Window - 1} = {}
  BY DEF Hub!Init
<1>2. Hub!LimiterHolds
  <2>1. Cardinality({}) <= Limit
    BY FS_EmptySet DEF Hub!ConstantsAssumption
  <2>2. QED
    BY <1>1, <2>1, HubCounts DEF Hub!LimiterHolds
<1>3. QED
  BY <1>2 DEF Hub!LimiterInv, Hub!Init

LEMMA LimiterStep ==
  ASSUME Hub!ConstantsAssumption, Hub!TypeOK, Hub!LimiterInv, [Hub!Next]_Hub!vars
  PROVE  Hub!LimiterInv'
<1>1. ASSUME NEW r \in Req, NEW ip \in Ip, Hub!Login(r, ip) PROVE Hub!LimiterInv'
  BY <1>1, LimiterLogin
<1>2. CASE Hub!Tick
  BY <1>2, LimiterQuiet DEF Hub!Tick, Hub!TypeOK
<1>3. CASE UNCHANGED <<attempts, tried, now>> /\ \A r \in Req : doing'[r] = "new" => doing[r] = "new"
  BY <1>3, LimiterQuiet DEF Hub!TypeOK
<1>4. QED
  <2>1. ASSUME NEW r \in Req, NEW u \in User, Hub!CheckPassword(r, u) PROVE Hub!LimiterInv'
    BY <1>3, <2>1 DEF Hub!CheckPassword, Hub!CreateSession, Hub!Refuse, Hub!Go, Hub!clockwork,
                      Hub!TypeOK
  <2>2. ASSUME NEW r \in Req, NEW k \in Req, Hub!RequestHost(r, k) PROVE Hub!LimiterInv'
    BY <1>3, <2>2 DEF Hub!RequestHost, Hub!Go, Hub!clockwork, Hub!TypeOK
  <2>3. ASSUME NEW r \in Req, NEW h \in Host, NEW i \in Invite, Hub!TokenLogin(r, h, i)
        PROVE  Hub!LimiterInv'
    BY <1>3, <2>3 DEF Hub!TokenLogin, Hub!Go, Hub!clockwork, Hub!TypeOK
  <2>4. ASSUME NEW r \in Req, NEW h \in Host, Hub!CreateHost(r, h) PROVE Hub!LimiterInv'
    BY <1>3, <2>4 DEF Hub!CreateHost, Hub!Go, Hub!clockwork, Hub!TypeOK
  <2>5. ASSUME NEW r \in Req, Hub!Logout(r) \/ Hub!Verify(r) PROVE Hub!LimiterInv'
    BY <1>3, <2>5 DEF Hub!Logout, Hub!Verify, Hub!clockwork
  <2>6. ASSUME NEW r \in Req, Hub!Answer(r) \/ Hub!TimesOut(r) PROVE Hub!LimiterInv'
    BY <1>3, <2>6 DEF Hub!Answer, Hub!TimesOut, Hub!CreateSession, Hub!Refuse, Hub!Go, Hub!clockwork,
                      Hub!TypeOK
  <2>7. ASSUME NEW t \in Tunnel,
               \/ \E h \in Host : Hub!OpenTunnel(t, h)
               \/ Hub!Greeted(t) \/ Hub!Replaced(t) \/ Hub!GreetingFails(t)
        PROVE  Hub!LimiterInv'
    BY <1>3, <2>7 DEF Hub!OpenTunnel, Hub!Greeted, Hub!Replaced, Hub!GreetingFails, Hub!clockwork
  <2>8. ASSUME NEW t \in Tunnel, Hub!TunnelEnds(t) PROVE Hub!LimiterInv'
    BY <1>3, <2>8 DEF Hub!TunnelEnds, Hub!Abandon, Hub!clockwork
  <2>9. ASSUME NEW i \in Invite, Hub!Generate(i) PROVE Hub!LimiterInv'
    BY <1>3, <2>9 DEF Hub!Generate, Hub!clockwork
  <2>10. CASE UNCHANGED Hub!vars
    BY <1>3, <2>10 DEF Hub!vars
  <2>11. QED
    BY <1>1, <1>2, <2>1, <2>2, <2>3, <2>4, <2>5, <2>6, <2>7, <2>8, <2>9, <2>10 DEF Hub!Next

-----------------------------------------------------------------------------
(* Invite links *)

LEMMA InviteInit == Hub!ConstantsAssumption /\ Hub!Init => Hub!InviteInv
BY DEF Hub!ConstantsAssumption, Hub!Init, Hub!InviteInv, Hub!Opens

LEMMA InviteStep ==
  ASSUME Hub!ConstantsAssumption, Hub!TypeOK, Hub!InviteInv, [Hub!Next]_Hub!vars
  PROVE  Hub!InviteInv'
<1> USE DEF Hub!TypeOK, Hub!InviteInv, Hub!Opens, Hub!clockwork, Hub!accounts, Hub!linked, Hub!asking
<1>1. CASE Hub!Tick
  BY <1>1 DEF Hub!Tick
<1>2. ASSUME NEW r \in Req, NEW ip \in Ip, Hub!Login(r, ip) PROVE Hub!InviteInv'
  BY <1>2 DEF Hub!Login, Hub!Go
<1>3. ASSUME NEW r \in Req, NEW u \in User, Hub!CheckPassword(r, u) PROVE Hub!InviteInv'
  BY <1>3 DEF Hub!CheckPassword, Hub!CreateSession, Hub!Refuse, Hub!Go
<1>4. ASSUME NEW r \in Req, NEW k \in Req, Hub!RequestHost(r, k) PROVE Hub!InviteInv'
  BY <1>4 DEF Hub!RequestHost, Hub!Go
<1>5. ASSUME NEW r \in Req, NEW h \in Host, NEW i \in Invite, Hub!TokenLogin(r, h, i)
      PROVE  Hub!InviteInv'
  <2>1. CASE ~Hub!KnownHost(h) \/ tunnels[h] = None
    BY <1>5, <2>1 DEF Hub!TokenLogin, Hub!Go
  <2>2. CASE ~(~Hub!KnownHost(h) \/ tunnels[h] = None)
    <3>1. /\ doing[r] = "new" /\ doing' = [doing EXCEPT ![r] = "asking"]
          /\ asked' = [asked EXCEPT ![r] = i] /\ wire' = [wire EXCEPT ![r] = "asked"]
          /\ UNCHANGED <<invites, issued>>
      BY <1>5, <2>2, Zenon DEF Hub!TokenLogin, Hub!Go
    <3>2. i # None
      BY DEF Hub!ConstantsAssumption
    <3>3. QED
      BY <3>1, <3>2
  <2>3. QED
    BY <2>1, <2>2
<1>6. ASSUME NEW r \in Req, NEW h \in Host, Hub!CreateHost(r, h) PROVE Hub!InviteInv'
  BY <1>6 DEF Hub!CreateHost, Hub!StoreHost, Hub!Go
<1>7. ASSUME NEW r \in Req, Hub!Logout(r) PROVE Hub!InviteInv'
  BY <1>7 DEF Hub!Logout
<1>8. ASSUME NEW r \in Req, Hub!Verify(r) PROVE Hub!InviteInv'
  <2>1. asked[r] \in Invite
    BY <1>8 DEF Hub!Verify
  <2>2. CASE Hub!Live(asked[r])
    <3>1. \A q \in Req : Hub!Opens(q) => asked[q] # asked[r]
      BY <2>1, <2>2 DEF Hub!Live
    <3>2. QED
      BY <1>8, <2>1, <2>2, <3>1 DEF Hub!Verify, Hub!Live
  <2>3. CASE ~Hub!Live(asked[r])
    BY <1>8, <2>1, <2>3 DEF Hub!Verify
  <2>4. QED
    BY <2>2, <2>3
<1>9. ASSUME NEW r \in Req, Hub!Answer(r) PROVE Hub!InviteInv'
  BY <1>9 DEF Hub!Answer, Hub!CreateSession, Hub!Refuse, Hub!Go
<1>10. ASSUME NEW r \in Req, Hub!TimesOut(r) PROVE Hub!InviteInv'
  BY <1>10 DEF Hub!TimesOut, Hub!Refuse, Hub!Go
<1>11. ASSUME NEW t \in Tunnel,
              \/ \E h \in Host : Hub!OpenTunnel(t, h)
              \/ Hub!Greeted(t) \/ Hub!Replaced(t) \/ Hub!GreetingFails(t)
       PROVE  Hub!InviteInv'
  BY <1>11 DEF Hub!OpenTunnel, Hub!Greeted, Hub!Replaced, Hub!GreetingFails
<1>12. ASSUME NEW t \in Tunnel, Hub!TunnelEnds(t) PROVE Hub!InviteInv'
  BY <1>12 DEF Hub!TunnelEnds, Hub!Abandon, Hub!Waiting
<1>13. ASSUME NEW i \in Invite, Hub!Generate(i) PROVE Hub!InviteInv'
  BY <1>13 DEF Hub!Generate
<1>14. CASE UNCHANGED Hub!vars
  BY <1>14 DEF Hub!vars
<1>15. QED
  BY <1>1, <1>2, <1>3, <1>4, <1>5, <1>6, <1>7, <1>8, <1>9, <1>10, <1>11, <1>12, <1>13, <1>14
     DEF Hub!Next

-----------------------------------------------------------------------------
(* The table of tunnels *)

LEMMA TunnelInit == Hub!ConstantsAssumption /\ Hub!Init => Hub!TunnelInv
BY DEF Hub!ConstantsAssumption, Hub!Init, Hub!TunnelInv, Hub!RunningTunnelIsKnown

LEMMA TunnelStep ==
  ASSUME Hub!ConstantsAssumption, Hub!TypeOK, Hub!TunnelInv, [Hub!Next]_Hub!vars
  PROVE  Hub!TunnelInv'
<1> USE DEF Hub!ConstantsAssumption, Hub!TypeOK, Hub!TunnelInv, Hub!RunningTunnelIsKnown,
            Hub!clockwork, Hub!accounts, Hub!linked, Hub!asking
<1>1. ASSUME NEW t \in Tunnel, NEW h \in Host, Hub!OpenTunnel(t, h) PROVE Hub!TunnelInv'
  BY <1>1 DEF Hub!OpenTunnel, Hub!At
<1>2. ASSUME NEW t \in Tunnel, Hub!Greeted(t) PROVE Hub!TunnelInv'
  BY <1>2 DEF Hub!Greeted, Hub!Register, Hub!At
<1>3. ASSUME NEW t \in Tunnel, Hub!Replaced(t) PROVE Hub!TunnelInv'
  BY <1>3 DEF Hub!Replaced, Hub!Register, Hub!At
<1>4. ASSUME NEW t \in Tunnel, Hub!GreetingFails(t) PROVE Hub!TunnelInv'
  BY <1>4 DEF Hub!GreetingFails, Hub!At
<1>5. ASSUME NEW t \in Tunnel, Hub!TunnelEnds(t) PROVE Hub!TunnelInv'
  BY <1>5 DEF Hub!TunnelEnds, Hub!At
<1>6. CASE UNCHANGED Hub!linked
  BY <1>6
<1>7. ASSUME NEW r \in Req, NEW u \in User, Hub!CheckPassword(r, u) PROVE Hub!TunnelInv'
  BY <1>6, <1>7 DEF Hub!CheckPassword
<1>8. ASSUME NEW r \in Req,
             \/ \E ip \in Ip : Hub!Login(r, ip)
             \/ \E k \in Req : Hub!RequestHost(r, k)
             \/ \E h \in Host, i \in Invite : Hub!TokenLogin(r, h, i)
             \/ \E h \in Host : Hub!CreateHost(r, h)
             \/ Hub!Logout(r) \/ Hub!Verify(r) \/ Hub!Answer(r) \/ Hub!TimesOut(r)
      PROVE  Hub!TunnelInv'
  BY <1>6, <1>8 DEF Hub!Login, Hub!RequestHost, Hub!TokenLogin, Hub!CreateHost, Hub!Logout,
                    Hub!Verify, Hub!Answer, Hub!TimesOut
<1>9. CASE Hub!Tick \/ (\E i \in Invite : Hub!Generate(i)) \/ UNCHANGED Hub!vars
  BY <1>6, <1>9 DEF Hub!Tick, Hub!Generate, Hub!vars
<1>10. QED
  BY <1>1, <1>2, <1>3, <1>4, <1>5, <1>7, <1>8, <1>9 DEF Hub!Next

-----------------------------------------------------------------------------
(* Theorems *)

\* Every reachable state is well typed.
THEOREM TypeCorrect == Hub!Spec => []Hub!TypeOK
<1>1. Hub!TypeOK /\ [Hub!Next]_Hub!vars => Hub!TypeOK'
  BY HubAssumption, TypeStep
<1>2. QED
  BY TypeInit, <1>1, PTL DEF Hub!Spec

\* No window of time holds more sign-ins of one address than the limiter allows.
THEOREM LimiterSafety == Hub!Spec => []LimiterHolds
<1>1. Hub!Init => Hub!LimiterInv
  BY HubAssumption, LimiterInit
<1>2. Hub!TypeOK /\ Hub!LimiterInv /\ [Hub!Next]_Hub!vars => Hub!LimiterInv'
  BY HubAssumption, LimiterStep
<1>3. Hub!LimiterInv => LimiterHolds
  BY DEF Hub!LimiterInv, LimiterHolds
<1>4. QED
  BY TypeCorrect, <1>1, <1>2, <1>3, PTL DEF Hub!Spec

\* A deep link signs in one browser, whatever is asked twice, late or lost.
THEOREM InviteSafety == Hub!Spec => []InviteOpensOnce
<1>1. Hub!Init => Hub!InviteInv
  BY HubAssumption, InviteInit
<1>2. Hub!TypeOK /\ Hub!InviteInv /\ [Hub!Next]_Hub!vars => Hub!InviteInv'
  BY HubAssumption, InviteStep
<1>3. Hub!InviteInv => InviteOpensOnce
  BY DEF InviteOpensOnce, Hub!InviteInv, Hub!InviteOpensOnce, Hub!Opens
<1>4. QED
  BY TypeCorrect, <1>1, <1>2, <1>3, PTL DEF Hub!Spec

\* The table names running tunnels of their hosts, and every running tunnel
\* that the hub neither closed nor let be overtaken.
THEOREM TunnelSafety == Hub!Spec => []RunningTunnelIsKnown
<1>1. Hub!Init => Hub!TunnelInv
  BY HubAssumption, TunnelInit
<1>2. Hub!TypeOK /\ Hub!TunnelInv /\ [Hub!Next]_Hub!vars => Hub!TunnelInv'
  BY HubAssumption, TunnelStep
<1>3. Hub!TunnelInv => RunningTunnelIsKnown
  BY DEF Hub!TunnelInv, RunningTunnelIsKnown
<1>4. QED
  BY TypeCorrect, <1>1, <1>2, <1>3, PTL DEF Hub!Spec
=============================================================================
