----------------------------- MODULE AccessHub -----------------------------
(***************************************************************************)
(* Who may use the remote access hub (access/remote.py): sign-in behind a  *)
(* rate limiter, sessions, hosts and their connection keys, the table of   *)
(* host tunnels while tunnels replace each other, and the deep link        *)
(* /t/{host}/{token}, whose one-time token only the host can verify        *)
(* (OneTimeTokenStore in p2p/proxy.py).  What a tunnel carries once it     *)
(* stands is in AccessTunnel and TunnelSockets.                            *)
(*                                                                         *)
(* A step is the code between two awaits.  A request creates at most one   *)
(* session, which is named after it; a host's key finds that host, and the *)
(* store the hub starts with may already hold hosts.  RateLimiter and      *)
(* OneTimeTokenStore run on two machines whose clocks both advance with    *)
(* this one.                                                               *)
(***************************************************************************)
EXTENDS Naturals, FiniteSets

CONSTANTS
  Ip, User, Host, Req, Tunnel,
  Invite,   \* one-time tokens
  Limit,    \* RateLimiter: attempts per window
  Window,
  Ttl,      \* OneTimeTokenStore
  MaxTime,  \* bound on the clock
  None

\* What the theorems need of the constants; MCSessionsHub assumes it.
ConstantsAssumption ==
  /\ Limit \in Nat /\ Window \in Nat \ {0} /\ Ttl \in Nat
  /\ None \notin Nat \cup Host \cup Tunnel \cup Invite \cup [ip : Ip, at : Nat]

VARIABLES
  now,
  attempts,  \* RateLimiter: the attempts stored, as [ip, req, at]
  sessions,  \* token -> user or None
  hosts,     \* host -> owner or None
  invites,   \* the host's store: token -> when it was generated, or None
  tunnels,   \* host -> tunnel or None
  tpc,       \* tunnel handler -> "new", "greeting", "replacing", "running", "ended"
  thost,     \* tunnel -> its host
  old,       \* tunnel -> the tunnel it is replacing
  closed,    \* tunnels whose socket the hub closed
  pc,        \* request -> "new", "password", "naming", "asking", "done", "refused"
  who,       \* request -> the user it acts for
  asked,     \* request -> the token it asks about, or None
  via,       \* request -> the tunnel it asks through
  wire,      \* its question -> "none", "asked", "valid", "invalid", "lost"
  \* History
  issued,    \* tokens that were generated
  tried,     \* request -> [ip, at] of the attempt it was allowed, or None
  overtaken  \* tunnels registered while another of their host was replacing

clockwork == <<now, attempts, tried>>
accounts  == <<sessions, hosts>>
linked    == <<tunnels, tpc, thost, old, closed, overtaken>>
asking    == <<asked, via, wire>>
vars == <<now, attempts, tried, sessions, hosts, invites, issued, tunnels, tpc, thost, old, closed,
          overtaken, pc, who, asked, via, wire>>

Init ==
  /\ now = 0 /\ attempts = {} /\ tried = [r \in Req |-> None]
  /\ sessions = [r \in Req |-> None]
  /\ hosts \in [Host -> User \cup {None}]
  /\ invites = [i \in Invite |-> None] /\ issued = {}
  /\ tunnels = [h \in Host |-> None]
  /\ tpc = [t \in Tunnel |-> "new"]
  /\ thost = [t \in Tunnel |-> None] /\ old = [t \in Tunnel |-> None]
  /\ closed = {} /\ overtaken = {}
  /\ pc = [r \in Req |-> "new"] /\ who = [r \in Req |-> None]
  /\ asked = [r \in Req |-> None] /\ via = [r \in Req |-> None]
  /\ wire = [r \in Req |-> "none"]

Tick ==
  /\ now < MaxTime
  /\ now' = now + 1
  /\ UNCHANGED <<attempts, tried, accounts, invites, issued, linked, pc, who, asking>>

Go(r, place) == pc' = [pc EXCEPT ![r] = place]

-----------------------------------------------------------------------------
(* Sign-in *)

\* check: attempts of this address older than the window are forgotten.
Recent(ip) == {a \in attempts : a.ip = ip /\ now - a.at < Window}
Others(ip) == {a \in attempts : a.ip # ip}

\* Mutant: one attempt too many.
LoginOneMore(r, ip) ==
  LET a == [ip |-> ip, req |-> r, at |-> now]
  IN /\ pc[r] = "new"
     /\ IF Cardinality(Recent(ip)) <= Limit
        THEN /\ attempts' = Others(ip) \cup Recent(ip) \cup {a}
             /\ tried' = [tried EXCEPT ![r] = [ip |-> ip, at |-> now]]
             /\ Go(r, "password")
        ELSE /\ attempts' = Others(ip) \cup Recent(ip)
             /\ Go(r, "refused") /\ UNCHANGED tried
     /\ UNCHANGED <<now, accounts, invites, issued, linked, who, asking>>

\* login up to its await: the attempt counts before the password is known.
Login(r, ip) ==
  LET a == [ip |-> ip, req |-> r, at |-> now]
  IN /\ pc[r] = "new"
     /\ IF Cardinality(Recent(ip)) < Limit
        THEN /\ attempts' = Others(ip) \cup Recent(ip) \cup {a}
             /\ tried' = [tried EXCEPT ![r] = [ip |-> ip, at |-> now]]
             /\ Go(r, "password")
        ELSE /\ attempts' = Others(ip) \cup Recent(ip)
             /\ Go(r, "refused") /\ UNCHANGED tried
     /\ UNCHANGED <<now, accounts, invites, issued, linked, who, asking>>

CreateSession(r, u) ==
  /\ sessions' = [sessions EXCEPT ![r] = u]
  /\ who' = [who EXCEPT ![r] = u]
  /\ Go(r, "done")

Refuse(r) == Go(r, "refused") /\ UNCHANGED <<sessions, who>>

\* The rest of login: u and its password are right, or something is wrong.
CheckPassword(r, u) ==
  /\ pc[r] = "password"
  /\ CreateSession(r, u) \/ Refuse(r)
  /\ UNCHANGED <<clockwork, hosts, invites, issued, linked, asking>>

\* logout with the cookie that request k was given.
Logout(k) ==
  /\ sessions[k] # None
  /\ sessions' = [sessions EXCEPT ![k] = None]
  /\ UNCHANGED <<clockwork, hosts, invites, issued, linked, pc, who, asking>>

\* create_host: the user is looked up before the body is awaited.
RequestHost(r, k) ==
  /\ pc[r] = "new"
  /\ sessions[k] # None
  /\ who' = [who EXCEPT ![r] = sessions[k]]
  /\ Go(r, "naming")
  /\ UNCHANGED <<clockwork, accounts, invites, issued, linked, asking>>

\* A host is stored under a fresh id and a fresh key, for its owner.
StoreHost(h, u) == hosts[h] = None /\ hosts' = [hosts EXCEPT ![h] = u]

CreateHost(r, h) ==
  /\ pc[r] = "naming"
  /\ StoreHost(h, who[r])
  /\ Go(r, "done")
  /\ UNCHANGED <<clockwork, sessions, invites, issued, linked, who, asking>>

-----------------------------------------------------------------------------
(* Host tunnels *)

At(t, place) == tpc' = [tpc EXCEPT ![t] = place]

\* get_host and get_host_by_key
KnownHost(h) == hosts[h] # None

\* A known key: accept and welcome are awaited.
OpenTunnel(t, h) ==
  /\ tpc[t] = "new"
  /\ KnownHost(h)
  /\ thost' = [thost EXCEPT ![t] = h]
  /\ At(t, "greeting")
  /\ UNCHANGED <<clockwork, accounts, invites, issued, tunnels, old, closed, overtaken, pc, who, asking>>

Register(t) ==
  /\ tunnels' = [tunnels EXCEPT ![thost[t]] = t]
  /\ At(t, "running")
  /\ overtaken' = IF \E q \in Tunnel \ {t} : tpc[q] = "replacing" /\ thost[q] = thost[t]
                  THEN overtaken \cup {t} ELSE overtaken

\* The tunnel registered now, if any, is closed first, which is awaited.
Greeted(t) ==
  /\ tpc[t] = "greeting"
  /\ IF tunnels[thost[t]] = None
     THEN Register(t) /\ UNCHANGED old
     ELSE /\ old' = [old EXCEPT ![t] = tunnels[thost[t]]]
          /\ At(t, "replacing")
          /\ UNCHANGED <<tunnels, overtaken>>
  /\ UNCHANGED <<clockwork, accounts, invites, issued, thost, closed, pc, who, asking>>

Replaced(t) ==
  /\ tpc[t] = "replacing"
  /\ closed' = closed \cup {old[t]}
  /\ Register(t)
  /\ UNCHANGED <<clockwork, accounts, invites, issued, thost, old, pc, who, asking>>

\* The host left while it was greeted.
GreetingFails(t) ==
  /\ tpc[t] = "greeting"
  /\ At(t, "ended")
  /\ UNCHANGED <<clockwork, accounts, invites, issued, tunnels, thost, old, closed, overtaken, pc, who, asking>>

Waiting(t) == {r \in Req : pc[r] = "asking" /\ via[r] = t}

\* What the end of run does to those who wait for an answer.
Abandon(t) ==
  /\ pc' = [r \in Req |-> IF r \in Waiting(t) THEN "refused" ELSE pc[r]]
  /\ wire' = [r \in Req |-> IF via[r] = t /\ wire[r] # "none" THEN "lost" ELSE wire[r]]

\* Mutant: whatever tunnel the host has now is forgotten.
TunnelEndsForAll(t) ==
  /\ tpc[t] = "running"
  /\ At(t, "ended")
  /\ Abandon(t)
  /\ tunnels' = [tunnels EXCEPT ![thost[t]] = None]
  /\ UNCHANGED <<clockwork, accounts, invites, issued, thost, old, closed, overtaken, who, asked, via>>

\* The socket was closed by either side: run ends, and the finally clauses.
TunnelEnds(t) ==
  /\ tpc[t] = "running"
  /\ At(t, "ended")
  /\ Abandon(t)
  /\ tunnels' = IF tunnels[thost[t]] = t THEN [tunnels EXCEPT ![thost[t]] = None] ELSE tunnels
  /\ UNCHANGED <<clockwork, accounts, invites, issued, thost, old, closed, overtaken, who, asked, via>>

-----------------------------------------------------------------------------
(* Token login *)

\* OneTimeTokenStore.generate, on the host, whose user shares the link.
Generate(i) ==
  /\ i \notin issued
  /\ issued' = issued \cup {i}
  /\ invites' = [invites EXCEPT ![i] = now]
  /\ UNCHANGED <<clockwork, accounts, linked, pc, who, asking>>

Live(i) == invites[i] # None /\ now - invites[i] <= Ttl

\* token_login up to its await: the question is queued on the host's tunnel.
TokenLogin(r, h, i) ==
  /\ pc[r] = "new"
  /\ IF ~KnownHost(h) \/ tunnels[h] = None
     THEN Go(r, "refused") /\ UNCHANGED <<who, asking>>
     ELSE /\ Go(r, "asking")
          /\ who' = [who EXCEPT ![r] = hosts[h]]
          /\ asked' = [asked EXCEPT ![r] = i]
          /\ via' = [via EXCEPT ![r] = tunnels[h]]
          /\ wire' = [wire EXCEPT ![r] = "asked"]
  /\ UNCHANGED <<clockwork, accounts, invites, issued, linked>>

\* Mutant: the token stays in the store.
VerifyKeeping(r) ==
  LET i == asked[r]
  IN /\ wire[r] = "asked"
     /\ wire' = [wire EXCEPT ![r] = IF Live(i) THEN "valid" ELSE "invalid"]
     /\ UNCHANGED <<clockwork, accounts, invites, issued, linked, pc, who, asked, via>>

\* verify on the host, also for a request that no longer waits.
Verify(r) ==
  LET i == asked[r]
  IN /\ wire[r] = "asked"
     /\ wire' = [wire EXCEPT ![r] = IF Live(i) THEN "valid" ELSE "invalid"]
     /\ invites' = [invites EXCEPT ![i] = None]
     /\ UNCHANGED <<clockwork, accounts, issued, linked, pc, who, asked, via>>

Answer(r) ==
  /\ pc[r] = "asking"
  /\ wire[r] \in {"valid", "invalid"}
  /\ IF wire[r] = "valid" THEN CreateSession(r, who[r]) ELSE Refuse(r)
  /\ UNCHANGED <<clockwork, hosts, invites, issued, linked, asking>>

\* REQUEST_TIMEOUT; the question may still reach the host.
TimesOut(r) ==
  /\ pc[r] = "asking"
  /\ Refuse(r)
  /\ UNCHANGED <<clockwork, accounts, invites, issued, linked, who, asking>>

-----------------------------------------------------------------------------
Next ==
  \/ Tick
  \/ \E r \in Req :
       \/ \E ip \in Ip : Login(r, ip)
       \/ \E u \in User : CheckPassword(r, u)
       \/ \E k \in Req : RequestHost(r, k)
       \/ \E h \in Host, i \in Invite : TokenLogin(r, h, i)
       \/ \E h \in Host : CreateHost(r, h)
       \/ Logout(r) \/ Verify(r) \/ Answer(r) \/ TimesOut(r)
  \/ \E t \in Tunnel :
       \/ \E h \in Host : OpenTunnel(t, h)
       \/ Greeted(t) \/ Replaced(t) \/ GreetingFails(t) \/ TunnelEnds(t)
  \/ \E i \in Invite : Generate(i)

Spec == Init /\ [][Next]_vars

-----------------------------------------------------------------------------
(* Properties *)

\* Every variable has its type, and a tunnel that was opened has a host.
TypeOK ==
  /\ now \in Nat
  /\ attempts \in SUBSET [ip : Ip, req : Req, at : Nat] /\ IsFiniteSet(attempts)
  /\ tried \in [Req -> [ip : Ip, at : Nat] \cup {None}]
  /\ sessions \in [Req -> User \cup {None}] /\ hosts \in [Host -> User \cup {None}]
  /\ invites \in [Invite -> Nat \cup {None}] /\ issued \in SUBSET Invite
  /\ tunnels \in [Host -> Tunnel \cup {None}]
  /\ tpc \in [Tunnel -> {"new", "greeting", "replacing", "running", "ended"}]
  /\ thost \in [Tunnel -> Host \cup {None}] /\ \A t \in Tunnel : tpc[t] # "new" => thost[t] \in Host
  /\ old \in [Tunnel -> Tunnel \cup {None}]
  /\ closed \in SUBSET (Tunnel \cup {None}) /\ overtaken \in SUBSET Tunnel
  /\ pc \in [Req -> {"new", "password", "naming", "asking", "done", "refused"}]
  /\ who \in [Req -> User \cup {None}]
  /\ asked \in [Req -> Invite \cup {None}] /\ via \in [Req -> Tunnel \cup {None}]
  /\ wire \in [Req -> {"none", "asked", "valid", "invalid", "lost"}]

\* No more sign-ins from one address are tried within any window of time than
\* the limiter allows, however many wait for their body, and although the
\* stored list is cut at every check.
LimiterHolds ==
  \A ip \in Ip, from \in 0 .. MaxTime :
    Cardinality({r \in Req : tried[r] # None /\ tried[r].ip = ip
                             /\ tried[r].at \in from .. from + Window - 1}) <= Limit

\* One link signs in one browser: of the requests that ask with one token at
\* most one gets a session, whatever is asked again, answered late or lost.
InviteOpensOnce ==
  \A q, r \in Req :
    pc[q] = "done" /\ pc[r] = "done" /\ asked[q] # None /\ asked[q] = asked[r] => q = r

\* The table names tunnels that run, and a running tunnel that the hub did
\* not close is the one the table names.  The exception is a tunnel that was
\* registered while another of its host was closing their predecessor: that
\* one overwrites it without closing it.
RunningTunnelIsKnown ==
  /\ \A h \in Host : tunnels[h] # None => tpc[tunnels[h]] = "running" /\ thost[tunnels[h]] = h
  /\ \A t \in Tunnel : tpc[t] = "running" /\ t \notin closed \cup overtaken => tunnels[thost[t]] = t

\* The invariants behind the three, each inductive together with TypeOK.
\* An attempt is forgotten only when no window that is still to come holds it.
LimiterInv ==
  /\ LimiterHolds
  /\ \A r \in Req : tried[r] # None =>
       /\ pc[r] # "new" /\ tried[r].at <= now
       /\ now - tried[r].at < Window => [ip |-> tried[r].ip, req |-> r, at |-> tried[r].at] \in attempts

\* A link opens, or is about to open, a session for one request, and is gone
\* from the store by then.
Opens(r) == wire[r] = "valid" \/ (pc[r] = "done" /\ asked[r] # None)
InviteInv ==
  /\ \A r \in Req : pc[r] \in {"new", "password", "naming"} => asked[r] = None /\ wire[r] = "none"
  /\ \A r \in Req : pc[r] = "asking" \/ wire[r] # "none" => asked[r] # None
  /\ \A i \in Invite : invites[i] # None => i \in issued
  /\ \A r \in Req : Opens(r) => asked[r] \in issued /\ invites[asked[r]] = None
  /\ \A q, r \in Req : Opens(q) /\ Opens(r) /\ asked[q] = asked[r] => q = r

\* While a tunnel replaces another, that one is registered, or nothing is, or
\* one that overtook it.
TunnelInv ==
  /\ RunningTunnelIsKnown
  /\ \A t \in Tunnel : tpc[t] = "replacing" => tunnels[thost[t]] \in {None, old[t]} \cup overtaken
=============================================================================
