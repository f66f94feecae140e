------------------------ MODULE AccessTunnel_proofs ------------------------
(***************************************************************************)
(* Theorems about AccessTunnel, for any number of tunnels, requests and    *)
(* chunks, and about the TunnelSockets of MCTunnel, for any number of      *)
(* sockets and frames.                                                     *)
(***************************************************************************)
EXTENDS MCTunnel, FiniteSetTheorems, TLAPS

\* A set of indices below n that has n members has all of them.
LEMMA CompleteFacts ==
  ASSUME NEW n \in Nat, NEW S \in SUBSET (0 .. n - 1), Cardinality(S) >= n
  PROVE  S = 0 .. n - 1
<1>1. IsFiniteSet(0 .. n - 1) /\ Cardinality(0 .. n - 1) = n
  <2>1. 0 \in Int /\ n - 1 \in Int /\ (n - 1) - 0 + 1 = n /\ (0 > n - 1 <=> n = 0)
    OBVIOUS
  <2>2. QED
    BY <2>1, FS_Interval
<1>2. /\ IsFiniteSet(S) /\ Cardinality(S) <= Cardinality(0 .. n - 1)
      /\ Cardinality(0 .. n - 1) = Cardinality(S) => 0 .. n - 1 = S
  <2>1. \A A, B : IsFiniteSet(A) /\ B \in SUBSET A =>
           IsFiniteSet(B) /\ Cardinality(B) <= Cardinality(A) /\ (Cardinality(A) = Cardinality(B) => A = B)
    BY FS_Subset
  <2>2. QED
    BY <1>1, <2>1, Zenon
<1>3. Cardinality(S) \in Nat
  BY <1>2, FS_CardinalityType
<1>4. QED
  BY <1>1, <1>2, <1>3

\* What the two ends of a channel do to its positions.
LEMMA ChannelFacts ==
  ASSUME NEW T, NEW s \in Seq(T)
  PROVE  /\ Len(s) \in Nat
         /\ \A k \in 1 .. Len(s) : s[k] \in T
         /\ \A e \in T : /\ Append(s, e) \in Seq(T) /\ Len(Append(s, e)) = Len(s) + 1
                         /\ \A k \in 1 .. Len(s) : Append(s, e)[k] = s[k]
                         /\ Append(s, e)[Len(s) + 1] = e
         /\ s # <<>> => /\ Tail(s) \in Seq(T) /\ Len(Tail(s)) = Len(s) - 1 /\ Len(s) > 0
                        /\ \A k \in 1 .. Len(s) - 1 : Tail(s)[k] = s[k + 1]
                        /\ Head(s) = s[1] /\ Head(s) \in T
OBVIOUS

Inv ==
  /\ TypeOK /\ AskedInv /\ JobInv /\ OnTheWayInv /\ NothingSkippedInv /\ RegisteredInv
  /\ PendingMatchesWaiting /\ AnswerIsComplete

LEMMA InvInit == Init => Inv
<1> SUFFICES ASSUME Init PROVE Inv
  OBVIOUS
<1> USE ConstantsAssumption DEF Init, NoPartial
<1>1. TypeOK
  BY DEF TypeOK, Answer
<1>2. AskedInv /\ JobInv /\ OnTheWayInv /\ RegisteredInv /\ PendingMatchesWaiting /\ AnswerIsComplete
  BY DEF AskedInv, JobInv, OnTheWayInv, MessagesTrue, MessagesInOrder, PartialsTrue, RegisteredInv, PendingMatchesWaiting, AnswerIsComplete
<1>3. NothingSkippedInv
  BY DEF NothingSkippedInv, Queued
<1>4. QED
  BY <1>1, <1>2, <1>3 DEF Inv

LEMMA QueuedFacts ==
  ASSUME UNCHANGED toHub
  PROVE  \A t, r, i : Queued(t, r, i)' <=> Queued(t, r, i)
BY DEF Queued

\* The client and the network change neither channels, jobs nor requests.
LEMMA ClientStep ==
  ASSUME Inv, LoopTop \/ ConnectFails \/ Wake \/ ClientNotices \/ Stop \/ (\E t \in Tun : ConnectOk(t) \/ LinkDrops(t))
  PROVE  Inv'
<1>1. UNCHANGED <<job, jobTun, size, sent, toHost, toHub, tunnels, pending, chunked, rpc, reqTun, fut, answer>>
  BY DEF LoopTop, ConnectFails, Wake, ClientNotices, Stop, ConnectOk, LinkDrops, hub, jobs, answers, request, future
<1>2. /\ running' \in BOOLEAN /\ cpc' \in {"top", "connecting", "relaying", "sleeping", "ended"}
      /\ cur' \in Tun \cup {None} /\ (cpc' = "relaying" => cur' \in Tun)
  BY DEF Inv, TypeOK, LoopTop, ConnectFails, Wake, ClientNotices, Stop, ConnectOk, LinkDrops, hub, client
<1>3. /\ link' \in [Tun -> {"new", "up", "down"}]
      /\ tpc' \in [Tun -> {"none", "arrived", "replacing", "running", "closing", "done"}]
      /\ \A t \in Tun : tpc'[t] = tpc[t] \/ (tpc'[t] = "arrived" /\ tpc[t] = "none")
      /\ \A t \in Tun : link'[t] = "new" => link[t] = "new" /\ tpc'[t] = tpc[t]
  <2>1. CASE UNCHANGED <<link, tpc>>
    BY <2>1 DEF Inv, TypeOK
  <2>2. CASE Stop \/ \E t \in Tun : LinkDrops(t)
    <3>1. UNCHANGED tpc
      BY <2>2 DEF Stop, LinkDrops, hub
    <3>2. /\ link' \in [Tun -> {"new", "up", "down"}]
          /\ \A t \in Tun : link'[t] = "new" => link[t] = "new"
      <4>1. link \in [Tun -> {"new", "up", "down"}]
        BY DEF Inv, TypeOK
      <4>2. CASE Stop
        BY <4>1, <4>2 DEF Stop
      <4>3. CASE \E t \in Tun : LinkDrops(t)
        BY <4>1, <4>3 DEF LinkDrops
      <4>4. QED
        BY <2>2, <4>2, <4>3
    <3>3. QED
      BY <3>1, <3>2 DEF Inv, TypeOK
  <2>3. CASE \E t \in Tun : ConnectOk(t)
    BY <2>3 DEF Inv, TypeOK, RegisteredInv, ConnectOk
  <2>4. QED
    BY <2>1, <2>2, <2>3 DEF LoopTop, ConnectFails, Wake, ClientNotices, hub
<1>4. TypeOK'
  BY <1>1, <1>2, <1>3 DEF Inv, TypeOK
<1>5. AskedInv' /\ JobInv' /\ OnTheWayInv' /\ AnswerIsComplete'
  BY <1>1 DEF Inv, AskedInv, JobInv, OnTheWayInv, MessagesTrue, MessagesInOrder, PartialsTrue, AnswerIsComplete
<1>6. NothingSkippedInv'
  BY <1>1, QueuedFacts DEF Inv, NothingSkippedInv
<1>7. RegisteredInv'
  <2>1. tunnels \in Tun \cup {None} /\ \A r \in Req : reqTun[r] \in Tun \cup {None}
    BY DEF Inv, TypeOK
  <2>2. QED
    BY <1>1, <1>3, <2>1 DEF Inv, RegisteredInv
<1>8. PendingMatchesWaiting'
  BY <1>1, <1>3 DEF Inv, TypeOK, PendingMatchesWaiting
<1>9. QED
  BY <1>4, <1>5, <1>6, <1>7, <1>8 DEF Inv

\* Tunnels come and go.
LEMMA TunnelStep ==
  ASSUME Inv, NEW t \in Tun, TunnelArrives(t) \/ TunnelReplaces(t) \/ TunnelGone(t)
  PROVE  Inv'
<1>1. UNCHANGED <<running, cpc, cur, job, jobTun, size, sent, toHost, toHub, pending, chunked, rpc, reqTun, fut, answer>>
  BY DEF TunnelArrives, TunnelReplaces, TunnelGone, client, jobs, answers, request, future
<1>2. /\ link' \in [Tun -> {"new", "up", "down"}] /\ tunnels' \in Tun \cup {None}
      /\ tpc' \in [Tun -> {"none", "arrived", "replacing", "running", "closing", "done"}]
      /\ \A u \in Tun : u # t => tpc'[u] = tpc[u]
      /\ \A u \in Tun : link'[u] = "new" => link[u] = "new"
  BY DEF Inv, TypeOK, TunnelArrives, TunnelReplaces, TunnelGone
<1>9. /\ tpc[t] \in {"arrived", "replacing"} => tpc'[t] \in {"replacing", "running"}
      /\ tpc[t] \notin {"arrived", "replacing"} => tpc[t] = "closing" /\ tpc'[t] = "done"
      /\ tpc'[t] = "running" => tunnels' = t
      /\ tpc'[t] # "running" => tunnels' = tunnels \/ tunnels' = None
      /\ tpc'[t] = "done" => tunnels' # t
  BY ConstantsAssumption DEF Inv, TypeOK, RegisteredInv, TunnelArrives, TunnelReplaces, TunnelGone
<1>3. TypeOK'
  BY <1>1, <1>2 DEF Inv, TypeOK
<1>4. AskedInv' /\ JobInv' /\ OnTheWayInv' /\ AnswerIsComplete'
  BY <1>1 DEF Inv, AskedInv, JobInv, OnTheWayInv, MessagesTrue, MessagesInOrder, PartialsTrue, AnswerIsComplete
<1>5. NothingSkippedInv'
  BY <1>1, QueuedFacts DEF Inv, NothingSkippedInv
<1>6. RegisteredInv'
  <2>1. tunnels \in Tun \cup {None} /\ \A r \in Req : reqTun[r] \in Tun \cup {None}
    BY DEF Inv, TypeOK
  <2>2. QED
    BY <1>1, <1>2, <1>9, <2>1 DEF Inv, RegisteredInv
<1>7. PendingMatchesWaiting'
  <2>1. \A r \in Req : rpc[r] = "waiting" => reqTun[r] \in Tun
    BY DEF Inv, TypeOK
  <2>2. \A r \in Req : rpc[r] = "waiting" /\ tpc'[reqTun[r]] = "running" => tpc[reqTun[r]] = "running"
    BY <1>2, <1>9, <2>1, ConstantsAssumption DEF Inv, RegisteredInv
  <2>3. QED
    BY <1>1, <2>2 DEF Inv, PendingMatchesWaiting
<1>8. QED
  BY <1>3, <1>4, <1>5, <1>6, <1>7 DEF Inv

\* A tunnel that fails gives up its futures.
LEMMA FailStep ==
  ASSUME Inv, NEW t \in Tun, TunnelFails(t)
  PROVE  Inv'
<1>1. /\ UNCHANGED <<running, cpc, cur, job, jobTun, size, sent, link, toHost, toHub, tunnels, chunked, rpc, reqTun, answer>>
      /\ tpc[t] = "running" /\ tpc' = [tpc EXCEPT ![t] = "closing"]
      /\ pending' = [pending EXCEPT ![t] = {}] /\ link[t] = "down"
  BY DEF TunnelFails, client, jobs, request
<1>2. /\ fut' \in [Req -> {"none", "waiting", "result", "error", "cancelled"}]
      /\ \A r \in Req : fut'[r] = fut[r] \/ (r \in pending[t] /\ fut'[r] = "error")
  BY DEF Inv, TypeOK, TunnelFails
<1>3. TypeOK'
  BY <1>1, <1>2 DEF Inv, TypeOK
<1>4. AskedInv' /\ JobInv' /\ OnTheWayInv' /\ AnswerIsComplete'
  BY <1>1, <1>2 DEF Inv, TypeOK, AskedInv, JobInv, OnTheWayInv, MessagesTrue, MessagesInOrder, PartialsTrue, AnswerIsComplete
<1>5. NothingSkippedInv'
  BY <1>1, QueuedFacts DEF Inv, NothingSkippedInv
<1>6. RegisteredInv' /\ PendingMatchesWaiting'
  BY <1>1, <1>2 DEF Inv, TypeOK, RegisteredInv, PendingMatchesWaiting
<1>7. QED
  BY <1>3, <1>4, <1>5, <1>6 DEF Inv
\* A request looks up the tunnel, ends or times out.
LEMMA RequestStep ==
  ASSUME Inv, NEW r \in Req, Ask(r) \/ Resume(r) \/ Timeout(r)
  PROVE  Inv'
<1>1. UNCHANGED <<running, cpc, cur, job, jobTun, size, sent, link, toHost, toHub, tunnels, tpc, chunked, answer>>
  BY DEF Ask, Resume, Timeout, client, jobs, hub, answers, future
<1>2. /\ pending' \in [Tun -> SUBSET Req] /\ rpc' \in [Req -> {"idle", "body", "waiting", "done"}]
      /\ reqTun' \in [Req -> Tun \cup {None}]
      /\ fut' \in [Req -> {"none", "waiting", "result", "error", "cancelled"}]
      /\ \A q \in Req : q # r => rpc'[q] = rpc[q] /\ reqTun'[q] = reqTun[q] /\ fut'[q] = fut[q]
      /\ \A t \in Tun : pending'[t] \subseteq pending[t] /\ pending[t] \ pending'[t] \subseteq {r}
      /\ fut'[r] = fut[r] \/ fut'[r] = "cancelled"
  <2>1. /\ pending \in [Tun -> SUBSET Req] /\ rpc \in [Req -> {"idle", "body", "waiting", "done"}]
        /\ reqTun \in [Req -> Tun \cup {None}] /\ tunnels \in Tun \cup {None}
        /\ fut \in [Req -> {"none", "waiting", "result", "error", "cancelled"}]
    BY DEF Inv, TypeOK
  <2>2. CASE Ask(r)
    BY <2>1, <2>2 DEF Ask, answers, future
  <2>3. CASE Resume(r)
    BY <2>1, <2>3 DEF Resume, future
  <2>4. CASE Timeout(r)
    BY <2>1, <2>4 DEF Timeout
  <2>5. QED
    BY <2>2, <2>3, <2>4
<1>3. \/ rpc[r] = "idle" /\ rpc'[r] \in {"body", "done"} /\ reqTun'[r] = tunnels /\ fut'[r] = fut[r]
         /\ (rpc'[r] = "body" => tunnels # None) /\ pending' = pending
      \/ rpc[r] = "waiting" /\ rpc'[r] = "done" /\ reqTun' = reqTun /\ r \notin pending'[reqTun[r]] /\ fut'[r] # "waiting"
  <2>1. CASE Ask(r)
    BY <2>1 DEF Inv, TypeOK, Ask, answers, future
  <2>2. CASE Resume(r) \/ Timeout(r)
    <3>1. rpc[r] = "waiting" /\ reqTun[r] \in Tun
      BY <2>2 DEF Inv, TypeOK, Resume, Timeout
    <3>2. pending \in [Tun -> SUBSET Req] /\ rpc \in [Req -> {"idle", "body", "waiting", "done"}]
          /\ fut \in [Req -> {"none", "waiting", "result", "error", "cancelled"}]
      BY DEF Inv, TypeOK
    <3>3. QED
      BY <2>2, <3>1, <3>2 DEF Resume, Timeout, future
  <2>3. QED
    BY <2>1, <2>2
<1>4. TypeOK'
  <2>1. \A q \in Req : rpc'[q] \in {"body", "waiting"} => reqTun'[q] \in Tun
    BY <1>1, <1>2, <1>3 DEF Inv, TypeOK
  <2>2. QED
    BY <1>1, <1>2, <2>1 DEF Inv, TypeOK
<1>5. AskedInv'
  <2>1. \A q \in Req : rpc'[q] \in {"idle", "body"} => rpc[q] \in {"idle", "body"} /\ fut'[q] = fut[q]
    BY <1>2, <1>3
  <2>2. \A t \in Tun : \A k \in 1 .. Len(toHost[t]) : toHost[t][k] \in Req
    BY DEF Inv, TypeOK
  <2>3. QED
    BY <1>1, <1>2, <2>1, <2>2 DEF Inv, AskedInv
<1>6. JobInv' /\ OnTheWayInv' /\ AnswerIsComplete'
  <2>1. \A q \in Req : fut'[q] = "result" => fut[q] = "result"
    BY <1>2
  <2>2. QED
    BY <1>1, <2>1 DEF Inv, JobInv, OnTheWayInv, MessagesTrue, MessagesInOrder, PartialsTrue, AnswerIsComplete
<1>7. NothingSkippedInv'
  BY <1>1, QueuedFacts DEF Inv, NothingSkippedInv
<1>8. RegisteredInv'
  <2>1. \A q \in Req : reqTun'[q] = reqTun[q] \/ reqTun'[q] = tunnels
    BY <1>2, <1>3
  <2>2. QED
    BY <1>1, <2>1 DEF Inv, RegisteredInv
<1>9. PendingMatchesWaiting'
  <2>1. \A t \in Tun : \A q \in pending'[t] : q # r
    <3>1. \A t \in Tun : r \in pending[t] => rpc[r] = "waiting" /\ reqTun[r] = t
      BY DEF Inv, PendingMatchesWaiting
    <3>2. QED
      BY <1>2, <1>3, <3>1
  <2>2. \A t \in Tun : \A q \in Req : q # r /\ q \in pending[t] => q \in pending'[t]
    BY <1>2
  <2>3. \A q \in Req : rpc'[q] = "waiting" => q # r /\ reqTun[q] \in Tun
    BY <1>2, <1>3 DEF Inv, TypeOK
  <2>4. pending \in [Tun -> SUBSET Req]
    BY DEF Inv, TypeOK
  <2>5. QED
    BY <1>1, <1>2, <2>1, <2>2, <2>3, <2>4 DEF Inv, PendingMatchesWaiting
<1>10. QED
  BY <1>4, <1>5, <1>6, <1>7, <1>8, <1>9 DEF Inv
\* A request is queued on the tunnel it found.
LEMMA SendStep ==
  ASSUME Inv, NEW r \in Req, Send(r)
  PROVE  Inv'
<1> DEFINE t == reqTun[r]
<1>1. /\ UNCHANGED <<running, cpc, cur, job, jobTun, size, sent, link, toHub, tunnels, tpc, chunked, reqTun, answer>>
      /\ rpc[r] = "body" /\ rpc' = [rpc EXCEPT ![r] = "waiting"] /\ fut' = [fut EXCEPT ![r] = "waiting"]
      /\ pending' = [pending EXCEPT ![t] = @ \cup {r}] /\ toHost' = [toHost EXCEPT ![t] = Append(@, r)]
  BY DEF Send, client, jobs, hub
<1>2. /\ t \in Tun /\ job[r] = "none" /\ fut[r] = "none"
      /\ \A u \in Tun : toHost[u] \in Seq(Req) /\ \A k \in 1 .. Len(toHost[u]) : toHost[u][k] # r /\ toHost[u][k] \in Req
  <2>1. t \in Tun /\ toHost \in [Tun -> Seq(Req)]
    BY <1>1 DEF Inv, TypeOK
  <2>2. QED
    BY <1>1, <2>1, ChannelFacts DEF Inv, AskedInv
<1>3. /\ toHost' \in [Tun -> Seq(Req)] /\ \A u \in Tun : u # t => toHost'[u] = toHost[u]
      /\ Len(toHost'[t]) = Len(toHost[t]) + 1 /\ Len(toHost[t]) \in Nat
      /\ toHost'[t][Len(toHost[t]) + 1] = r
      /\ \A k \in 1 .. Len(toHost[t]) : toHost'[t][k] = toHost[t][k]
  <2>1. toHost \in [Tun -> Seq(Req)]
    BY DEF Inv, TypeOK
  <2>2. toHost'[t] = Append(toHost[t], r)
    BY <1>1, <1>2, <2>1
  <2>3. QED
    BY <1>1, <1>2, <2>1, <2>2, ChannelFacts
<1>4. /\ rpc' \in [Req -> {"idle", "body", "waiting", "done"}] /\ pending' \in [Tun -> SUBSET Req]
      /\ fut' \in [Req -> {"none", "waiting", "result", "error", "cancelled"}]
      /\ rpc'[r] = "waiting" /\ fut'[r] = "waiting"
      /\ \A q \in Req : q # r => rpc'[q] = rpc[q] /\ fut'[q] = fut[q]
      /\ \A u \in Tun : u # t => pending'[u] = pending[u]
      /\ pending'[t] = pending[t] \cup {r}
  BY <1>1, <1>2 DEF Inv, TypeOK
<1>5. TypeOK'
  <2>1. \A q \in Req : rpc'[q] \in {"body", "waiting"} => reqTun[q] \in Tun
    BY <1>2, <1>4 DEF Inv, TypeOK
  <2>2. toHost' \in [Tun -> Seq(Req)] /\ rpc' \in [Req -> {"idle", "body", "waiting", "done"}]
        /\ pending' \in [Tun -> SUBSET Req] /\ fut' \in [Req -> {"none", "waiting", "result", "error", "cancelled"}]
    BY <1>3, <1>4
  <2>3. UNCHANGED <<running, cpc, cur, job, jobTun, size, sent, link, toHub, tunnels, tpc, chunked, reqTun, answer>>
    BY <1>1
  <2>4. QED
    BY <2>1, <2>2, <2>3 DEF Inv, TypeOK
<1>6. AskedInv'
  <2>1. \A q \in Req : rpc'[q] \in {"idle", "body"} => job[q] = "none" /\ fut'[q] = "none" /\ \A u \in Tun : q \notin pending'[u]
    BY <1>2, <1>4 DEF Inv, AskedInv
  <2>2. \A u \in Tun : \A k \in 1 .. Len(toHost'[u]) :
          \/ k \in 1 .. Len(toHost[u]) /\ toHost'[u][k] = toHost[u][k] /\ toHost'[u][k] # r /\ toHost'[u][k] \in Req
          \/ u = t /\ k = Len(toHost[t]) + 1 /\ toHost'[u][k] = r
    BY <1>2, <1>3
  <2>3. \A u \in Tun : \A k \in 1 .. Len(toHost'[u]) :
          job[toHost'[u][k]] = "none" /\ rpc'[toHost'[u][k]] \notin {"idle", "body"}
    BY <1>2, <1>4, <2>2 DEF Inv, AskedInv
  <2>4. \A u, v \in Tun : \A k \in 1 .. Len(toHost'[u]), l \in 1 .. Len(toHost'[v]) :
          toHost'[u][k] = toHost'[v][l] => u = v /\ k = l
    BY <2>2, SMTT(30) DEF Inv, AskedInv
  <2>5. QED
    BY <1>1, <2>1, <2>3, <2>4 DEF AskedInv
<1>7. JobInv' /\ OnTheWayInv' /\ AnswerIsComplete'
  <2>1. \A q \in Req : fut'[q] = "result" => fut[q] = "result"
    BY <1>4
  <2>2. QED
    BY <1>1, <2>1 DEF Inv, JobInv, OnTheWayInv, MessagesTrue, MessagesInOrder, PartialsTrue, AnswerIsComplete
<1>8. NothingSkippedInv'
  BY <1>1, QueuedFacts DEF Inv, NothingSkippedInv
<1>9. RegisteredInv' /\ PendingMatchesWaiting'
  BY <1>1, <1>2, <1>4 DEF Inv, RegisteredInv, PendingMatchesWaiting
<1>10. QED
  BY <1>5, <1>6, <1>7, <1>8, <1>9 DEF Inv

\* The host takes a request from the tunnel it relays.
LEMMA HostReceivesStep ==
  ASSUME Inv, HostReceives
  PROVE  Inv'
<1> DEFINE r == Head(toHost[cur])
<1>1. /\ UNCHANGED <<running, cpc, cur, size, sent, link, toHub, tunnels, tpc, pending, chunked, rpc, reqTun, fut, answer>>
      /\ cpc = "relaying" /\ toHost[cur] # <<>> /\ toHost' = [toHost EXCEPT ![cur] = Tail(@)]
      /\ job' = [job EXCEPT ![r] = "requesting"] /\ jobTun' = [jobTun EXCEPT ![r] = cur]
  BY DEF HostReceives, client, hub, answers, request, future
<1>2. /\ cur \in Tun /\ toHost \in [Tun -> Seq(Req)]
      /\ job \in [Req -> {"none", "requesting", "sending", "done"}] /\ jobTun \in [Req -> Tun \cup {None}]
  BY <1>1 DEF Inv, TypeOK
<1>3. /\ toHost' \in [Tun -> Seq(Req)] /\ r \in Req /\ Len(toHost[cur]) > 0 /\ r = toHost[cur][1]
      /\ \A u \in Tun : Len(toHost[u]) \in Nat /\ Len(toHost'[u]) \in Nat /\ Len(toHost'[u]) <= Len(toHost[u])
      /\ \A u \in Tun : u # cur => toHost'[u] = toHost[u]
      /\ Len(toHost'[cur]) = Len(toHost[cur]) - 1
      /\ \A k \in 1 .. Len(toHost[cur]) - 1 : toHost'[cur][k] = toHost[cur][k + 1]
      /\ \A u \in Tun : \A k \in 1 .. Len(toHost[u]) : toHost[u][k] \in Req
  <2>1. toHost'[cur] = Tail(toHost[cur]) /\ \A u \in Tun : u # cur => toHost'[u] = toHost[u]
    BY <1>1, <1>2
  <2>2. QED
    BY <1>1, <1>2, <2>1, ChannelFacts
<1>4. /\ job[r] = "none" /\ rpc[r] \notin {"idle", "body"}
      /\ sent[r] = 0 /\ fut[r] # "result" /\ \A u \in Tun : chunked[u][r] = NoPartial
  <2>1. job[r] = "none" /\ rpc[r] \notin {"idle", "body"}
    <3>1. 1 \in 1 .. Len(toHost[cur])
      BY <1>3
    <3>2. \A k \in 1 .. Len(toHost[cur]) :
            job[toHost[cur][k]] = "none" /\ rpc[toHost[cur][k]] \notin {"idle", "body"}
      BY <1>2 DEF Inv, AskedInv
    <3>3. QED
      BY <1>3, <3>1, <3>2
  <2>2. QED
    BY <1>3, <2>1 DEF Inv, JobInv
<1>5. /\ job' \in [Req -> {"none", "requesting", "sending", "done"}] /\ jobTun' \in [Req -> Tun \cup {None}]
      /\ job'[r] = "requesting" /\ jobTun'[r] = cur
      /\ \A q \in Req : q # r => job'[q] = job[q] /\ jobTun'[q] = jobTun[q]
  BY <1>1, <1>2, <1>3
<1>6. TypeOK'
  <2>1. \A q \in Req : job'[q] # "none" => jobTun'[q] \in Tun
    BY <1>2, <1>5 DEF Inv, TypeOK
  <2>2. toHost' \in [Tun -> Seq(Req)]
    BY <1>3
  <2>3. UNCHANGED <<running, cpc, cur, size, sent, link, toHub, tunnels, tpc, pending, chunked, rpc, reqTun, fut, answer>>
    BY <1>1
  <2>4. QED
    BY <1>5, <2>1, <2>2, <2>3 DEF Inv, TypeOK
<1>7. AskedInv'
  <2>1. \A u \in Tun : \A k \in 1 .. Len(toHost'[u]) :
          \/ u # cur /\ k \in 1 .. Len(toHost[u]) /\ toHost'[u][k] = toHost[u][k]
          \/ u = cur /\ k + 1 \in 1 .. Len(toHost[u]) /\ k \in Nat /\ toHost'[u][k] = toHost[u][k + 1]
    BY <1>3
  <2>2. 1 \in 1 .. Len(toHost[cur])
    BY <1>2, <1>3
  <2>3. \A u \in Tun : \A k \in 1 .. Len(toHost'[u]) : toHost'[u][k] # r /\ toHost'[u][k] \in Req
    BY <1>2, <1>3, <2>1, <2>2, SMTT(30) DEF Inv, AskedInv
  <2>4. \A u \in Tun : \A k \in 1 .. Len(toHost'[u]) :
          job'[toHost'[u][k]] = "none" /\ rpc[toHost'[u][k]] \notin {"idle", "body"}
    <3>1. \A u \in Tun : \A k \in 1 .. Len(toHost[u]) :
            job[toHost[u][k]] = "none" /\ rpc[toHost[u][k]] \notin {"idle", "body"}
      BY DEF Inv, AskedInv
    <3>2. \A u \in Tun : \A k \in 1 .. Len(toHost'[u]) :
            job[toHost'[u][k]] = "none" /\ rpc[toHost'[u][k]] \notin {"idle", "body"}
      BY <2>1, <3>1
    <3>3. QED
      BY <1>5, <2>3, <3>2
  <2>5. \A u, v \in Tun : \A k \in 1 .. Len(toHost'[u]), l \in 1 .. Len(toHost'[v]) :
          toHost'[u][k] = toHost'[v][l] => u = v /\ k = l
    <3>1. SUFFICES ASSUME NEW u \in Tun, NEW v \in Tun, NEW k \in 1 .. Len(toHost'[u]), NEW l \in 1 .. Len(toHost'[v]),
                          toHost'[u][k] = toHost'[v][l]
                   PROVE  u = v /\ k = l
      OBVIOUS
    <3>2. k \in Int /\ l \in Int
      OBVIOUS
    <3>3. QED
      BY <2>1, <3>1, <3>2 DEF Inv, AskedInv
  <2>6. \A q \in Req : rpc[q] \in {"idle", "body"} => job'[q] = "none"
    BY <1>4, <1>5 DEF Inv, AskedInv
  <2>7. QED
    BY <1>1, <2>4, <2>5, <2>6 DEF Inv, AskedInv
<1>8. JobInv' /\ AnswerIsComplete'
  BY <1>1, <1>3, <1>4, <1>5 DEF Inv, JobInv, AnswerIsComplete
<1>9. OnTheWayInv'
  <2>1. \A u \in Tun : \A k \in 1 .. Len(toHub[u]) : toHub[u][k].req \in Req /\ toHub[u][k].req # r
    <3>1. \A u \in Tun : \A k \in 1 .. Len(toHub[u]) : toHub[u][k] \in Messages
      BY ChannelFacts DEF Inv, TypeOK
    <3>2. QED
      BY <1>4, <3>1 DEF Inv, OnTheWayInv, MessagesTrue, MessagesInOrder, PartialsTrue, Messages
  <2>2. \A u \in Tun, q \in Req : chunked[u][q] # NoPartial => q # r
    BY <1>4
  <2>3. QED
    BY <1>1, <1>5, <2>1, <2>2 DEF Inv, OnTheWayInv, MessagesTrue, MessagesInOrder, PartialsTrue
<1>10. NothingSkippedInv'
  BY <1>1, QueuedFacts DEF Inv, NothingSkippedInv
<1>11. RegisteredInv' /\ PendingMatchesWaiting'
  BY <1>1 DEF Inv, RegisteredInv, PendingMatchesWaiting
<1>12. QED
  BY <1>6, <1>7, <1>8, <1>9, <1>10, <1>11 DEF Inv
\* The local app answers, or a task dies.
LEMMA JobStep ==
  ASSUME Inv, NEW r \in Req, (\E n \in 1 .. MaxChunks : LocalAnswers(r, n)) \/ HostSendFails(r)
  PROVE  Inv'
<1>1. /\ UNCHANGED <<running, cpc, cur, jobTun, sent, link, toHost, toHub, tunnels, tpc, pending, chunked, rpc, reqTun, fut, answer>>
      /\ \/ job[r] = "requesting" /\ job' = [job EXCEPT ![r] = "sending"]
            /\ \E n \in 1 .. MaxChunks : size' = [size EXCEPT ![r] = n]
         \/ job[r] = "sending" /\ job' = [job EXCEPT ![r] = "done"] /\ size' = size
  BY DEF LocalAnswers, HostSendFails, client, hub, answers, request, future
<1>2. /\ job \in [Req -> {"none", "requesting", "sending", "done"}] /\ size \in [Req -> 0 .. MaxChunks]
      /\ sent \in [Req -> 0 .. MaxChunks] /\ jobTun[r] \in Tun
  BY <1>1, ConstantsAssumption DEF Inv, TypeOK
<1>3. /\ job' \in [Req -> {"none", "requesting", "sending", "done"}] /\ size' \in [Req -> 0 .. MaxChunks]
      /\ \A q \in Req : q # r => job'[q] = job[q] /\ size'[q] = size[q]
      /\ \/ job[r] = "requesting" /\ job'[r] = "sending" /\ size'[r] >= 1
         \/ job[r] = "sending" /\ job'[r] = "done" /\ size'[r] = size[r]
  BY <1>1, <1>2, ConstantsAssumption
<1>4. TypeOK'
  BY <1>1, <1>2, <1>3 DEF Inv, TypeOK
<1>5. AskedInv'
  <2>1. \A q \in Req : job[q] = "none" => q # r
    BY <1>3
  <2>2. \A u \in Tun : \A k \in 1 .. Len(toHost[u]) : toHost[u][k] \in Req
    BY ChannelFacts DEF Inv, TypeOK
  <2>3. QED
    BY <1>1, <1>3, <2>1, <2>2 DEF Inv, AskedInv
<1>6. job[r] = "requesting" =>
        /\ sent[r] = 0 /\ fut[r] # "result" /\ \A u \in Tun : chunked[u][r] = NoPartial
        /\ \A u \in Tun : \A k \in 1 .. Len(toHub[u]) : toHub[u][k].req # r
  BY DEF Inv, JobInv, OnTheWayInv, MessagesTrue, MessagesInOrder, PartialsTrue
<1>7. JobInv'
  BY <1>1, <1>2, <1>3, <1>6 DEF Inv, JobInv
<1>8. OnTheWayInv'
  <2>1. \A u \in Tun : \A k \in 1 .. Len(toHub[u]) : toHub[u][k].req \in Req
    <3>1. \A u \in Tun : \A k \in 1 .. Len(toHub[u]) : toHub[u][k] \in Messages
      BY ChannelFacts DEF Inv, TypeOK
    <3>2. QED
      BY <3>1 DEF Messages
  <2>2. \A u \in Tun : \A k \in 1 .. Len(toHub[u]) :
          /\ job'[toHub[u][k].req] \in {"sending", "done"}
          /\ size'[toHub[u][k].req] = size[toHub[u][k].req]
    BY <1>3, <1>6, <2>1 DEF Inv, OnTheWayInv, MessagesTrue, MessagesInOrder, PartialsTrue
  <2>3. \A u \in Tun, q \in Req : chunked[u][q] # NoPartial => size'[q] = size[q]
    BY <1>3, <1>6
  <2>4. QED
    BY <1>1, <2>2, <2>3 DEF Inv, OnTheWayInv, MessagesTrue, MessagesInOrder, PartialsTrue
<1>9. AnswerIsComplete'
  <2>1. \A q \in Req : fut[q] = "result" => size'[q] = size[q]
    BY <1>3, <1>6
  <2>2. QED
    BY <1>1, <2>1 DEF Inv, AnswerIsComplete, Answer
<1>10. NothingSkippedInv'
  BY <1>1, QueuedFacts DEF Inv, NothingSkippedInv
<1>11. RegisteredInv' /\ PendingMatchesWaiting'
  BY <1>1 DEF Inv, RegisteredInv, PendingMatchesWaiting
<1>12. QED
  BY <1>4, <1>5, <1>7, <1>8, <1>9, <1>10, <1>11 DEF Inv

\* The host sends the next part of an answer on the tunnel that asked.
LEMMA HostSendsStep ==
  ASSUME Inv, NEW r \in Req, HostSends(r)
  PROVE  Inv'
<1> DEFINE t == jobTun[r]
           m == Message(r)
<1>1. /\ UNCHANGED <<running, cpc, cur, jobTun, size, link, toHost, tunnels, tpc, pending, chunked, rpc, reqTun, fut, answer>>
      /\ job[r] = "sending" /\ toHub' = [toHub EXCEPT ![t] = Append(@, m)]
      /\ sent' = [sent EXCEPT ![r] = @ + 1]
      /\ job' = [job EXCEPT ![r] = IF sent[r] + 1 = size[r] THEN "done" ELSE @]
  BY DEF HostSends, client, hub, answers, request, future
<1>2. /\ job \in [Req -> {"none", "requesting", "sending", "done"}] /\ size \in [Req -> 0 .. MaxChunks]
      /\ sent \in [Req -> 0 .. MaxChunks] /\ t \in Tun /\ toHub \in [Tun -> Seq(Messages)]
      /\ sent[r] < size[r] /\ \A q \in Req : sent[q] <= size[q]
  BY <1>1 DEF Inv, TypeOK, JobInv
<1>3. /\ m \in Messages /\ m.req = r /\ m.index = sent[r] /\ m.total = size[r]
      /\ m.kind = IF m.total = 1 THEN "whole" ELSE IF m.index = 0 THEN "start" ELSE "chunk"
  BY <1>2 DEF Message, Messages
<1> HIDE DEF m
<1>4. /\ job' \in [Req -> {"none", "requesting", "sending", "done"}] /\ sent' \in [Req -> 0 .. MaxChunks]
      /\ \A q \in Req : q # r => job'[q] = job[q] /\ sent'[q] = sent[q]
      /\ sent'[r] = sent[r] + 1 /\ job'[r] \in {"sending", "done"} /\ (sent'[r] = size[r] => job'[r] = "done")
  BY <1>1, <1>2, ConstantsAssumption
<1>5. /\ toHub' \in [Tun -> Seq(Messages)] /\ \A u \in Tun : u # t => toHub'[u] = toHub[u]
      /\ \A u \in Tun : Len(toHub[u]) \in Nat /\ \A k \in 1 .. Len(toHub[u]) : toHub[u][k] \in Messages
      /\ Len(toHub'[t]) = Len(toHub[t]) + 1 /\ toHub'[t][Len(toHub[t]) + 1] = m
      /\ \A k \in 1 .. Len(toHub[t]) : toHub'[t][k] = toHub[t][k]
  <2>1. toHub'[t] = Append(toHub[t], m) /\ \A u \in Tun : u # t => toHub'[u] = toHub[u]
    BY <1>1, <1>2
  <2>2. QED
    BY <1>1, <1>2, <1>3, <2>1, ChannelFacts
<1>6. TypeOK'
  <2>1. \A q \in Req : job'[q] # "none" => jobTun[q] \in Tun
    BY <1>2, <1>4 DEF Inv, TypeOK
  <2>2. UNCHANGED <<running, cpc, cur, jobTun, size, link, toHost, tunnels, tpc, pending, chunked, rpc, reqTun, fut, answer>>
    BY <1>1
  <2>3. toHub' \in [Tun -> Seq(Messages)]
    BY <1>5
  <2>4. QED
    BY <1>4, <2>1, <2>2, <2>3 DEF Inv, TypeOK
<1>7. AskedInv'
  <2>1. \A q \in Req : job[q] = "none" => job'[q] = "none"
    BY <1>1, <1>4
  <2>2. \A u \in Tun : \A k \in 1 .. Len(toHost[u]) : toHost[u][k] \in Req
    BY ChannelFacts DEF Inv, TypeOK
  <2>3. QED
    BY <1>1, <2>1, <2>2 DEF Inv, AskedInv
<1>8. JobInv'
  BY <1>1, <1>2, <1>4 DEF Inv, JobInv
<1>9. \A u \in Tun : \A k \in 1 .. Len(toHub'[u]) :
        \/ k \in 1 .. Len(toHub[u]) /\ toHub'[u][k] = toHub[u][k]
        \/ u = t /\ k = Len(toHub[t]) + 1 /\ toHub'[u][k] = m
  BY <1>2, <1>5
<1>10. OnTheWayInv'
  <2>1. \A u \in Tun : \A k \in 1 .. Len(toHub[u]) :
          /\ toHub[u][k].req \in Req /\ toHub[u][k].index \in Nat
          /\ toHub[u][k].req = r => u = t /\ toHub[u][k].index < sent[r]
          /\ toHub[u][k].index < sent'[toHub[u][k].req] /\ job'[toHub[u][k].req] \in {"sending", "done"}
    <3>1. \A u \in Tun : \A k \in 1 .. Len(toHub[u]) :
            toHub[u][k].req \in Req /\ toHub[u][k].index \in Nat
      BY <1>5 DEF Messages
    <3>2. \A u \in Tun : \A k \in 1 .. Len(toHub[u]) :
            /\ jobTun[toHub[u][k].req] = u /\ toHub[u][k].index < sent[toHub[u][k].req]
            /\ job[toHub[u][k].req] \in {"sending", "done"}
      BY DEF Inv, OnTheWayInv, MessagesTrue, MessagesInOrder, PartialsTrue
    <3>3. \A q \in Req :
            /\ sent[q] \in Nat /\ sent'[q] \in Nat /\ sent[q] <= sent'[q]
            /\ job[q] \in {"sending", "done"} => job'[q] \in {"sending", "done"}
      BY <1>2, <1>4
    <3>4. ASSUME NEW u \in Tun, NEW k \in 1 .. Len(toHub[u])
          PROVE  LET e == toHub[u][k]
                 IN /\ e.req \in Req /\ e.index \in Nat /\ (e.req = r => u = t /\ e.index < sent[r])
                    /\ e.index < sent'[e.req] /\ job'[e.req] \in {"sending", "done"}
      <4> DEFINE e == toHub[u][k]
      <4>1. /\ e.req \in Req /\ e.index \in Nat /\ jobTun[e.req] = u /\ e.index < sent[e.req]
            /\ job[e.req] \in {"sending", "done"}
        BY <3>1, <3>2
      <4> HIDE DEF e
      <4>2. e.index < sent'[e.req] /\ job'[e.req] \in {"sending", "done"}
        BY <3>3, <4>1
      <4>3. QED
        BY <4>1, <4>2 DEF e
    <3>5. QED
      BY <3>4
  <2>2. \A u \in Tun : \A k \in 1 .. Len(toHub'[u]) :
          LET e == toHub'[u][k]
          IN /\ job'[e.req] \in {"sending", "done"} /\ jobTun[e.req] = u
             /\ e.total = size[e.req] /\ e.index < sent'[e.req]
             /\ e.kind = IF e.total = 1 THEN "whole" ELSE IF e.index = 0 THEN "start" ELSE "chunk"
    <3>1. \A u \in Tun : \A k \in 1 .. Len(toHub[u]) :
            LET e == toHub[u][k]
            IN /\ jobTun[e.req] = u /\ e.total = size[e.req]
               /\ e.kind = IF e.total = 1 THEN "whole" ELSE IF e.index = 0 THEN "start" ELSE "chunk"
      BY DEF Inv, OnTheWayInv, MessagesTrue, MessagesInOrder, PartialsTrue
    <3>2. jobTun[m.req] = t /\ m.index < sent'[m.req] /\ job'[m.req] \in {"sending", "done"}
      BY <1>2, <1>3, <1>4
    <3>3. QED
      BY <1>3, <1>9, <2>1, <3>1, <3>2, SMTT(30)
  <2>3. \A u \in Tun : \A k, l \in 1 .. Len(toHub'[u]) :
          k < l /\ toHub'[u][k].req = toHub'[u][l].req => toHub'[u][k].index < toHub'[u][l].index
    <3>1. SUFFICES ASSUME NEW u \in Tun, NEW k \in 1 .. Len(toHub'[u]), NEW l \in 1 .. Len(toHub'[u]),
                          k < l, toHub'[u][k].req = toHub'[u][l].req
                   PROVE  toHub'[u][k].index < toHub'[u][l].index
      OBVIOUS
    <3>2. k \in 1 .. Len(toHub[u]) /\ toHub'[u][k] = toHub[u][k]
      BY <1>5, <1>9, <3>1
    <3>3. CASE l \in 1 .. Len(toHub[u]) /\ toHub'[u][l] = toHub[u][l]
      BY <3>1, <3>2, <3>3 DEF Inv, OnTheWayInv, MessagesTrue, MessagesInOrder, PartialsTrue
    <3>4. CASE toHub'[u][l] = m
      BY <1>3, <2>1, <3>1, <3>2, <3>4
    <3>5. QED
      BY <1>9, <3>3, <3>4
  <2>4. \A u \in Tun, q \in Req : chunked[u][q] # NoPartial =>
          /\ jobTun[q] = u /\ chunked[u][q].total = size[q] /\ size[q] > 1
          /\ chunked[u][q].got \subseteq 0 .. sent'[q] - 1
    <3>1. \A q \in Req : 0 .. sent[q] - 1 \subseteq 0 .. sent'[q] - 1
      <4>1. \A q \in Req : sent[q] \in Nat /\ sent'[q] \in Nat /\ sent[q] <= sent'[q]
        BY <1>2, <1>4
      <4>2. QED
        BY <4>1
    <3>2. QED
      BY <3>1 DEF Inv, OnTheWayInv, MessagesTrue, MessagesInOrder, PartialsTrue
  <2>5. MessagesTrue'
    BY <1>1, <2>2, SMTT(30) DEF MessagesTrue
  <2>6. MessagesInOrder'
    BY <2>3 DEF MessagesInOrder
  <2>7. PartialsTrue'
    BY <1>1, <2>4 DEF PartialsTrue
  <2>8. QED
    BY <2>5, <2>6, <2>7 DEF OnTheWayInv
<1>11. AnswerIsComplete'
  BY <1>1 DEF Inv, AnswerIsComplete
<1>12. NothingSkippedInv'
  <2>1. \A u \in Tun, q \in Req : \A i : Queued(u, q, i) => Queued(u, q, i)'
    <3>1. \A u \in Tun : \A k \in 1 .. Len(toHub[u]) : k \in 1 .. Len(toHub'[u]) /\ toHub'[u][k] = toHub[u][k]
      BY <1>5
    <3>2. QED
      BY <3>1 DEF Queued
  <2>2. \A u \in Tun : \A i : u = t /\ i = sent[r] => Queued(u, r, i)'
    <3>1. Len(toHub[t]) + 1 \in 1 .. Len(toHub'[t])
      BY <1>2, <1>5
    <3>2. QED
      BY <1>1, <1>3, <1>5, <3>1 DEF Queued
  <2>3. \A q \in Req : \A i : i \in 0 .. sent'[q] - 1 => i \in 0 .. sent[q] - 1 \/ (q = r /\ i = sent[r])
    BY <1>2, <1>4
  <2>4. \A u \in Tun, q \in Req : chunked[u][q] # NoPartial =>
          \A i \in 0 .. sent'[q] - 1 : i \in chunked[u][q].got \/ Queued(u, q, i)'
    <3>1. \A u \in Tun, q \in Req : chunked[u][q] # NoPartial => jobTun[q] = u
      BY DEF Inv, OnTheWayInv, MessagesTrue, MessagesInOrder, PartialsTrue
    <3>2. \A u \in Tun, q \in Req : chunked[u][q] # NoPartial =>
            \A i \in 0 .. sent[q] - 1 : i \in chunked[u][q].got \/ Queued(u, q, i)
      BY DEF Inv, NothingSkippedInv
    <3>3. QED
      BY <2>1, <2>2, <2>3, <3>1, <3>2
  <2>5. \A u \in Tun, q \in Req : Queued(u, q, 0)' => \A i \in 0 .. sent'[q] - 1 : Queued(u, q, i)'
    <3>1. SUFFICES ASSUME NEW u \in Tun, NEW q \in Req, Queued(u, q, 0)', NEW i \in 0 .. sent'[q] - 1
                   PROVE  Queued(u, q, i)'
      OBVIOUS
    <3>2. PICK k \in 1 .. Len(toHub'[u]) : toHub'[u][k].req = q /\ toHub'[u][k].index = 0
      BY <3>1 DEF Queued
    <3>3. CASE k \in 1 .. Len(toHub[u]) /\ toHub'[u][k] = toHub[u][k]
      <4>1. Queued(u, q, 0)
        BY <3>2, <3>3 DEF Queued
      <4>2. q = r => u = t
        BY <3>2, <3>3 DEF Inv, OnTheWayInv, MessagesTrue, MessagesInOrder, PartialsTrue
      <4>3. QED
        BY <2>1, <2>2, <2>3, <4>1, <4>2 DEF Inv, NothingSkippedInv
    <3>4. CASE u = t /\ toHub'[u][k] = m
      <4>1. q = r /\ sent[r] = 0
        BY <1>3, <3>2, <3>4
      <4>2. i = sent[r]
        BY <1>4, <4>1
      <4>3. QED
        BY <2>2, <3>4, <4>1, <4>2
    <3>5. QED
      BY <1>9, <3>3, <3>4
  <2>6. QED
    BY <1>1, <2>4, <2>5 DEF NothingSkippedInv
<1>13. RegisteredInv' /\ PendingMatchesWaiting'
  BY <1>1 DEF Inv, RegisteredInv, PendingMatchesWaiting
<1>14. QED
  BY <1>6, <1>7, <1>8, <1>10, <1>11, <1>12, <1>13 DEF Inv
\* The hub reads a message: it keeps a part, or resolves the future with what
\* is complete.
LEMMA HubReadsStep ==
  ASSUME Inv, NEW t \in Tun, HubReads(t)
  PROVE  Inv'
<1> DEFINE m == Head(toHub[t])
           r == m.req
           p == Received(chunked[t][r], m)
<1>1. /\ UNCHANGED <<running, cpc, cur, job, jobTun, size, sent, link, toHost, tunnels, tpc, pending, rpc, reqTun>>
      /\ toHub[t] # <<>> /\ toHub' = [toHub EXCEPT ![t] = Tail(@)] /\ tpc[t] = "running"
      /\ \/ m.kind = "whole" /\ Resolve(t, r, Answer(r, 1, {0})) /\ chunked' = chunked
         \/ m.kind # "whole" /\ p # NoPartial /\ Complete(p) /\ Resolve(t, r, Answer(r, p.total, p.got))
            /\ chunked' = [chunked EXCEPT ![t][r] = NoPartial]
         \/ m.kind # "whole" /\ UNCHANGED future /\ chunked' = [chunked EXCEPT ![t][r] = p]
  BY DEF HubReads, client, jobs, hub, request
<1>2. /\ toHub' \in [Tun -> Seq(Messages)] /\ \A u \in Tun : u # t => toHub'[u] = toHub[u]
      /\ \A u \in Tun : Len(toHub[u]) \in Nat /\ \A k \in 1 .. Len(toHub[u]) : toHub[u][k] \in Messages
      /\ Len(toHub[t]) > 0 /\ m = toHub[t][1] /\ m \in Messages
      /\ Len(toHub'[t]) = Len(toHub[t]) - 1
      /\ \A k \in 1 .. Len(toHub[t]) - 1 : toHub'[t][k] = toHub[t][k + 1]
  <2>1. toHub \in [Tun -> Seq(Messages)]
    BY DEF Inv, TypeOK
  <2>2. toHub'[t] = Tail(toHub[t]) /\ \A u \in Tun : u # t => toHub'[u] = toHub[u]
    BY <1>1, <2>1
  <2>3. QED
    BY <1>1, <2>1, <2>2, ChannelFacts
<1>3. /\ r \in Req /\ m.index \in Nat /\ m.kind \in {"whole", "start", "chunk"} /\ 1 \in 1 .. Len(toHub[t])
      /\ jobTun[r] = t /\ m.total = size[r] /\ m.index < sent[r] /\ job[r] \in {"sending", "done"}
      /\ m.kind = IF size[r] = 1 THEN "whole" ELSE IF m.index = 0 THEN "start" ELSE "chunk"
      /\ sent[r] <= size[r] /\ size[r] \in 0 .. MaxChunks /\ sent[r] \in 0 .. MaxChunks
  <2>1. r \in Req /\ m.index \in Nat /\ m.kind \in {"whole", "start", "chunk"} /\ 1 \in 1 .. Len(toHub[t])
    BY <1>2 DEF Messages
  <2>2. /\ jobTun[r] = t /\ m.total = size[r] /\ m.index < sent[r] /\ job[r] \in {"sending", "done"}
        /\ m.kind = IF m.total = 1 THEN "whole" ELSE IF m.index = 0 THEN "start" ELSE "chunk"
    BY <1>2, <2>1 DEF Inv, OnTheWayInv, MessagesTrue, MessagesInOrder, PartialsTrue
  <2>3. sent[r] <= size[r] /\ size[r] \in 0 .. MaxChunks /\ sent[r] \in 0 .. MaxChunks
    BY <2>1 DEF Inv, TypeOK, JobInv
  <2>4. QED
    BY <2>1, <2>2, <2>3
<1>4. chunked[t][r] # NoPartial =>
        /\ chunked[t][r].total = size[r] /\ size[r] > 1 /\ chunked[t][r].got \subseteq 0 .. sent[r] - 1
  BY <1>3 DEF Inv, OnTheWayInv, MessagesTrue, MessagesInOrder, PartialsTrue
<1>5. /\ chunked \in [Tun -> [Req -> [total : 0 .. MaxChunks, got : SUBSET (0 .. MaxChunks)]]]
      /\ chunked[t][r] \in [total : 0 .. MaxChunks, got : SUBSET (0 .. MaxChunks)]
  BY <1>3 DEF Inv, TypeOK
<1> HIDE DEF m, r
<1>6. /\ p \in [total : 0 .. MaxChunks, got : SUBSET (0 .. MaxChunks)]
      /\ m.kind # "whole" /\ p # NoPartial => p.total = size[r] /\ size[r] > 1 /\ p.got \subseteq 0 .. sent[r] - 1
      /\ m.kind = "start" => p.got = {0}
      /\ m.kind = "chunk" /\ p # NoPartial =>
           chunked[t][r] # NoPartial /\ p.got = chunked[t][r].got \cup {m.index}
  <2>1. CASE m.kind = "start"
    <3>1. size[r] # 1 /\ m.index = 0 /\ m.total = size[r]
      BY <1>3, <2>1
    <3>2. size[r] > 1 /\ sent[r] > 0 /\ MaxChunks \in Nat /\ {0} \subseteq 0 .. sent[r] - 1
      BY <1>3, <3>1, ConstantsAssumption
    <3>3. p = [total |-> size[r], got |-> {0}]
      BY <2>1, <3>1 DEF Received
    <3>4. p \in [total : 0 .. MaxChunks, got : SUBSET (0 .. MaxChunks)] /\ p.total = size[r] /\ p.got = {0}
      BY <1>3, <3>2, <3>3
    <3>5. QED
      BY <2>1, <3>2, <3>4
  <2>2. CASE m.kind = "chunk" /\ chunked[t][r] # NoPartial
    <3>1. p = [chunked[t][r] EXCEPT !.got = @ \cup {m.index}]
      BY <2>2 DEF Received
    <3>2. p.total = chunked[t][r].total /\ p.got = chunked[t][r].got \cup {m.index}
      BY <1>5, <3>1
    <3>3. m.index \in 0 .. sent[r] - 1 /\ 0 .. sent[r] - 1 \subseteq 0 .. MaxChunks
      <4>1. m.index \in Nat /\ m.index < sent[r] /\ sent[r] \in 0 .. MaxChunks /\ MaxChunks \in Nat
        BY <1>3, ConstantsAssumption
      <4>2. QED
        BY <4>1
    <3>4. p \in [total : 0 .. MaxChunks, got : SUBSET (0 .. MaxChunks)]
      BY <1>5, <3>1, <3>3
    <3>5. QED
      BY <1>4, <2>2, <3>2, <3>3, <3>4
  <2>3. CASE m.kind = "whole" \/ (m.kind = "chunk" /\ chunked[t][r] = NoPartial)
    <3>1. p = chunked[t][r]
      BY <2>3 DEF Received
    <3>2. QED
      BY <1>3, <1>5, <2>3, <3>1
  <2>4. QED
    BY <1>3, <2>1, <2>2, <2>3
<1> HIDE DEF p
<1>7. \/ UNCHANGED future
      \/ /\ fut[r] = "waiting" /\ fut' = [fut EXCEPT ![r] = "result"]
         /\ answer' = [answer EXCEPT ![r] = Answer(r, size[r], 0 .. size[r] - 1)]
  <2>1. CASE m.kind = "whole" /\ Resolve(t, r, Answer(r, 1, {0}))
    <3>1. size[r] = 1 /\ {0} = 0 .. size[r] - 1
      BY <1>3, <2>1
    <3>2. QED
      BY <2>1, <3>1 DEF Resolve, future
  <2>2. CASE m.kind # "whole" /\ p # NoPartial /\ Complete(p) /\ Resolve(t, r, Answer(r, p.total, p.got))
    <3>1. size[r] \in Nat /\ p.total = size[r] /\ p.got \in SUBSET (0 .. size[r] - 1) /\ Cardinality(p.got) >= size[r]
      BY <1>3, <1>6, <2>2 DEF Complete
    <3>2. p.got = 0 .. size[r] - 1
      BY <3>1, CompleteFacts
    <3>3. QED
      BY <2>2, <3>1, <3>2 DEF Resolve, future
  <2>3. QED
    BY <1>1, <2>1, <2>2 DEF m, r, p
<1>8. /\ fut' \in [Req -> {"none", "waiting", "result", "error", "cancelled"}]
      /\ answer' \in [Req -> [of : Req, total : 0 .. MaxChunks, got : SUBSET (0 .. MaxChunks)]]
      /\ \A q \in Req : q # r => fut'[q] = fut[q] /\ answer'[q] = answer[q]
      /\ \/ fut'[r] = fut[r] /\ answer'[r] = answer[r]
         \/ fut[r] = "waiting" /\ fut'[r] = "result" /\ answer'[r] = Answer(r, size[r], 0 .. size[r] - 1)
  <2>1. /\ fut \in [Req -> {"none", "waiting", "result", "error", "cancelled"}]
        /\ answer \in [Req -> [of : Req, total : 0 .. MaxChunks, got : SUBSET (0 .. MaxChunks)]]
    BY DEF Inv, TypeOK
  <2>2. Answer(r, size[r], 0 .. size[r] - 1) \in [of : Req, total : 0 .. MaxChunks, got : SUBSET (0 .. MaxChunks)]
    <3>1. 0 .. size[r] - 1 \subseteq 0 .. MaxChunks
      BY <1>3, ConstantsAssumption
    <3>2. QED
      BY <1>3, <3>1 DEF Answer
  <2>3. CASE UNCHANGED future
    BY <2>1, <2>3 DEF future
  <2>4. CASE fut[r] = "waiting" /\ fut' = [fut EXCEPT ![r] = "result"]
             /\ answer' = [answer EXCEPT ![r] = Answer(r, size[r], 0 .. size[r] - 1)]
    BY <1>3, <2>1, <2>2, <2>4
  <2>5. QED
    BY <1>7, <2>3, <2>4
<1>9. /\ chunked' \in [Tun -> [Req -> [total : 0 .. MaxChunks, got : SUBSET (0 .. MaxChunks)]]]
      /\ \A u \in Tun, q \in Req : u # t \/ q # r => chunked'[u][q] = chunked[u][q]
      /\ \/ m.kind = "whole" /\ chunked'[t][r] = chunked[t][r]
         \/ chunked'[t][r] = NoPartial
         \/ m.kind # "whole" /\ chunked'[t][r] = p
  <2>1. NoPartial \in [total : 0 .. MaxChunks, got : SUBSET (0 .. MaxChunks)]
    BY ConstantsAssumption DEF NoPartial
  <2>2. \/ m.kind = "whole" /\ chunked' = chunked
        \/ chunked' = [chunked EXCEPT ![t][r] = NoPartial]
        \/ m.kind # "whole" /\ chunked' = [chunked EXCEPT ![t][r] = p]
    BY <1>1 DEF m, r, p
  <2>3. ASSUME NEW e \in [total : 0 .. MaxChunks, got : SUBSET (0 .. MaxChunks)],
               chunked' = [chunked EXCEPT ![t][r] = e]
        PROVE  /\ chunked' \in [Tun -> [Req -> [total : 0 .. MaxChunks, got : SUBSET (0 .. MaxChunks)]]]
               /\ \A u \in Tun, q \in Req : u # t \/ q # r => chunked'[u][q] = chunked[u][q]
               /\ chunked'[t][r] = e
    BY <1>3, <1>5, <2>3
  <2>4. QED
    BY <1>5, <1>6, <2>1, <2>2, <2>3
<1>10. TypeOK'
  <2>1. UNCHANGED <<running, cpc, cur, job, jobTun, size, sent, link, toHost, tunnels, tpc, pending, rpc, reqTun>>
    BY <1>1
  <2>2. toHub' \in [Tun -> Seq(Messages)]
    BY <1>2
  <2>3. QED
    BY <1>8, <1>9, <2>1, <2>2 DEF Inv, TypeOK
<1>11. \A u \in Tun : \A k \in 1 .. Len(toHub'[u]) :
         \/ u # t /\ k \in 1 .. Len(toHub[u]) /\ toHub'[u][k] = toHub[u][k]
         \/ u = t /\ k \in Nat /\ k + 1 \in 1 .. Len(toHub[u]) /\ toHub'[u][k] = toHub[u][k + 1]
  BY <1>2
<1>12. AskedInv' /\ JobInv' /\ AnswerIsComplete'
  <2>1. job[r] \notin {"none", "requesting"}
    BY <1>3
  <2>2. AskedInv'
    <3>1. \A q \in Req : fut[q] = "none" => fut'[q] = "none"
      BY <1>8
    <3>2. QED
      BY <1>1, <3>1 DEF Inv, AskedInv
  <2>3. JobInv'
    <3>1. \A q \in Req : job[q] \in {"none", "requesting"} =>
            fut'[q] = fut[q] /\ \A u \in Tun : chunked'[u][q] = chunked[u][q]
      BY <1>8, <1>9, <2>1
    <3>2. UNCHANGED <<job, sent, size>>
      BY <1>1
    <3>3. QED
      BY <3>1, <3>2 DEF Inv, JobInv
  <2>4. AnswerIsComplete'
    BY <1>1, <1>8 DEF Inv, AnswerIsComplete
  <2>5. QED
    BY <2>2, <2>3, <2>4
<1>13. OnTheWayInv'
  <2>1. \A u \in Tun : \A k \in 1 .. Len(toHub'[u]) : \E l \in 1 .. Len(toHub[u]) : toHub'[u][k] = toHub[u][l]
    BY <1>11
  <2>2. \A u \in Tun : \A k, l \in 1 .. Len(toHub'[u]) :
          k < l /\ toHub'[u][k].req = toHub'[u][l].req => toHub'[u][k].index < toHub'[u][l].index
    <3>1. SUFFICES ASSUME NEW u \in Tun, NEW k \in 1 .. Len(toHub'[u]), NEW l \in 1 .. Len(toHub'[u]),
                          k < l, toHub'[u][k].req = toHub'[u][l].req
                   PROVE  toHub'[u][k].index < toHub'[u][l].index
      OBVIOUS
    <3>2. k + 1 < l + 1
      BY <3>1
    <3>3. \A i, j \in 1 .. Len(toHub[u]) :
            i < j /\ toHub[u][i].req = toHub[u][j].req => toHub[u][i].index < toHub[u][j].index
      BY DEF Inv, OnTheWayInv, MessagesTrue, MessagesInOrder, PartialsTrue
    <3>4. CASE u # t
      BY <1>11, <3>1, <3>3, <3>4
    <3>5. CASE u = t
      BY <1>11, <3>1, <3>2, <3>3, <3>5
    <3>6. QED
      BY <3>4, <3>5
  <2>3. \A u \in Tun, q \in Req : chunked'[u][q] # NoPartial =>
          /\ jobTun[q] = u /\ chunked'[u][q].total = size[q] /\ size[q] > 1
          /\ chunked'[u][q].got \subseteq 0 .. sent[q] - 1
    <3>1. SUFFICES ASSUME NEW u \in Tun, NEW q \in Req, chunked'[u][q] # NoPartial
                   PROVE  /\ jobTun[q] = u /\ chunked'[u][q].total = size[q] /\ size[q] > 1
                          /\ chunked'[u][q].got \subseteq 0 .. sent[q] - 1
      OBVIOUS
    <3>2. CASE u # t \/ q # r
      <4>1. chunked'[u][q] = chunked[u][q]
        BY <1>9, <3>2
      <4>2. chunked[u][q] # NoPartial => /\ jobTun[q] = u /\ chunked[u][q].total = size[q] /\ size[q] > 1
                                         /\ chunked[u][q].got \subseteq 0 .. sent[q] - 1
        BY DEF Inv, OnTheWayInv, MessagesTrue, MessagesInOrder, PartialsTrue
      <4>3. QED
        BY <3>1, <4>1, <4>2
    <3>3. CASE u = t /\ q = r
      BY <1>3, <1>4, <1>6, <1>9, <3>1, <3>3
    <3>4. QED
      BY <3>2, <3>3
  <2>4. \A u \in Tun : \A k \in 1 .. Len(toHub'[u]) :
          LET e == toHub'[u][k]
          IN /\ job[e.req] \in {"sending", "done"} /\ jobTun[e.req] = u
             /\ e.total = size[e.req] /\ e.index < sent[e.req]
             /\ e.kind = IF e.total = 1 THEN "whole" ELSE IF e.index = 0 THEN "start" ELSE "chunk"
    <3>1. \A u \in Tun : \A k \in 1 .. Len(toHub[u]) :
            LET e == toHub[u][k]
            IN /\ job[e.req] \in {"sending", "done"} /\ jobTun[e.req] = u
               /\ e.total = size[e.req] /\ e.index < sent[e.req]
               /\ e.kind = IF e.total = 1 THEN "whole" ELSE IF e.index = 0 THEN "start" ELSE "chunk"
      BY DEF Inv, OnTheWayInv, MessagesTrue, MessagesInOrder, PartialsTrue
    <3>2. SUFFICES ASSUME NEW u \in Tun, NEW k \in 1 .. Len(toHub'[u])
                   PROVE  LET e == toHub'[u][k]
                          IN /\ job[e.req] \in {"sending", "done"} /\ jobTun[e.req] = u
                             /\ e.total = size[e.req] /\ e.index < sent[e.req]
                             /\ e.kind = IF e.total = 1 THEN "whole" ELSE IF e.index = 0 THEN "start" ELSE "chunk"
      OBVIOUS
    <3>3. PICK l \in 1 .. Len(toHub[u]) : toHub'[u][k] = toHub[u][l]
      BY <2>1
    <3>4. QED
      BY <3>1, <3>3
  <2>5. MessagesTrue'
    BY <1>1, <2>4, SMTT(30) DEF MessagesTrue
  <2>6. MessagesInOrder'
    BY <2>2 DEF MessagesInOrder
  <2>7. PartialsTrue'
    BY <1>1, <2>3 DEF PartialsTrue
  <2>8. QED
    BY <2>5, <2>6, <2>7 DEF OnTheWayInv
<1>14. NothingSkippedInv'
  <2>1. ASSUME NEW u \in Tun, NEW q \in Req, NEW i, Queued(u, q, i), ~(u = t /\ q = r /\ i = m.index)
        PROVE  Queued(u, q, i)'
    <3>1. PICK k \in 1 .. Len(toHub[u]) : toHub[u][k].req = q /\ toHub[u][k].index = i
      BY <2>1 DEF Queued
    <3>2. CASE u # t
      BY <1>2, <3>1, <3>2 DEF Queued
    <3>3. CASE u = t
      <4>1. k # 1
        BY <1>2, <2>1, <3>1, <3>3 DEF m, r
      <4>2. k - 1 \in 1 .. Len(toHub'[t]) /\ toHub'[t][k - 1] = toHub[t][k]
        BY <1>2, <3>1, <3>3, <4>1
      <4>3. QED
        BY <3>1, <3>3, <4>2 DEF Queued
    <3>4. QED
      BY <3>2, <3>3
  <2>2. ASSUME NEW u \in Tun, NEW q \in Req, Queued(u, q, 0)'
        PROVE  Queued(u, q, 0) /\ ~(u = t /\ q = r)
    <3>1. PICK k \in 1 .. Len(toHub'[u]) : toHub'[u][k].req = q /\ toHub'[u][k].index = 0
      BY <2>2 DEF Queued
    <3>2. CASE u # t
      BY <1>11, <3>1, <3>2 DEF Queued
    <3>3. CASE u = t
      <4>1. k + 1 \in 1 .. Len(toHub[t]) /\ toHub[t][k + 1].req = q /\ toHub[t][k + 1].index = 0 /\ 1 < k + 1
        BY <1>11, <3>1, <3>3
      <4>2. q = r => m.index < 0
        <5>1. \A a, b \in 1 .. Len(toHub[t]) :
                a < b /\ toHub[t][a].req = toHub[t][b].req => toHub[t][a].index < toHub[t][b].index
          BY DEF Inv, OnTheWayInv, MessagesTrue, MessagesInOrder, PartialsTrue
        <5>2. m = toHub[t][1] /\ r = toHub[t][1].req
          BY <1>2 DEF r
        <5>3. QED
          BY <1>3, <4>1, <5>1, <5>2
      <4>3. QED
        BY <1>3, <3>3, <4>1, <4>2 DEF Queued
    <3>4. QED
      BY <3>2, <3>3
  <2>3. \A u \in Tun, q \in Req : Queued(u, q, 0)' => \A i \in 0 .. sent[q] - 1 : Queued(u, q, i)'
    BY <2>1, <2>2 DEF Inv, NothingSkippedInv
  <2>4. \A u \in Tun, q \in Req : chunked'[u][q] # NoPartial =>
          \A i \in 0 .. sent[q] - 1 : i \in chunked'[u][q].got \/ Queued(u, q, i)'
    <3>1. SUFFICES ASSUME NEW u \in Tun, NEW q \in Req, chunked'[u][q] # NoPartial, NEW i \in 0 .. sent[q] - 1
                   PROVE  i \in chunked'[u][q].got \/ Queued(u, q, i)'
      OBVIOUS
    <3>2. CASE ~(u = t /\ q = r)
      <4>1. chunked[u][q] # NoPartial /\ chunked'[u][q] = chunked[u][q]
        BY <1>9, <3>1, <3>2
      <4>2. i \in chunked[u][q].got \/ Queued(u, q, i)
        BY <4>1 DEF Inv, NothingSkippedInv
      <4>3. QED
        BY <2>1, <3>2, <4>1, <4>2
    <3>3. CASE u = t /\ q = r
      <4>1. m.kind # "whole" /\ p # NoPartial /\ chunked'[u][q] = p
        BY <1>3, <1>4, <1>9, <3>1, <3>3
      <4>2. CASE m.kind = "start"
        <5>1. Queued(t, r, 0) /\ m.index = 0 /\ p.got = {0}
          BY <1>2, <1>3, <1>6, <4>2 DEF Queued, r
        <5>2. Queued(t, r, i)
          BY <1>3, <3>1, <3>3, <5>1 DEF Inv, NothingSkippedInv
        <5>3. QED
          BY <2>1, <3>3, <4>1, <5>1, <5>2
      <4>3. CASE m.kind = "chunk"
        <5>1. chunked[t][r] # NoPartial /\ p.got = chunked[t][r].got \cup {m.index}
          BY <1>6, <4>1, <4>3
        <5>2. i \in chunked[t][r].got \/ Queued(t, r, i)
          BY <1>3, <3>1, <3>3, <5>1 DEF Inv, NothingSkippedInv
        <5>3. QED
          BY <2>1, <3>3, <4>1, <5>1, <5>2
      <4>4. QED
        BY <1>3, <4>1, <4>2, <4>3
    <3>4. QED
      BY <3>2, <3>3
  <2>5. QED
    BY <1>1, <2>3, <2>4 DEF NothingSkippedInv
<1>15. RegisteredInv'
  BY <1>1 DEF Inv, RegisteredInv
<1>16. PendingMatchesWaiting'
  <2>1. \A q \in Req : fut'[q] = "waiting" => fut[q] = "waiting"
    BY <1>8
  <2>2. QED
    BY <1>1, <2>1 DEF Inv, PendingMatchesWaiting
<1>17. QED
  BY <1>10, <1>12, <1>13, <1>14, <1>15, <1>16 DEF Inv

LEMMA InvStep == Inv /\ [Next]_vars => Inv'
<1> SUFFICES ASSUME Inv, [Next]_vars PROVE Inv'
  OBVIOUS
<1>1. CASE ClientNext
  BY <1>1, ClientStep, HostReceivesStep DEF ClientNext
<1>2. CASE Stop
  BY <1>2, ClientStep
<1>3. ASSUME NEW t \in Tun, LinkDrops(t) \/ TunnelNext(t) PROVE Inv'
  BY <1>3, ClientStep, TunnelStep, FailStep, HubReadsStep DEF TunnelNext
<1>4. ASSUME NEW r \in Req, JobNext(r) \/ RequestNext(r) PROVE Inv'
  BY <1>4, JobStep, HostSendsStep, RequestStep, SendStep DEF JobNext, RequestNext
<1>5. CASE UNCHANGED vars
  <2>1. UNCHANGED <<running, cpc, cur, job, jobTun, size, sent, link, toHost, toHub, tunnels, tpc, pending, chunked,
                    rpc, reqTun, fut, answer>>
    BY <1>5 DEF vars, client, jobs, hub, answers, request, future
  <2>2. TypeOK' /\ AskedInv' /\ JobInv'
    BY <2>1 DEF Inv, TypeOK, AskedInv, JobInv
  <2>3. OnTheWayInv' /\ RegisteredInv' /\ PendingMatchesWaiting' /\ AnswerIsComplete'
    BY <2>1 DEF Inv, OnTheWayInv, MessagesTrue, MessagesInOrder, PartialsTrue, RegisteredInv, PendingMatchesWaiting, AnswerIsComplete
  <2>4. NothingSkippedInv'
    BY <2>1, QueuedFacts DEF Inv, NothingSkippedInv
  <2>5. QED
    BY <2>2, <2>3, <2>4 DEF Inv
<1>6. QED
  BY <1>1, <1>2, <1>3, <1>4, <1>5 DEF Next

-----------------------------------------------------------------------------
(* Theorems *)

\* Every reachable state is well typed.
THEOREM TypeCorrect == Spec => []TypeOK
<1>1. Inv => TypeOK
  BY DEF Inv
<1>2. QED
  BY InvInit, InvStep, <1>1, PTL DEF Spec

\* A request that gets an answer gets the whole of its own, in however many
\* chunks, over however many tunnels the host comes back.
THEOREM AnswerSafety == Spec => []AnswerIsComplete
<1>1. Inv => AnswerIsComplete
  BY DEF Inv
<1>2. QED
  BY InvInit, InvStep, <1>1, PTL DEF Spec

\* A running tunnel holds the futures of the requests that wait on it and no
\* others, and no part of an answer whose rest is neither to come nor on its way.
THEOREM NothingLeftSafety == Spec => []NothingLeftBehind
<1>1. Inv => PartialAnswerIsInProgress
  <2> SUFFICES ASSUME Inv, NEW t \in Tun, NEW r \in Req, chunked[t][r] # NoPartial
               PROVE  /\ jobTun[r] = t
                      /\ \A i \in 0 .. chunked[t][r].total - 1 :
                           \/ i \in chunked[t][r].got
                           \/ sent[r] <= i
                           \/ \E k \in 1 .. Len(toHub[t]) : toHub[t][k].req = r /\ toHub[t][k].index = i
    BY DEF PartialAnswerIsInProgress
  <2>1. jobTun[r] = t /\ sent[r] \in Nat /\ chunked[t][r].total \in Nat
    BY DEF Inv, OnTheWayInv, MessagesTrue, MessagesInOrder, PartialsTrue, TypeOK
  <2>2. \A i \in 0 .. sent[r] - 1 : i \in chunked[t][r].got \/ Queued(t, r, i)
    BY DEF Inv, NothingSkippedInv
  <2>3. \A i \in 0 .. chunked[t][r].total - 1 : i \in 0 .. sent[r] - 1 \/ sent[r] <= i
    BY <2>1
  <2>4. QED
    BY <2>1, <2>2, <2>3 DEF Queued
<1>2. Inv => NothingLeftBehind
  BY <1>1 DEF Inv, NothingLeftBehind
<1>3. QED
  BY InvInit, InvStep, <1>2, PTL DEF Spec
-----------------------------------------------------------------------------
(* TunnelSockets *)

\* The number of members is the same in the instance.
LEMMA SameCount == \A S : Sockets!Cardinality(S) = Cardinality(S)
BY DEF Sockets!Cardinality, Cardinality

\* The actions of TunnelSockets, as a preservation proof splits them.
LEMMA SocketsCases ==
  ASSUME NEW P, [Sockets!Next]_Sockets!vars,
         \A w \in Ws : Sockets!BrowserArrives(w) => P,
         \A w \in Ws : Sockets!BrowserJoins(w) => P,
         \A w \in Ws : Sockets!BrowserSends(w) => P,
         \A w \in Ws : Sockets!BrowserCloses(w) => P,
         \A w \in Ws : Sockets!BrowserLeaves(w) => P,
         \A w \in Ws : Sockets!OpenSucceeds(w) => P,
         \A w \in Ws : Sockets!OpenFails(w) => P,
         \A w \in Ws : Sockets!Flush(w) => P,
         \A w \in Ws : Sockets!ReaderEnds(w) => P,
         \A w \in Ws : Sockets!LocalSends(w) => P,
         \A w \in Ws : Sockets!LocalCloses(w) => P,
         Sockets!HubReads => P,
         Sockets!TaskRuns => P,
         Sockets!HostReads => P,
         Sockets!TunnelDrops => P,
         Sockets!TunnelEnds => P,
         Sockets!TunnelForgets => P,
         UNCHANGED Sockets!vars => P
  PROVE  P
BY DEF Sockets!Next, Sockets!Browser, Sockets!Proxy, Sockets!Opening, Sockets!Relay, Sockets!Local, Sockets!Tunnel

\* What the two ends of a queue do to its positions.
LEMMA QueueFacts ==
  ASSUME NEW T, NEW q \in Seq(T)
  PROVE  /\ Len(q) \in Nat /\ DOMAIN q = 1 .. Len(q)
         /\ \A k \in DOMAIN q : q[k] \in T
         /\ \A e \in T : /\ Append(q, e) \in Seq(T) /\ DOMAIN Append(q, e) = 1 .. Len(q) + 1
                         /\ Len(Append(q, e)) = Len(q) + 1
                         /\ \A k \in 1 .. Len(q) : Append(q, e)[k] = q[k]
                         /\ Append(q, e)[Len(q) + 1] = e
         /\ q # <<>> => /\ Tail(q) \in Seq(T) /\ Len(q) > 0 /\ DOMAIN Tail(q) = 1 .. Len(q) - 1
                        /\ Len(Tail(q)) = Len(q) - 1
                        /\ \A k \in 1 .. Len(q) - 1 : Tail(q)[k] = q[k + 1]
                        /\ Head(q) = q[1] /\ Head(q) \in T /\ 1 \in DOMAIN q
OBVIOUS

\* What is in a sequence.
LEMMA SeqElements == ASSUME NEW T, NEW q \in Seq(T) PROVE \A i \in DOMAIN q : i \in Nat /\ q[i] \in T
OBVIOUS

\* What a step changes in a sum of counts.
LEMMA Arithmetic ==
  ASSUME NEW a \in Nat, NEW b \in Nat, NEW c \in Nat, NEW l, a + b + c = l
  PROVE  /\ a + b + (c + 1) = l + 1
         /\ \A e \in Nat, f \in Nat : e + f = b + c => a + e + f = l
OBVIOUS

\* One that moves from the second count to the first.
LEMMA Moved ==
  ASSUME NEW a \in Nat, NEW b \in Nat, NEW c \in Nat, NEW l, a + b + c = l,
         NEW e \in Nat, NEW k \in Nat, b = e + k
  PROVE  (a + k) + e + c = l
OBVIOUS

\* A frame of socket w that is put at the end of a queue is one more.
LEMMA FramesAppend ==
  ASSUME NEW T, NEW q \in Seq(T), NEW m \in T, NEW w
  PROVE  /\ IsFiniteSet(Sockets!FramesIn(q, w))
         /\ Cardinality(Sockets!FramesIn(q, w)) \in Nat
         /\ Cardinality(Sockets!FramesIn(Append(q, m), w)) =
              Cardinality(Sockets!FramesIn(q, w)) + (IF m.ws = w /\ m.kind = "data" THEN 1 ELSE 0)
<1> DEFINE S == Sockets!FramesIn(q, w)
           R == Sockets!FramesIn(Append(q, m), w)
<1>1. IsFiniteSet(S) /\ Cardinality(S) \in Nat
  <2>1. S \in SUBSET (1 .. Len(q)) /\ Len(q) \in Int /\ 1 \in Int
    BY QueueFacts DEF Sockets!FramesIn
  <2>2. IsFiniteSet(1 .. Len(q))
    BY <2>1, FS_Interval
  <2>3. IsFiniteSet(S)
    <3> HIDE DEF S
    <3> QED BY <2>1, <2>2, FS_Subset
  <2> HIDE DEF S
  <2> QED BY <2>3, FS_CardinalityType
<1>2. CASE m.ws = w /\ m.kind = "data"
  <2>1. R = S \cup {Len(q) + 1} /\ Len(q) + 1 \notin S
    BY <1>2, QueueFacts DEF Sockets!FramesIn
  <2> HIDE DEF S, R
  <2>2. Cardinality(S \cup {Len(q) + 1}) = Cardinality(S) + 1
    BY <1>1, <2>1, FS_AddElement
  <2> QED BY <1>1, <1>2, <2>1, <2>2 DEF S, R
<1>3. CASE ~(m.ws = w /\ m.kind = "data")
  <2>1. R = S
    BY <1>3, QueueFacts DEF Sockets!FramesIn
  <2> QED BY <1>1, <1>3, <2>1
<1> QED BY <1>2, <1>3

\* One that is taken from its head is one less.
LEMMA FramesTail ==
  ASSUME NEW T, NEW q \in Seq(T), q # <<>>, NEW w
  PROVE  /\ Cardinality(Sockets!FramesIn(q, w)) \in Nat
         /\ Cardinality(Sockets!FramesIn(Tail(q), w)) \in Nat
         /\ Cardinality(Sockets!FramesIn(q, w)) =
              Cardinality(Sockets!FramesIn(Tail(q), w)) + (IF Head(q).ws = w /\ Head(q).kind = "data" THEN 1 ELSE 0)
<1> DEFINE S == Sockets!FramesIn(q, w)
           R == Sockets!FramesIn(Tail(q), w)
           f == [i \in R |-> i + 1]
<1>1. q[1] \in T /\ Tail(q) \in Seq(T)
  BY QueueFacts
<1>2. /\ IsFiniteSet(S) /\ Cardinality(S) \in Nat
      /\ IsFiniteSet(R) /\ Cardinality(R) \in Nat
  BY <1>1, FramesAppend, Zenon
<1>3. f \in Bijection(R, S \ {1})
  <2>1. \A i \in R : i + 1 \in S \ {1}
    BY QueueFacts DEF Sockets!FramesIn
  <2>2. \A j \in S \ {1} : \E i \in R : f[i] = j
    <3> SUFFICES ASSUME NEW j \in S \ {1} PROVE \E i \in R : f[i] = j
      OBVIOUS
    <3>1. j - 1 \in R /\ (j - 1) + 1 = j
      BY QueueFacts DEF Sockets!FramesIn
    <3> QED BY <3>1
  <2>3. \A i, j \in R : f[i] = f[j] => i = j
    BY QueueFacts DEF Sockets!FramesIn
  <2>4. f \in [R -> S \ {1}]
    BY <2>1
  <2> HIDE DEF R, S, f
  <2> QED BY <2>2, <2>3, <2>4 DEF Bijection, Injection, Surjection, IsInjective
<1>4. Cardinality(S \ {1}) = Cardinality(R)
  <2> HIDE DEF R, S, f
  <2> QED BY <1>2, <1>3, FS_Bijection, Zenon DEF ExistsBijection
<1>5. Cardinality(S \ {1}) = IF 1 \in S THEN Cardinality(S) - 1 ELSE Cardinality(S)
  <2> HIDE DEF S
  <2> QED BY <1>2, FS_RemoveElement
<1>6. 1 \in S <=> Head(q).ws = w /\ Head(q).kind = "data"
  BY QueueFacts DEF Sockets!FramesIn
<1> HIDE DEF R, S
<1>7. Cardinality(S) = Cardinality(R) + (IF Head(q).ws = w /\ Head(q).kind = "data" THEN 1 ELSE 0)
  BY <1>2, <1>4, <1>5, <1>6
<1> QED BY <1>2, <1>7 DEF R, S

\* Messages have their type and say what they are.
LEMMA MessageFacts ==
  ASSUME NEW w \in Ws, NEW n \in 0 .. Frames
  PROVE  /\ Sockets!Open(w) \in Sockets!Message /\ Sockets!Open(w).kind = "open" /\ Sockets!Open(w).ws = w
         /\ Sockets!Close(w) \in Sockets!Message /\ Sockets!Close(w).kind = "close" /\ Sockets!Close(w).ws = w
         /\ Sockets!Data(w, n) \in Sockets!Message /\ Sockets!Data(w, n).kind = "data" /\ Sockets!Data(w, n).ws = w /\ Sockets!Data(w, n).n = n
BY SocketsAssumption DEF Sockets!ConstantsAssumption, Sockets!Open, Sockets!Close, Sockets!Data, Sockets!Msg, Sockets!Message

\* What a queue holds after something was sent.
LEMMA SendTypes ==
  ASSUME Sockets!TypeOK, NEW m \in Sockets!Message
  PROVE  /\ Sockets!SendHost(m) => toLocal' \in Seq(Sockets!Message)
         /\ Sockets!SendHub(m) => toBrowser' \in Seq(Sockets!Message)
<1>1. /\ toLocal \in Seq(Sockets!Message) /\ toBrowser \in Seq(Sockets!Message)
      /\ Append(toLocal, m) \in Seq(Sockets!Message) /\ Append(toBrowser, m) \in Seq(Sockets!Message)
  BY DEF Sockets!TypeOK
<1> QED BY <1>1 DEF Sockets!SendHost, Sockets!SendHub

\* What the hub does with a message.
LEMMA HubReadsCases ==
  ASSUME Sockets!TypeOK, Sockets!HubReads
  PROVE  LET m == Head(toBrowser)
         IN /\ toBrowser # <<>> /\ toBrowser \in Seq(Sockets!Message) /\ m \in Sockets!Message /\ m = toBrowser[1] /\ 1 \in DOMAIN toBrowser
            /\ toBrowser' = Tail(toBrowser)
            /\ \/ m.kind = "data" /\ ready' = Append(ready, m) /\ clients' = clients
               \/ m.kind = "close" /\ m.ws \in clients /\ ready' = Append(ready, m) /\ clients' = clients \ {m.ws}
               \/ m.kind # "data" /\ ready' = ready /\ clients' = clients
<1> DEFINE m == Head(toBrowser)
<1>1. toBrowser # <<>> /\ toBrowser \in Seq(Sockets!Message) /\ toBrowser' = Tail(toBrowser)
  BY DEF Sockets!HubReads, Sockets!TypeOK
<1>2. m \in Sockets!Message /\ m = toBrowser[1] /\ 1 \in DOMAIN toBrowser
  BY <1>1, QueueFacts
<1>3. CASE m.kind = "data"
  BY <1>1, <1>2, <1>3 DEF Sockets!HubReads, Sockets!Schedule
<1>4. CASE m.kind = "close" /\ m.ws \in clients
  BY <1>1, <1>2, <1>4 DEF Sockets!HubReads, Sockets!Schedule
<1>5. CASE m.kind # "data" /\ ~(m.kind = "close" /\ m.ws \in clients)
  <2>1. ready' = ready /\ clients' = clients
    BY <1>5 DEF Sockets!HubReads
  <2> QED BY <1>1, <1>2, <1>5, <2>1
<1> QED BY <1>3, <1>4, <1>5

\* What the host does with a message.
LEMMA HostReadsCases ==
  ASSUME Sockets!TypeOK, Sockets!HostReads
  PROVE  LET m == Head(toLocal)
         IN /\ toLocal # <<>> /\ toLocal \in Seq(Sockets!Message) /\ m \in Sockets!Message /\ m = toLocal[1] /\ 1 \in DOMAIN toLocal
            /\ m.ws \in Ws /\ toLocal' = Tail(toLocal)
            /\ UNCHANGED <<tunnel, bpc, bsock, clients, ready, flush, toBrowser, bsent, lsent, bgot>>
            /\ \/ /\ m.kind = "open" /\ opc' = [opc EXCEPT ![m.ws] = "connecting"]
                  /\ UNCHANGED <<lsock, locals, pend, lgot, early>>
               \/ m.kind = "data" /\ Sockets!HandleData(m.ws, m.n)
               \/ m.kind = "close" /\ Sockets!HandleClose(m.ws)
<1> DEFINE m == Head(toLocal)
<1>1. /\ toLocal # <<>> /\ toLocal \in Seq(Sockets!Message) /\ toLocal' = Tail(toLocal)
      /\ UNCHANGED <<tunnel, bpc, bsock, clients, ready, flush, toBrowser, bsent, lsent, bgot>>
  BY DEF Sockets!HostReads, Sockets!TypeOK, Sockets!hub
<1>2. m \in Sockets!Message /\ m = toLocal[1] /\ 1 \in DOMAIN toLocal /\ m.ws \in Ws
  <2>1. m \in Sockets!Message /\ m = toLocal[1] /\ 1 \in DOMAIN toLocal
    BY <1>1, QueueFacts
  <2> QED BY <2>1 DEF Sockets!Message
<1>3. CASE m.kind = "open"
  BY <1>1, <1>2, <1>3 DEF Sockets!HostReads
<1>4. CASE m.kind = "data"
  BY <1>1, <1>2, <1>4 DEF Sockets!HostReads
<1>5. CASE m.kind = "close"
  BY <1>1, <1>2, <1>5 DEF Sockets!HostReads
<1> QED BY <1>2, <1>3, <1>4, <1>5 DEF Sockets!Message

\* Where the frames that waited for an open go: one is received and the rest
\* waits for that send to return, or none of them is.
LEMMA SendWaitingFacts ==
  ASSUME Sockets!TypeOK, NEW w \in Ws, NEW q \in Seq(1 .. Frames), Sockets!SendWaiting(w, q)
  PROVE  /\ opc' \in [Ws -> {"none", "connecting", "flushing", "reading", "ended", "failed"}]
         /\ flush' \in [Ws -> Seq(1 .. Frames)] /\ lgot' \in [Ws -> Seq(1 .. Frames)]
         /\ opc'[w] \in {"flushing", "reading"}
         /\ \A v \in Ws \ {w} : opc'[v] = opc[v] /\ flush'[v] = flush[v] /\ lgot'[v] = lgot[v]
         /\ \/ flush'[w] = <<>> /\ lgot'[w] = lgot[w]
            \/ q # <<>> /\ flush'[w] = Tail(q) /\ lgot'[w] = Append(lgot[w], Head(q))
<1>1. CASE q = <<>> \/ lsock'[w] # "open"
  <2>1. <<>> \in Seq(1 .. Frames)
    OBVIOUS
  <2>2. /\ opc' = [opc EXCEPT ![w] = "reading"] /\ flush' = [flush EXCEPT ![w] = <<>>]
        /\ lgot' = lgot
    BY <1>1 DEF Sockets!SendWaiting
  <2> QED BY <2>1, <2>2 DEF Sockets!TypeOK
<1>2. CASE ~(q = <<>> \/ lsock'[w] # "open")
  <2>1. lgot[w] \in Seq(1 .. Frames) /\ Tail(q) \in Seq(1 .. Frames) /\ Append(lgot[w], Head(q)) \in Seq(1 .. Frames)
    BY <1>2, QueueFacts DEF Sockets!TypeOK
  <2> QED BY <1>2, <2>1, ZenonT(30) DEF Sockets!SendWaiting, Sockets!TypeOK
<1> QED BY <1>1, <1>2

\* Every step keeps the types: only frames that were sent are received.
LEMMA SocketsTypeStep == Sockets!SocketsInv /\ [Sockets!Next]_Sockets!vars => Sockets!TypeOK'
<1> SUFFICES ASSUME Sockets!SocketsInv, [Sockets!Next]_Sockets!vars PROVE Sockets!TypeOK'
  OBVIOUS
<1>a. Sockets!TypeOK
  BY DEF Sockets!SocketsInv
<1> USE SocketsAssumption DEF Sockets!ConstantsAssumption, Sockets!hub, Sockets!host, Sockets!chans, Sockets!seen
<1>1. ASSUME NEW w \in Ws, Sockets!BrowserArrives(w) PROVE Sockets!TypeOK'
  BY <1>1, <1>a DEF Sockets!BrowserArrives, Sockets!TypeOK
<1>2. ASSUME NEW w \in Ws, Sockets!BrowserJoins(w) PROVE Sockets!TypeOK'
  <2>1. toLocal' \in Seq(Sockets!Message)
    BY <1>2, <1>a, MessageFacts, SendTypes DEF Sockets!BrowserJoins
  <2> QED BY <1>2, <1>a, <2>1 DEF Sockets!BrowserJoins, Sockets!TypeOK
<1>3. ASSUME NEW w \in Ws, Sockets!BrowserSends(w) PROVE Sockets!TypeOK'
  <2>1. bsent[w] + 1 \in 0 .. Frames
    BY <1>3, <1>a DEF Sockets!BrowserSends, Sockets!TypeOK
  <2>2. toLocal' \in Seq(Sockets!Message)
    BY <1>3, <1>a, <2>1, MessageFacts, SendTypes DEF Sockets!BrowserSends
  <2> QED BY <1>3, <1>a, <2>1, <2>2 DEF Sockets!BrowserSends, Sockets!TypeOK
<1>4. ASSUME NEW w \in Ws, Sockets!BrowserCloses(w) PROVE Sockets!TypeOK'
  BY <1>4, <1>a DEF Sockets!BrowserCloses, Sockets!TypeOK
<1>5. ASSUME NEW w \in Ws, Sockets!BrowserLeaves(w) PROVE Sockets!TypeOK'
  <2>1. toLocal' \in Seq(Sockets!Message)
    BY <1>5, <1>a, MessageFacts, SendTypes DEF Sockets!BrowserLeaves
  <2> QED BY <1>5, <1>a, <2>1 DEF Sockets!BrowserLeaves, Sockets!TypeOK
<1>6. ASSUME NEW w \in Ws, Sockets!OpenSucceeds(w) PROVE Sockets!TypeOK'
  <2>1. pend[w] \in Seq(1 .. Frames) /\ Sockets!SendWaiting(w, pend[w])
    BY <1>6, <1>a DEF Sockets!OpenSucceeds, Sockets!TypeOK
  <2>2. /\ lsock' \in [Ws -> {"none", "open", "closed"}] /\ locals' \subseteq Ws
        /\ pend' \in [Ws -> Seq(1 .. Frames)]
    <3>1. <<>> \in Seq(1 .. Frames)
      OBVIOUS
    <3> QED BY <1>6, <1>a, <3>1 DEF Sockets!OpenSucceeds, Sockets!TypeOK
  <2>3. UNCHANGED <<tunnel, bpc, bsock, clients, ready, toLocal, toBrowser, bsent, lsent, bgot, early>>
    BY <1>6 DEF Sockets!OpenSucceeds
  <2> HIDE DEF Sockets!hub, Sockets!host, Sockets!chans, Sockets!seen
  <2> QED BY <1>a, <2>1, <2>2, <2>3, SendWaitingFacts DEF Sockets!TypeOK
<1>7. ASSUME NEW w \in Ws, Sockets!OpenFails(w) PROVE Sockets!TypeOK'
  <2>1. toBrowser' \in Seq(Sockets!Message)
    BY <1>7, <1>a, MessageFacts, SendTypes DEF Sockets!OpenFails
  <2> QED BY <1>7, <1>a, <2>1 DEF Sockets!OpenFails, Sockets!TypeOK
<1>8. ASSUME NEW w \in Ws, Sockets!Flush(w) PROVE Sockets!TypeOK'
  <2>1. flush[w] \in Seq(1 .. Frames) /\ Sockets!SendWaiting(w, flush[w])
    BY <1>8, <1>a DEF Sockets!Flush, Sockets!TypeOK
  <2> QED BY <1>8, <1>a, <2>1, SendWaitingFacts DEF Sockets!Flush, Sockets!TypeOK
<1>9. ASSUME NEW w \in Ws, Sockets!ReaderEnds(w) PROVE Sockets!TypeOK'
  <2>1. toBrowser' \in Seq(Sockets!Message)
    BY <1>9, <1>a, MessageFacts, SendTypes DEF Sockets!ReaderEnds
  <2> QED BY <1>9, <1>a, <2>1 DEF Sockets!ReaderEnds, Sockets!TypeOK
<1>10. ASSUME NEW w \in Ws, Sockets!LocalSends(w) PROVE Sockets!TypeOK'
  <2>1. lsent[w] + 1 \in 0 .. Frames
    BY <1>10, <1>a DEF Sockets!LocalSends, Sockets!TypeOK
  <2>2. toBrowser' \in Seq(Sockets!Message)
    BY <1>10, <1>a, <2>1, MessageFacts, SendTypes DEF Sockets!LocalSends
  <2> QED BY <1>10, <1>a, <2>1, <2>2 DEF Sockets!LocalSends, Sockets!TypeOK
<1>11. ASSUME NEW w \in Ws, Sockets!LocalCloses(w) PROVE Sockets!TypeOK'
  BY <1>11, <1>a DEF Sockets!LocalCloses, Sockets!TypeOK
<1>12. ASSUME Sockets!HubReads PROVE Sockets!TypeOK'
  <2>1. Head(toBrowser) \in Sockets!Message /\ toBrowser' \in Seq(Sockets!Message)
    BY <1>12, <1>a, QueueFacts DEF Sockets!HubReads, Sockets!TypeOK
  <2>2. ASSUME Head(toBrowser).kind # "open"
        PROVE  /\ Append(ready, Head(toBrowser)) \in Seq(Sockets!Message)
               /\ \A i \in DOMAIN Append(ready, Head(toBrowser)) : Append(ready, Head(toBrowser))[i].kind # "open"
    <3>1. ready \in Seq(Sockets!Message) /\ \A i \in DOMAIN ready : ready[i].kind # "open"
      BY <1>a DEF Sockets!TypeOK
    <3> QED BY <2>1, <2>2, <3>1, QueueFacts
  <2>3. /\ \/ ready' = ready
           \/ Head(toBrowser).kind # "open" /\ ready' = Append(ready, Head(toBrowser))
        /\ clients' \subseteq Ws
    BY <1>12, <1>a, HubReadsCases DEF Sockets!TypeOK
  <2>4. ready' \in Seq(Sockets!Message) /\ \A i \in DOMAIN ready' : ready'[i].kind # "open"
    BY <1>a, <2>2, <2>3 DEF Sockets!TypeOK
  <2> QED BY <1>12, <1>a, <2>1, <2>3, <2>4 DEF Sockets!HubReads, Sockets!TypeOK
<1>13. ASSUME Sockets!TaskRuns PROVE Sockets!TypeOK'
  <2> DEFINE m == Head(ready)
  <2>1. /\ ready # <<>> /\ ready \in Seq(Sockets!Message) /\ ready' = Tail(ready)
    BY <1>13, <1>a DEF Sockets!TaskRuns, Sockets!TypeOK
  <2>2. /\ m = ready[1] /\ 1 \in DOMAIN ready /\ m \in Sockets!Message /\ ready' \in Seq(Sockets!Message)
        /\ m.kind # "open" /\ \A i \in DOMAIN ready' : ready'[i].kind # "open"
    BY <1>a, <2>1, QueueFacts DEF Sockets!TypeOK
  <2>3. bsock' \in [Ws -> {"open", "closed"}] /\ bgot' \in [Ws -> Seq(1 .. Frames)]
    <3>1. CASE m.kind = "close"
      BY <1>13, <1>a, <3>1 DEF Sockets!TaskRuns, Sockets!TypeOK
    <3>2. CASE m.kind # "close" /\ m.ws \in clients /\ bsock[m.ws] = "open"
      <4>1. m.ws \in Ws /\ m.n \in 1 .. Frames
        <5>1. m.ws \in Ws /\ m.kind = "data"
          BY <2>2, <3>2 DEF Sockets!Message
        <5>2. 1 \in Sockets!FramesIn(ready, m.ws)
          BY <2>2, <5>1 DEF Sockets!FramesIn
        <5>3. ready[1].n \in 1 .. lsent[m.ws]
          BY <1>a, <5>1, <5>2 DEF Sockets!SocketsInv, Sockets!FramesInOrder
        <5>4. lsent[m.ws] \in 0 .. Frames
          BY <1>a, <5>1 DEF Sockets!TypeOK
        <5> QED BY <2>2, <5>1, <5>3, <5>4
      <4>2. Append(bgot[m.ws], m.n) \in Seq(1 .. Frames)
        BY <1>a, <4>1 DEF Sockets!TypeOK
      <4> QED BY <1>13, <1>a, <3>2, <4>1, <4>2 DEF Sockets!TaskRuns, Sockets!TypeOK
    <3>3. CASE m.kind # "close" /\ ~(m.ws \in clients /\ bsock[m.ws] = "open")
      BY <1>13, <1>a, <3>3 DEF Sockets!TaskRuns, Sockets!TypeOK
    <3> QED BY <3>1, <3>2, <3>3
  <2> QED BY <1>13, <1>a, <2>2, <2>3 DEF Sockets!TaskRuns, Sockets!TypeOK
<1>14. ASSUME Sockets!HostReads PROVE Sockets!TypeOK'
  <2> DEFINE m == Head(toLocal)
  <2>1. toLocal' \in Seq(Sockets!Message)
    BY <1>14, <1>a, HostReadsCases, QueueFacts
  <2>2. CASE m.kind = "open"
    BY <1>14, <1>a, <2>1, <2>2, HostReadsCases DEF Sockets!TypeOK
  <2>3. CASE m.kind = "data"
    <3>1. m.ws \in Ws /\ m.n \in 1 .. Frames
      <4>1. m = toLocal[1] /\ m.ws \in Ws /\ 1 \in Sockets!FramesIn(toLocal, m.ws)
        BY <1>14, <1>a, <2>3, HostReadsCases DEF Sockets!FramesIn
      <4>2. m.n \in 1 .. bsent[m.ws] /\ bsent[m.ws] \in 0 .. Frames
        BY <4>1 DEF Sockets!SocketsInv, Sockets!LocalFrameAtMostOnce, Sockets!TypeOK
      <4> QED BY <4>1, <4>2
    <3>2. Append(lgot[m.ws], m.n) \in Seq(1 .. Frames) /\ Append(pend[m.ws], m.n) \in Seq(1 .. Frames)
      BY <1>a, <3>1 DEF Sockets!TypeOK
    <3>3. Sockets!HandleData(m.ws, m.n)
      BY <1>14, <1>a, <2>3, HostReadsCases
    <3>4. lgot' \in [Ws -> Seq(1 .. Frames)] /\ pend' \in [Ws -> Seq(1 .. Frames)]
      BY <1>a, <3>1, <3>2, <3>3, ZenonT(30) DEF Sockets!HandleData, Sockets!TypeOK
    <3> QED BY <1>14, <1>a, <2>1, <3>3, <3>4, HostReadsCases DEF Sockets!HandleData, Sockets!TypeOK
  <2>4. CASE m.kind = "close"
    <3>1. Sockets!HandleClose(m.ws) /\ m.ws \in Ws
      BY <1>14, <1>a, <2>4, HostReadsCases
    <3>2. /\ locals' \subseteq Ws /\ lsock' \in [Ws -> {"none", "open", "closed"}] /\ early' \subseteq Ws
          /\ UNCHANGED <<opc, pend, lgot>>
      BY <1>a, <3>1 DEF Sockets!HandleClose, Sockets!TypeOK
    <3> QED BY <1>14, <1>a, <2>1, <3>2, HostReadsCases DEF Sockets!TypeOK
  <2> QED BY <1>14, <1>a, <2>2, <2>3, <2>4, HostReadsCases
<1>15. ASSUME Sockets!TunnelDrops PROVE Sockets!TypeOK'
  BY <1>15, <1>a DEF Sockets!TunnelDrops, Sockets!TypeOK
<1>16. ASSUME Sockets!TunnelEnds PROVE Sockets!TypeOK'
  BY <1>16, <1>a DEF Sockets!TunnelEnds, Sockets!TypeOK
<1>17. ASSUME Sockets!TunnelForgets PROVE Sockets!TypeOK'
  BY <1>17, <1>a DEF Sockets!TunnelForgets, Sockets!TypeOK
<1>18. ASSUME UNCHANGED Sockets!vars PROVE Sockets!TypeOK'
  BY <1>18, <1>a DEF Sockets!vars, Sockets!TypeOK
<1> QED
  BY <1>1, <1>2, <1>3, <1>4, <1>5, <1>6, <1>7, <1>8, <1>9, <1>10, <1>11, <1>12, <1>13, <1>14, <1>15,
     <1>16, <1>17, <1>18, SocketsCases

\* What a send leaves on the tunnel to the host.
LEMMA SendHostFacts ==
  ASSUME Sockets!TypeOK, NEW m \in Sockets!Message, Sockets!SendHost(m)
  PROVE  \A i \in DOMAIN toLocal' :
           \/ i \in DOMAIN toLocal /\ toLocal'[i] = toLocal[i]
           \/ i = Len(toLocal) + 1 /\ i \notin DOMAIN toLocal /\ toLocal'[i] = m
<1>1. toLocal \in Seq(Sockets!Message) /\ Len(toLocal) \in Nat
  BY DEF Sockets!TypeOK
<1> QED BY <1>1, QueueFacts DEF Sockets!SendHost

\* Every step opens a socket at most once: its open is sent when its browser
\* joins, before all else, and is gone when it is read.
LEMMA OpenedOnceStep == Sockets!SocketsInv /\ [Sockets!Next]_Sockets!vars => Sockets!OpenedOnce'
<1> SUFFICES ASSUME Sockets!SocketsInv, [Sockets!Next]_Sockets!vars, NEW v \in Ws
             PROVE  (/\ bpc[v] \in {"idle", "accepting"} =>
                          /\ opc[v] = "none" /\ bsent[v] = 0
                          /\ \A i \in DOMAIN toLocal : toLocal[i].ws # v
                     /\ \A i \in DOMAIN toLocal : toLocal[i].ws = v /\ toLocal[i].kind = "open" =>
                          /\ opc[v] = "none"
                          /\ \A j \in DOMAIN toLocal : toLocal[j].ws = v /\ toLocal[j].kind = "open" => i = j
                     /\ opc[v] \in {"none", "connecting", "flushing"} => lsent[v] = 0)'
  BY DEF Sockets!OpenedOnce
<1> DEFINE Idle == bpc'[v] \in {"idle", "accepting"} =>
                     /\ opc'[v] = "none" /\ bsent'[v] = 0
                     /\ \A i \in DOMAIN toLocal' : toLocal'[i].ws # v
           Once == \A i \in DOMAIN toLocal' : toLocal'[i].ws = v /\ toLocal'[i].kind = "open" =>
                     /\ opc'[v] = "none"
                     /\ \A j \in DOMAIN toLocal' : toLocal'[j].ws = v /\ toLocal'[j].kind = "open" => i = j
           Silent == opc'[v] \in {"none", "connecting", "flushing"} => lsent'[v] = 0
           Opens == Idle /\ Once /\ Silent
<1> SUFFICES Opens
  OBVIOUS
<1>a. /\ Sockets!TypeOK
      /\ bpc[v] \in {"idle", "accepting"} =>
           /\ opc[v] = "none" /\ bsent[v] = 0
           /\ \A i \in DOMAIN toLocal : toLocal[i].ws # v
      /\ \A i \in DOMAIN toLocal : toLocal[i].ws = v /\ toLocal[i].kind = "open" =>
           /\ opc[v] = "none"
           /\ \A j \in DOMAIN toLocal : toLocal[j].ws = v /\ toLocal[j].kind = "open" => i = j
      /\ opc[v] \in {"none", "connecting", "flushing"} => lsent[v] = 0
  BY DEF Sockets!SocketsInv, Sockets!OpenedOnce
<1>b. ASSUME UNCHANGED <<opc, lsent, bsent, toLocal>>, bpc'[v] \in {"idle", "accepting"} => bpc[v] \in {"idle", "accepting"}
      PROVE  Opens
  BY <1>a, <1>b
<1>c. ASSUME UNCHANGED <<lsent, bsent, toLocal, bpc>>, opc[v] # "none", opc'[v] # "none",
             opc'[v] = "flushing" => opc[v] \in {"connecting", "flushing"}, opc'[v] # "connecting"
      PROVE  Opens
  BY <1>a, <1>c
<1>d. ASSUME NEW w \in Ws, NEW m \in Sockets!Message, Sockets!SendHost(m), m.ws = w, m.kind # "open", bpc[w] = "open",
             bpc'[v] \in {"idle", "accepting"} => bpc[v] \in {"idle", "accepting"},
             UNCHANGED <<opc, lsent>>, bsent'[v] = bsent[v] \/ (v = w /\ bpc'[v] = "open")
      PROVE  Opens
  <2>1. Idle
    BY <1>a, <1>d, SendHostFacts
  <2>2. Once
    <3> QED BY <1>a, <1>d, SendHostFacts
  <2> QED BY <1>a, <1>d, <2>1, <2>2
<1> USE DEF Sockets!hub, Sockets!host, Sockets!chans, Sockets!seen
<1>1. ASSUME NEW w \in Ws, Sockets!BrowserArrives(w) PROVE Opens
  BY <1>1, <1>a, <1>b DEF Sockets!BrowserArrives, Sockets!TypeOK
<1>2. ASSUME NEW w \in Ws, Sockets!BrowserJoins(w) PROVE Opens
  <2>1. /\ bpc[w] = "accepting" /\ bpc' = [bpc EXCEPT ![w] = "open"] /\ Sockets!SendHost(Sockets!Open(w))
        /\ UNCHANGED <<opc, lsent, bsent>>
    BY <1>2 DEF Sockets!BrowserJoins
  <2>2. \A i \in DOMAIN toLocal' : \/ i \in DOMAIN toLocal /\ toLocal'[i] = toLocal[i]
                                   \/ i = Len(toLocal) + 1 /\ toLocal'[i] = Sockets!Open(w)
    BY <1>a, <1>2, <2>1, MessageFacts, SendHostFacts, SocketsAssumption DEF Sockets!ConstantsAssumption
  <2>3. CASE v = w
    <3>1. opc'[v] = "none" /\ lsent'[v] = 0 /\ \A i \in DOMAIN toLocal : toLocal[i].ws # v
      BY <1>a, <2>1, <2>3
    <3>3. Once
      BY <2>2, <2>3, <3>1
    <3> QED BY <1>a, <2>1, <2>3, <3>1, <3>3 DEF Sockets!TypeOK
  <2>4. CASE v # w
    <3>1. Sockets!Open(w).ws = w
      BY DEF Sockets!Open, Sockets!Msg
    <3>2. bpc'[v] = bpc[v]
      BY <1>a, <2>1, <2>4 DEF Sockets!TypeOK
    <3>3. Once
      BY <1>a, <2>1, <2>2, <2>4, <3>1
    <3>4. Idle
      BY <1>a, <2>1, <2>2, <2>4, <3>1, <3>2
    <3> QED BY <1>a, <2>1, <3>3, <3>4
  <2> QED BY <2>3, <2>4
<1>3. ASSUME NEW w \in Ws, Sockets!BrowserSends(w) PROVE Opens
  <2>1. bsent[w] + 1 \in 0 .. Frames
    BY <1>3, <1>a, SocketsAssumption, SMTT(30) DEF Sockets!BrowserSends, Sockets!TypeOK, Sockets!ConstantsAssumption
  <2>2. Sockets!Data(w, bsent[w] + 1) \in Sockets!Message /\ Sockets!Data(w, bsent[w] + 1).ws = w /\ Sockets!Data(w, bsent[w] + 1).kind # "open"
    BY <2>1, MessageFacts
  <2>3. /\ Sockets!SendHost(Sockets!Data(w, bsent[w] + 1)) /\ bpc[w] = "open" /\ UNCHANGED <<bpc, opc, lsent>>
        /\ bsent'[v] = bsent[v] \/ (v = w /\ bpc'[v] = "open")
    BY <1>3, <1>a DEF Sockets!BrowserSends, Sockets!TypeOK
  <2> QED BY <1>d, <2>2, <2>3
<1>4. ASSUME NEW w \in Ws, Sockets!BrowserCloses(w) PROVE Opens
  BY <1>4, <1>b DEF Sockets!BrowserCloses
<1>5. ASSUME NEW w \in Ws, Sockets!BrowserLeaves(w) PROVE Opens
  <2>1. Sockets!Close(w) \in Sockets!Message /\ Sockets!Close(w).ws = w /\ Sockets!Close(w).kind # "open"
    BY MessageFacts, SocketsAssumption DEF Sockets!ConstantsAssumption
  <2>2. /\ Sockets!SendHost(Sockets!Close(w)) /\ bpc[w] = "open" /\ UNCHANGED <<opc, lsent, bsent>>
        /\ bpc'[v] \in {"idle", "accepting"} => bpc[v] \in {"idle", "accepting"}
    BY <1>5, <1>a DEF Sockets!BrowserLeaves, Sockets!TypeOK
  <2> QED BY <1>d, <2>1, <2>2
<1>6. ASSUME NEW w \in Ws, Sockets!OpenSucceeds(w) PROVE Opens
  <2>1. /\ pend[w] \in Seq(1 .. Frames) /\ Sockets!SendWaiting(w, pend[w]) /\ opc[w] = "connecting"
        /\ UNCHANGED <<bpc, toLocal, bsent, lsent>>
    BY <1>6, <1>a DEF Sockets!OpenSucceeds, Sockets!TypeOK
  <2>2. /\ opc'[w] \in {"flushing", "reading"}
        /\ v # w => opc'[v] = opc[v]
    BY <1>a, <2>1, SendWaitingFacts
  <2> QED BY <1>a, <1>c, <2>1, <2>2
<1>7. ASSUME NEW w \in Ws, Sockets!OpenFails(w) PROVE Opens
  <2>1. CASE v = w
    BY <1>7, <1>a, <1>c, <2>1 DEF Sockets!OpenFails, Sockets!TypeOK
  <2>2. CASE v # w
    BY <1>7, <1>a, <2>2 DEF Sockets!OpenFails, Sockets!TypeOK
  <2> QED BY <2>1, <2>2
<1>8. ASSUME NEW w \in Ws, Sockets!Flush(w) PROVE Opens
  <2>1. /\ flush[w] \in Seq(1 .. Frames) /\ Sockets!SendWaiting(w, flush[w]) /\ opc[w] = "flushing"
        /\ UNCHANGED <<bpc, toLocal, bsent, lsent>>
    BY <1>8, <1>a DEF Sockets!Flush, Sockets!TypeOK
  <2>2. /\ opc'[w] \in {"flushing", "reading"}
        /\ v # w => opc'[v] = opc[v]
    BY <1>a, <2>1, SendWaitingFacts
  <2> QED BY <1>a, <1>c, <2>1, <2>2
<1>9. ASSUME NEW w \in Ws, Sockets!ReaderEnds(w) PROVE Opens
  <2>1. CASE v = w
    BY <1>9, <1>a, <1>c, <2>1 DEF Sockets!ReaderEnds, Sockets!TypeOK
  <2>2. CASE v # w
    BY <1>9, <1>a, <2>2 DEF Sockets!ReaderEnds, Sockets!TypeOK
  <2> QED BY <2>1, <2>2
<1>10. ASSUME NEW w \in Ws, Sockets!LocalSends(w) PROVE Opens
  <2>1. /\ opc[w] = "reading" /\ opc' \in {opc, [opc EXCEPT ![w] = "ended"]}
        /\ lsent' = [lsent EXCEPT ![w] = @ + 1] /\ UNCHANGED <<bpc, bsent, toLocal>>
    BY <1>10 DEF Sockets!LocalSends
  <2>2. CASE v = w
    BY <1>a, <2>1, <2>2 DEF Sockets!TypeOK
  <2>3. CASE v # w
    BY <1>a, <2>1, <2>3, SMTT(30) DEF Sockets!TypeOK
  <2> QED BY <2>2, <2>3
<1>11. ASSUME NEW w \in Ws, Sockets!LocalCloses(w) PROVE Opens
  BY <1>11, <1>b DEF Sockets!LocalCloses
<1>12. ASSUME Sockets!HubReads PROVE Opens
  BY <1>12, <1>b DEF Sockets!HubReads
<1>13. ASSUME Sockets!TaskRuns PROVE Opens
  BY <1>13, <1>b DEF Sockets!TaskRuns
<1>14. ASSUME Sockets!HostReads PROVE Opens
  <2> DEFINE m == Head(toLocal)
  <2>1. /\ m = toLocal[1] /\ 1 \in DOMAIN toLocal /\ m.ws \in Ws /\ UNCHANGED <<bpc, bsent, lsent>>
        /\ m.kind \in {"open", "data", "close"}
    BY <1>14, <1>a, HostReadsCases DEF Sockets!Message
  <2>2. /\ \A i \in DOMAIN toLocal' : i \in Nat /\ i + 1 \in DOMAIN toLocal /\ i + 1 # 1 /\ toLocal'[i] = toLocal[i + 1]
    BY <1>14, <1>a, HostReadsCases, QueueFacts
  <2>3. m.kind # "open" \/ m.ws # v => opc'[v] = opc[v]
    BY <1>14, <1>a, <2>1, HostReadsCases DEF Sockets!HandleData, Sockets!HandleClose, Sockets!TypeOK
  <2>4. CASE m.kind # "open" \/ m.ws # v
    <3>1. Idle
      BY <1>a, <2>1, <2>2, <2>3, <2>4
    <3>2. Once
      BY <1>a, <2>2, <2>3, <2>4
    <3> QED BY <1>a, <2>1, <2>3, <2>4, <3>1, <3>2
  <2>5. CASE m.kind = "open" /\ m.ws = v
    <3>1. bpc[v] \notin {"idle", "accepting"}
      BY <1>a, <2>1, <2>5
    <3>3. opc[v] = "none" /\ \A i \in DOMAIN toLocal' : ~(toLocal'[i].ws = v /\ toLocal'[i].kind = "open")
      BY <1>a, <2>1, <2>2, <2>5
    <3> QED BY <1>a, <2>1, <3>1, <3>3
  <2> QED BY <2>4, <2>5
<1>15. ASSUME Sockets!TunnelDrops PROVE Opens
  BY <1>15, <1>b DEF Sockets!TunnelDrops
<1>16. ASSUME Sockets!TunnelEnds PROVE Opens
  BY <1>16, <1>b DEF Sockets!TunnelEnds
<1>17. ASSUME Sockets!TunnelForgets PROVE Opens
  BY <1>17, <1>b DEF Sockets!TunnelForgets
<1>18. ASSUME UNCHANGED Sockets!vars PROVE Opens
  BY <1>18, <1>b DEF Sockets!vars
<1> QED
  BY <1>1, <1>2, <1>3, <1>4, <1>5, <1>6, <1>7, <1>8, <1>9, <1>10, <1>11, <1>12, <1>13, <1>14, <1>15,
     <1>16, <1>17, <1>18, SocketsCases

\* The frames of socket v are in order.
FramesOrdered(v) ==
  /\ Sockets!Increasing(bgot[v])
  /\ \A i \in DOMAIN bgot[v] : bgot[v][i] <= lsent[v]
  /\ \A i \in Sockets!FramesIn(ready, v) :
       /\ ready[i].n \in 1 .. lsent[v]
       /\ \A j \in DOMAIN bgot[v] : bgot[v][j] < ready[i].n
       /\ \A j \in Sockets!FramesIn(ready, v) : i < j => ready[i].n < ready[j].n
  /\ \A i \in Sockets!FramesIn(toBrowser, v) :
       /\ toBrowser[i].n \in 1 .. lsent[v]
       /\ \A j \in DOMAIN bgot[v] : bgot[v][j] < toBrowser[i].n
       /\ \A j \in Sockets!FramesIn(ready, v) : ready[j].n < toBrowser[i].n
       /\ \A j \in Sockets!FramesIn(toBrowser, v) : i < j => toBrowser[i].n < toBrowser[j].n

\* What a send leaves on the tunnel to the hub.
LEMMA SendHubFacts ==
  ASSUME Sockets!TypeOK, NEW m \in Sockets!Message, Sockets!SendHub(m)
  PROVE  \A i \in DOMAIN toBrowser' :
           \/ i \in DOMAIN toBrowser /\ toBrowser'[i] = toBrowser[i]
           \/ i = Len(toBrowser) + 1 /\ toBrowser'[i] = m /\ \A j \in DOMAIN toBrowser : j < i
<1>1. toBrowser \in Seq(Sockets!Message) /\ Len(toBrowser) \in Nat
  BY DEF Sockets!TypeOK
<1> QED BY <1>1, QueueFacts DEF Sockets!SendHub

\* Every step keeps the frames towards the browser in order: each queue loses
\* its oldest to the next, and what is new comes last.
LEMMA FramesInOrderStep == Sockets!SocketsInv /\ [Sockets!Next]_Sockets!vars => Sockets!FramesInOrder'
<1> SUFFICES ASSUME Sockets!SocketsInv, [Sockets!Next]_Sockets!vars, NEW v \in Ws PROVE FramesOrdered(v)'
  BY DEF Sockets!FramesInOrder, FramesOrdered
<1>a. Sockets!TypeOK /\ FramesOrdered(v)
  BY DEF Sockets!SocketsInv, Sockets!FramesInOrder, FramesOrdered
<1>b. ASSUME UNCHANGED <<ready, toBrowser, lsent, bgot>> PROVE FramesOrdered(v)'
  BY <1>a, <1>b DEF FramesOrdered, Sockets!FramesIn, Sockets!Increasing
<1>c. ASSUME NEW m \in Sockets!Message, m.kind # "data", Sockets!SendHub(m), UNCHANGED <<ready, lsent, bgot>>
      PROVE  FramesOrdered(v)'
  <2>1. \A i \in Sockets!FramesIn(toBrowser', v) : i \in Sockets!FramesIn(toBrowser, v) /\ toBrowser'[i] = toBrowser[i]
    BY <1>a, <1>c, SendHubFacts DEF Sockets!FramesIn
  <2> QED BY <1>a, <1>c, <2>1 DEF FramesOrdered, Sockets!FramesIn, Sockets!Increasing
<1>d. \A w \in Ws : Sockets!Close(w) \in Sockets!Message /\ Sockets!Close(w).kind # "data"
  BY MessageFacts, SocketsAssumption DEF Sockets!ConstantsAssumption
<1>e. /\ \A i \in DOMAIN ready : i \in Nat /\ ready[i] \in Sockets!Message
      /\ \A i \in DOMAIN toBrowser : i \in Nat /\ toBrowser[i] \in Sockets!Message
      /\ \A i \in DOMAIN bgot[v] : i \in Nat /\ bgot[v][i] \in 1 .. Frames
      /\ lsent[v] \in 0 .. Frames /\ \A m \in Sockets!Message : m.n \in 0 .. Frames
  <2>1. ready \in Seq(Sockets!Message) /\ toBrowser \in Seq(Sockets!Message) /\ bgot[v] \in Seq(1 .. Frames)
    BY <1>a DEF Sockets!TypeOK
  <2>2. \A i \in DOMAIN ready : i \in Nat /\ ready[i] \in Sockets!Message
    BY <2>1, QueueFacts
  <2>4. \A i \in DOMAIN toBrowser : i \in Nat /\ toBrowser[i] \in Sockets!Message
    BY <2>1, QueueFacts
  <2>5. \A i \in DOMAIN bgot[v] : i \in Nat /\ bgot[v][i] \in 1 .. Frames
    BY <2>1, SeqElements, Zenon
  <2>3. lsent[v] \in 0 .. Frames /\ \A m \in Sockets!Message : m.n \in 0 .. Frames
    BY <1>a DEF Sockets!TypeOK, Sockets!Message
  <2> QED BY <2>2, <2>3, <2>4, <2>5
<1> USE DEF Sockets!hub, Sockets!host, Sockets!chans, Sockets!seen
<1>1. ASSUME NEW w \in Ws, Sockets!BrowserArrives(w) PROVE FramesOrdered(v)'
  BY <1>1, <1>b DEF Sockets!BrowserArrives
<1>2. ASSUME NEW w \in Ws, Sockets!BrowserJoins(w) PROVE FramesOrdered(v)'
  BY <1>2, <1>b DEF Sockets!BrowserJoins
<1>3. ASSUME NEW w \in Ws, Sockets!BrowserSends(w) PROVE FramesOrdered(v)'
  BY <1>3, <1>b DEF Sockets!BrowserSends
<1>4. ASSUME NEW w \in Ws, Sockets!BrowserCloses(w) PROVE FramesOrdered(v)'
  BY <1>4, <1>b DEF Sockets!BrowserCloses
<1>5. ASSUME NEW w \in Ws, Sockets!BrowserLeaves(w) PROVE FramesOrdered(v)'
  BY <1>5, <1>b DEF Sockets!BrowserLeaves
<1>6. ASSUME NEW w \in Ws, Sockets!OpenSucceeds(w) PROVE FramesOrdered(v)'
  BY <1>6, <1>b DEF Sockets!OpenSucceeds
<1>7. ASSUME NEW w \in Ws, Sockets!OpenFails(w) PROVE FramesOrdered(v)'
  BY <1>7, <1>c, <1>d DEF Sockets!OpenFails
<1>8. ASSUME NEW w \in Ws, Sockets!Flush(w) PROVE FramesOrdered(v)'
  BY <1>8, <1>b DEF Sockets!Flush
<1>9. ASSUME NEW w \in Ws, Sockets!ReaderEnds(w) PROVE FramesOrdered(v)'
  BY <1>9, <1>c, <1>d DEF Sockets!ReaderEnds
<1>10. ASSUME NEW w \in Ws, Sockets!LocalSends(w) PROVE FramesOrdered(v)'
  <2> DEFINE m == Sockets!Data(w, lsent[w] + 1)
  <2>1. lsent[w] + 1 \in 0 .. Frames
    BY <1>10, <1>a, SocketsAssumption, SMTT(30) DEF Sockets!ConstantsAssumption, Sockets!LocalSends, Sockets!TypeOK
  <2>2. m \in Sockets!Message /\ m.ws = w /\ m.n = lsent[w] + 1
    BY <2>1, MessageFacts
  <2>3. Sockets!SendHub(m) /\ lsent' = [lsent EXCEPT ![w] = @ + 1] /\ UNCHANGED <<ready, bgot>>
    BY <1>10 DEF Sockets!LocalSends
  <2>4. \A i \in DOMAIN toBrowser' : \/ i \in DOMAIN toBrowser /\ toBrowser'[i] = toBrowser[i]
                                     \/ toBrowser'[i] = m /\ \A j \in DOMAIN toBrowser : j < i
    BY <1>a, <2>2, <2>3, SendHubFacts
  <2>5. \A i, j \in DOMAIN toBrowser' : toBrowser'[i] = m /\ i \notin DOMAIN toBrowser /\ toBrowser'[j] = m /\ j \notin DOMAIN toBrowser => i = j
    BY <1>a, <2>2, <2>3, SendHubFacts
  <2> HIDE DEF m
  <2>6. CASE v = w
    <3>1. lsent'[v] = lsent[v] + 1
      BY <1>a, <2>3, <2>6 DEF Sockets!TypeOK
    <3>2. \A i \in Sockets!FramesIn(toBrowser', v) : \/ i \in Sockets!FramesIn(toBrowser, v) /\ toBrowser'[i] = toBrowser[i]
                                                     \/ /\ toBrowser'[i].n = lsent[v] + 1 /\ i \notin DOMAIN toBrowser
                                                        /\ \A j \in DOMAIN toBrowser : j < i
      BY <2>2, <2>4, <2>6, <1>e DEF Sockets!FramesIn
    <3>3. \A i, j \in Sockets!FramesIn(toBrowser', v) : i \notin DOMAIN toBrowser /\ j \notin DOMAIN toBrowser => i = j
      BY <2>4, <2>5 DEF Sockets!FramesIn
    <3>4. \A i, j \in Sockets!FramesIn(toBrowser', v) : i < j => toBrowser'[i].n < toBrowser'[j].n
      <4> SUFFICES ASSUME NEW i \in Sockets!FramesIn(toBrowser', v), NEW j \in Sockets!FramesIn(toBrowser', v), i < j
                   PROVE  toBrowser'[i].n < toBrowser'[j].n
        OBVIOUS
      <4>1. i \in Int /\ j \in Int
        <5>1. toBrowser' \in Seq(Sockets!Message)
          BY <1>a, <2>2, <2>3, SendTypes
        <5> QED BY <5>1, QueueFacts DEF Sockets!FramesIn
      <4>2. CASE i \in Sockets!FramesIn(toBrowser, v) /\ j \in Sockets!FramesIn(toBrowser, v) /\ toBrowser'[i] = toBrowser[i] /\ toBrowser'[j] = toBrowser[j]
        BY <1>a, <4>2 DEF FramesOrdered
      <4>3. CASE i \in Sockets!FramesIn(toBrowser, v) /\ toBrowser'[i] = toBrowser[i] /\ toBrowser'[j].n = lsent[v] + 1
        <5>1. toBrowser[i].n \in 1 .. lsent[v] /\ lsent[v] \in Nat
          BY <1>a, <1>e, <4>3 DEF FramesOrdered
        <5> QED BY <4>3, <5>1
      <4>4. CASE i \notin DOMAIN toBrowser /\ \A k \in DOMAIN toBrowser : k < i
        <5>1. j \notin DOMAIN toBrowser
          BY <4>1, <4>4
        <5>2. j \notin Sockets!FramesIn(toBrowser, v)
          BY <5>1 DEF Sockets!FramesIn
        <5> QED BY <3>2, <3>3, <4>1, <4>4, <5>1, <5>2
      <4> QED BY <3>2, <4>2, <4>3, <4>4
    <3>5. \A i \in Sockets!FramesIn(toBrowser', v) : toBrowser'[i].n \in 1 .. lsent'[v]
      BY <1>a, <1>e, <3>1, <3>2 DEF FramesOrdered
    <3>6. \A i \in Sockets!FramesIn(toBrowser', v) : /\ \A j \in DOMAIN bgot[v] : bgot[v][j] < toBrowser'[i].n
                                        /\ \A j \in Sockets!FramesIn(ready, v) : ready[j].n < toBrowser'[i].n
      BY <1>a, <1>e, <3>2 DEF FramesOrdered, Sockets!FramesIn
    <3> QED BY <1>a, <1>e, <2>3, <3>1, <3>4, <3>5, <3>6 DEF FramesOrdered, Sockets!FramesIn, Sockets!Increasing
  <2>7. CASE v # w
    <3>1. \A i \in Sockets!FramesIn(toBrowser', v) : i \in Sockets!FramesIn(toBrowser, v) /\ toBrowser'[i] = toBrowser[i]
      BY <2>2, <2>4, <2>7 DEF Sockets!FramesIn
    <3>2. lsent'[v] = lsent[v]
      BY <1>a, <2>3, <2>7 DEF Sockets!TypeOK
    <3> QED BY <1>a, <2>3, <3>1, <3>2 DEF FramesOrdered, Sockets!FramesIn, Sockets!Increasing
  <2> QED BY <2>6, <2>7
<1>11. ASSUME NEW w \in Ws, Sockets!LocalCloses(w) PROVE FramesOrdered(v)'
  BY <1>11, <1>b DEF Sockets!LocalCloses
<1>12. ASSUME Sockets!HubReads PROVE FramesOrdered(v)'
  <2> DEFINE m == Head(toBrowser)
  <2>1. /\ m = toBrowser[1] /\ 1 \in DOMAIN toBrowser /\ toBrowser # <<>> /\ toBrowser \in Seq(Sockets!Message) /\ m \in Sockets!Message
        /\ toBrowser' = Tail(toBrowser) /\ ready \in Seq(Sockets!Message)
        /\ ready' = Append(ready, m) \/ (m.kind # "data" /\ ready' = ready)
        /\ UNCHANGED <<lsent, bgot>>
    BY <1>12, <1>a, HubReadsCases DEF Sockets!HubReads, Sockets!TypeOK
  <2>2. \A i \in DOMAIN toBrowser' : i \in Nat /\ i + 1 \in DOMAIN toBrowser /\ 1 < i + 1 /\ toBrowser'[i] = toBrowser[i + 1]
    BY <2>1, QueueFacts
  <2>3. \A i \in DOMAIN ready' : \/ i \in DOMAIN ready /\ ready'[i] = ready[i]
                                 \/ ready'[i] = m /\ i = Len(ready) + 1 /\ \A j \in DOMAIN ready : j < i
    BY <2>1, QueueFacts
  <2>4. \A i \in Sockets!FramesIn(toBrowser', v) : i + 1 \in Sockets!FramesIn(toBrowser, v) /\ 1 < i + 1 /\ toBrowser'[i] = toBrowser[i + 1] /\ i \in Nat
    BY <2>2 DEF Sockets!FramesIn
  <2>5. \A i \in Sockets!FramesIn(ready', v) : \/ i \in Sockets!FramesIn(ready, v) /\ ready'[i] = ready[i]
                                               \/ /\ 1 \in Sockets!FramesIn(toBrowser, v) /\ ready'[i] = toBrowser[1] /\ i = Len(ready) + 1
                                                  /\ \A j \in DOMAIN ready : j < i
    BY <2>1, <2>3 DEF Sockets!FramesIn
  <2>6. \A i \in Sockets!FramesIn(ready', v) :
          /\ ready'[i].n \in 1 .. lsent[v]
          /\ \A j \in DOMAIN bgot[v] : bgot[v][j] < ready'[i].n
    BY <1>a, <2>5 DEF FramesOrdered
  <2>7. \A i, j \in Sockets!FramesIn(ready', v) : i < j => ready'[i].n < ready'[j].n
    BY <1>a, <1>e, <2>1, <2>5 DEF FramesOrdered, Sockets!FramesIn
  <2>8. \A i \in Sockets!FramesIn(toBrowser', v) :
          /\ toBrowser'[i].n \in 1 .. lsent[v]
          /\ \A j \in DOMAIN bgot[v] : bgot[v][j] < toBrowser'[i].n
          /\ \A j \in Sockets!FramesIn(ready', v) : ready'[j].n < toBrowser'[i].n
          /\ \A j \in Sockets!FramesIn(toBrowser', v) : i < j => toBrowser'[i].n < toBrowser'[j].n
    BY <1>a, <2>4, <2>5 DEF FramesOrdered
  <2> QED BY <1>a, <2>1, <2>6, <2>7, <2>8 DEF FramesOrdered
<1>13. ASSUME Sockets!TaskRuns PROVE FramesOrdered(v)'
  <2> DEFINE m == Head(ready)
  <2>1. /\ ready # <<>> /\ ready \in Seq(Sockets!Message) /\ ready' = Tail(ready) /\ UNCHANGED <<toBrowser, lsent>>
        /\ m.kind = "close" => bgot' = bgot
        /\ bgot' = bgot \/ bgot' = [bgot EXCEPT ![m.ws] = Append(@, m.n)]
    BY <1>13, <1>a DEF Sockets!TaskRuns, Sockets!TypeOK
  <2>2. /\ m = ready[1] /\ 1 \in DOMAIN ready
        /\ \A i \in DOMAIN ready' : i \in Nat /\ i + 1 \in DOMAIN ready /\ 1 < i + 1 /\ ready'[i] = ready[i + 1]
    BY <2>1, QueueFacts
  <2>3. \A i \in Sockets!FramesIn(ready', v) : i + 1 \in Sockets!FramesIn(ready, v) /\ 1 < i + 1 /\ ready'[i] = ready[i + 1] /\ i \in Nat
    BY <2>2 DEF Sockets!FramesIn
  <2>4. /\ \A i \in Sockets!FramesIn(ready', v) :
             /\ ready'[i].n \in 1 .. lsent[v]
             /\ \A j \in DOMAIN bgot[v] : bgot[v][j] < ready'[i].n
             /\ \A j \in Sockets!FramesIn(ready', v) : i < j => ready'[i].n < ready'[j].n
        /\ \A i \in Sockets!FramesIn(toBrowser, v) : \A j \in Sockets!FramesIn(ready', v) : ready'[j].n < toBrowser[i].n
    BY <1>a, <2>3 DEF FramesOrdered
  <2>5. CASE bgot'[v] = bgot[v]
    BY <1>a, <2>1, <2>4, <2>5 DEF FramesOrdered
  <2>6. CASE bgot'[v] # bgot[v]
    <3>1. /\ m.kind = "data" /\ m.ws = v /\ bgot'[v] = Append(bgot[v], m.n) /\ bgot[v] \in Seq(1 .. Frames)
          /\ m.n \in 0 .. Frames
      <4>1. m.kind \in {"data", "close"} /\ m.n \in 0 .. Frames
        BY <1>a, <1>e, <2>2, SMTT(30) DEF Sockets!TypeOK, Sockets!Message
      <4>2. m.ws = v /\ bgot'[v] = Append(bgot[v], m.n) /\ bgot[v] \in Seq(1 .. Frames)
        <5>1. bgot \in [Ws -> Seq(1 .. Frames)] /\ bgot' = [bgot EXCEPT ![m.ws] = Append(@, m.n)]
          BY <1>a, <2>1, <2>6 DEF Sockets!TypeOK
        <5> QED BY <2>6, <5>1
      <4> QED BY <2>1, <2>6, <4>1, <4>2
    <3>2. 1 \in Sockets!FramesIn(ready, v) /\ m.n = ready[1].n /\ m.n \in 1 .. lsent[v]
      BY <1>a, <2>2, <3>1 DEF Sockets!FramesIn, FramesOrdered
    <3>3. \A i \in DOMAIN bgot'[v] : \/ i \in DOMAIN bgot[v] /\ bgot'[v][i] = bgot[v][i]
                                     \/ bgot'[v][i] = m.n /\ i = Len(bgot[v]) + 1 /\ \A j \in DOMAIN bgot[v] : j < i
      BY <3>1
    <3>4. \A j \in DOMAIN bgot[v] : bgot[v][j] < m.n /\ bgot[v][j] \in Nat /\ j \in Nat
      BY <1>a, <1>e, <3>2 DEF FramesOrdered
    <3>5. Sockets!Increasing(bgot[v])' /\ \A i \in DOMAIN bgot'[v] : bgot'[v][i] <= lsent[v]
      <4>1. Len(bgot[v]) \in Nat /\ m.n \in Nat /\ lsent[v] \in Nat /\ m.n <= lsent[v]
        BY <1>e, <3>1, <3>2
      <4> QED BY <1>a, <3>3, <3>4, <4>1 DEF FramesOrdered, Sockets!Increasing
    <3>6. \A i \in Sockets!FramesIn(ready', v) : \A j \in DOMAIN bgot'[v] : bgot'[v][j] < ready'[i].n
      BY <1>a, <2>3, <2>4, <3>2, <3>3 DEF FramesOrdered
    <3>7. \A i \in Sockets!FramesIn(toBrowser, v) : \A j \in DOMAIN bgot'[v] : bgot'[v][j] < toBrowser[i].n
      BY <1>a, <3>2, <3>3 DEF FramesOrdered
    <3> QED BY <1>a, <2>1, <2>4, <3>5, <3>6, <3>7 DEF FramesOrdered
  <2> QED BY <2>5, <2>6
<1>14. ASSUME Sockets!HostReads PROVE FramesOrdered(v)'
  BY <1>14, <1>b DEF Sockets!HostReads
<1>15. ASSUME Sockets!TunnelDrops PROVE FramesOrdered(v)'
  BY <1>15, <1>b DEF Sockets!TunnelDrops
<1>16. ASSUME Sockets!TunnelEnds PROVE FramesOrdered(v)'
  BY <1>16, <1>b DEF Sockets!TunnelEnds
<1>17. ASSUME Sockets!TunnelForgets PROVE FramesOrdered(v)'
  BY <1>17, <1>b DEF Sockets!TunnelForgets
<1>18. ASSUME UNCHANGED Sockets!vars PROVE FramesOrdered(v)'
  BY <1>18, <1>b DEF Sockets!vars
<1> QED
  BY <1>1, <1>2, <1>3, <1>4, <1>5, <1>6, <1>7, <1>8, <1>9, <1>10, <1>11, <1>12, <1>13, <1>14, <1>15,
     <1>16, <1>17, <1>18, SocketsCases

\* What is missing at the browser of socket v is on its way.
FramesCounted(v) ==
  v \in clients /\ bsock[v] = "open" /\ tunnel = "up"
    => Len(bgot[v]) + Cardinality(Sockets!FramesIn(ready, v)) + Cardinality(Sockets!FramesIn(toBrowser, v)) = lsent[v]

\* A step neither loses nor doubles a frame of a socket that is open on both
\* sides: whatever leaves a queue enters the next.
LEMMA NoneSkippedStep == Sockets!SocketsInv /\ [Sockets!Next]_Sockets!vars => Sockets!NoneSkipped'
<1> SUFFICES ASSUME Sockets!SocketsInv, [Sockets!Next]_Sockets!vars, NEW v \in Ws PROVE FramesCounted(v)'
  BY SameCount DEF Sockets!NoneSkipped, FramesCounted
<1>a. Sockets!TypeOK /\ FramesCounted(v)
  BY SameCount DEF Sockets!SocketsInv, Sockets!NoneSkipped, FramesCounted
<1>q. ready \in Seq(Sockets!Message) /\ toBrowser \in Seq(Sockets!Message) /\ bgot[v] \in Seq(1 .. Frames)
  BY <1>a DEF Sockets!TypeOK
<1>n. /\ Cardinality(Sockets!FramesIn(ready, v)) \in Nat /\ Cardinality(Sockets!FramesIn(toBrowser, v)) \in Nat
      /\ Len(bgot[v]) \in Nat /\ lsent[v] \in Nat
  <2>1. Sockets!Close(v) \in Sockets!Message
    BY MessageFacts, SocketsAssumption DEF Sockets!ConstantsAssumption
  <2>2. Cardinality(Sockets!FramesIn(ready, v)) \in Nat
    BY <1>q, <2>1, FramesAppend
  <2>3. Cardinality(Sockets!FramesIn(toBrowser, v)) \in Nat
    BY <1>q, <2>1, FramesAppend
  <2>4. Len(bgot[v]) \in Nat /\ lsent[v] \in Nat
    BY <1>a, <1>q DEF Sockets!TypeOK
  <2> QED BY <2>2, <2>3, <2>4
<1>b. ASSUME UNCHANGED <<ready, toBrowser, lsent, bgot>>,
             tunnel' = "up" => tunnel = "up",
             v \in clients' /\ bsock'[v] = "open" /\ tunnel' = "up" => v \in clients /\ bsock[v] = "open"
      PROVE  FramesCounted(v)'
  BY <1>a, <1>b DEF FramesCounted
<1>c. ASSUME NEW m \in Sockets!Message, m.kind # "data", Sockets!SendHub(m),
             UNCHANGED <<tunnel, clients, bsock, ready, lsent, bgot>>
      PROVE  FramesCounted(v)'
  <2>1. CASE Sockets!HostUp
    <3>1. toBrowser' = Append(toBrowser, m)
      BY <1>c, <2>1 DEF Sockets!SendHub
    <3>2. Cardinality(Sockets!FramesIn(Append(toBrowser, m), v)) = Cardinality(Sockets!FramesIn(toBrowser, v))
      <4>1. Cardinality(Sockets!FramesIn(Append(toBrowser, m), v)) = Cardinality(Sockets!FramesIn(toBrowser, v)) + 0
        BY <1>q, <1>c, FramesAppend
      <4> QED BY <1>n, <4>1
    <3> QED BY <1>a, <1>c, <3>1, <3>2 DEF FramesCounted
  <2>2. CASE ~Sockets!HostUp
    BY <1>c, <2>2 DEF FramesCounted, Sockets!HostUp
  <2> QED BY <2>1, <2>2
<1>d. \A w \in Ws : Sockets!Close(w) \in Sockets!Message /\ Sockets!Close(w).kind # "data"
  BY MessageFacts, SocketsAssumption DEF Sockets!ConstantsAssumption
<1> USE DEF Sockets!hub, Sockets!host, Sockets!chans, Sockets!seen
<1>1. ASSUME NEW w \in Ws, Sockets!BrowserArrives(w) PROVE FramesCounted(v)'
  BY <1>1, <1>b DEF Sockets!BrowserArrives
<1>2. ASSUME NEW w \in Ws, Sockets!BrowserJoins(w) PROVE FramesCounted(v)'
  <2>1. clients' = clients \cup {w} /\ bpc[w] = "accepting" /\ UNCHANGED <<tunnel, bsock, ready, toBrowser, lsent, bgot>>
    BY <1>2 DEF Sockets!BrowserJoins
  <2>2. CASE v # w
    BY <2>1, <2>2, <1>b
  <2>3. CASE v = w
    <3>1. lsent[v] = 0
      BY <2>1, <2>3 DEF Sockets!SocketsInv, Sockets!OpenedOnce
    <3>2. FramesOrdered(v)
      BY DEF Sockets!SocketsInv, Sockets!FramesInOrder, FramesOrdered
    <3>3. Sockets!FramesIn(ready, v) = {} /\ Sockets!FramesIn(toBrowser, v) = {}
      BY <3>1, <3>2 DEF FramesOrdered
    <3>4. Len(bgot[v]) = 0
      <4>1. \A i \in DOMAIN bgot[v] : FALSE
        <5>1. \A i \in DOMAIN bgot[v] : bgot[v][i] \in 1 .. Frames
          BY <1>q, SeqElements, Zenon
        <5>2. \A i \in DOMAIN bgot[v] : bgot[v][i] <= 0
          BY <3>1, <3>2 DEF FramesOrdered
        <5> QED BY <5>1, <5>2
      <4>2. Len(bgot[v]) \in Nat /\ DOMAIN bgot[v] = 1 .. Len(bgot[v])
        BY <1>q
      <4> QED BY <4>1, <4>2
    <3>5. Cardinality(Sockets!FramesIn(ready, v)) = 0 /\ Cardinality(Sockets!FramesIn(toBrowser, v)) = 0
      BY <3>3, FS_EmptySet
    <3> QED BY <2>1, <3>1, <3>4, <3>5 DEF FramesCounted
  <2> QED BY <2>2, <2>3
<1>3. ASSUME NEW w \in Ws, Sockets!BrowserSends(w) PROVE FramesCounted(v)'
  BY <1>3, <1>b DEF Sockets!BrowserSends
<1>4. ASSUME NEW w \in Ws, Sockets!BrowserCloses(w) PROVE FramesCounted(v)'
  BY <1>4, <1>a, <1>b DEF Sockets!BrowserCloses, Sockets!TypeOK
<1>5. ASSUME NEW w \in Ws, Sockets!BrowserLeaves(w) PROVE FramesCounted(v)'
  BY <1>5, <1>b DEF Sockets!BrowserLeaves
<1>6. ASSUME NEW w \in Ws, Sockets!OpenSucceeds(w) PROVE FramesCounted(v)'
  BY <1>6, <1>b DEF Sockets!OpenSucceeds
<1>7. ASSUME NEW w \in Ws, Sockets!OpenFails(w) PROVE FramesCounted(v)'
  BY <1>7, <1>c, <1>d DEF Sockets!OpenFails
<1>8. ASSUME NEW w \in Ws, Sockets!Flush(w) PROVE FramesCounted(v)'
  BY <1>8, <1>b DEF Sockets!Flush
<1>9. ASSUME NEW w \in Ws, Sockets!ReaderEnds(w) PROVE FramesCounted(v)'
  BY <1>9, <1>c, <1>d DEF Sockets!ReaderEnds
<1>10. ASSUME NEW w \in Ws, Sockets!LocalSends(w) PROVE FramesCounted(v)'
  <2> DEFINE m == Sockets!Data(w, lsent[w] + 1)
  <2>1. lsent[w] + 1 \in 0 .. Frames
    BY <1>10, <1>a, SocketsAssumption, SMTT(30) DEF Sockets!ConstantsAssumption, Sockets!LocalSends, Sockets!TypeOK
  <2>2. m \in Sockets!Message /\ m.ws = w /\ m.kind = "data"
    BY <2>1, MessageFacts
  <2>3. Sockets!SendHub(m) /\ lsent' = [lsent EXCEPT ![w] = @ + 1] /\ UNCHANGED <<tunnel, clients, bsock, ready, bgot>>
    BY <1>10 DEF Sockets!LocalSends
  <2> HIDE DEF m
  <2>4. CASE ~Sockets!HostUp
    BY <2>3, <2>4 DEF FramesCounted, Sockets!HostUp
  <2>5. CASE Sockets!HostUp
    <3>1. toBrowser' = Append(toBrowser, m)
      BY <2>3, <2>5 DEF Sockets!SendHub
    <3>2. Cardinality(Sockets!FramesIn(Append(toBrowser, m), v)) = Cardinality(Sockets!FramesIn(toBrowser, v)) + (IF w = v THEN 1 ELSE 0)
      BY <1>q, <2>2, FramesAppend
    <3>3. lsent'[v] = lsent[v] + (IF w = v THEN 1 ELSE 0)
      <4>1. lsent \in [Ws -> 0 .. Frames]
        BY <1>a DEF Sockets!TypeOK
      <4>2. CASE w = v
        BY <2>3, <4>1, <4>2
      <4>3. CASE w # v
        BY <1>n, <2>3, <4>1, <4>3
      <4> QED BY <4>2, <4>3
    <3>4. CASE ~(v \in clients /\ bsock[v] = "open" /\ tunnel = "up")
      BY <2>3, <3>4 DEF FramesCounted
    <3>5. CASE v \in clients /\ bsock[v] = "open" /\ tunnel = "up"
      <4>1. Len(bgot[v]) + Cardinality(Sockets!FramesIn(ready, v)) + Cardinality(Sockets!FramesIn(toBrowser, v)) = lsent[v]
        BY <1>a, <3>5 DEF FramesCounted
      <4>2. Len(bgot'[v]) + Cardinality(Sockets!FramesIn(ready', v)) + Cardinality(Sockets!FramesIn(toBrowser', v)) = lsent'[v]
        BY <1>n, <2>3, <3>1, <3>2, <3>3, <4>1, Arithmetic
      <4> QED BY <4>2 DEF FramesCounted
    <3> QED BY <3>4, <3>5
  <2> QED BY <2>4, <2>5
<1>11. ASSUME NEW w \in Ws, Sockets!LocalCloses(w) PROVE FramesCounted(v)'
  BY <1>11, <1>b DEF Sockets!LocalCloses
<1>12. ASSUME Sockets!HubReads PROVE FramesCounted(v)'
  <2> DEFINE m == Head(toBrowser)
  <2>1. /\ toBrowser # <<>> /\ m \in Sockets!Message /\ toBrowser' = Tail(toBrowser) /\ clients' \subseteq clients
        /\ \/ ready' = Append(ready, m)
           \/ m.kind # "data" /\ ready' = ready
        /\ UNCHANGED <<tunnel, bsock, lsent, bgot>>
    BY <1>12, <1>a, <1>q, HubReadsCases DEF Sockets!HubReads, Sockets!TypeOK
  <2>2. /\ Cardinality(Sockets!FramesIn(toBrowser', v)) \in Nat
        /\ Cardinality(Sockets!FramesIn(toBrowser, v)) =
             Cardinality(Sockets!FramesIn(toBrowser', v)) + (IF m.ws = v /\ m.kind = "data" THEN 1 ELSE 0)
    BY <1>q, <2>1, FramesTail
  <2>3. Cardinality(Sockets!FramesIn(Append(ready, m), v)) =
          Cardinality(Sockets!FramesIn(ready, v)) + (IF m.ws = v /\ m.kind = "data" THEN 1 ELSE 0)
    BY <1>q, <2>1, FramesAppend
  <2> HIDE DEF m
  <2>4. Cardinality(Sockets!FramesIn(ready', v)) + Cardinality(Sockets!FramesIn(toBrowser', v)) =
          Cardinality(Sockets!FramesIn(ready, v)) + Cardinality(Sockets!FramesIn(toBrowser, v))
    <3>1. CASE ready' = Append(ready, m)
      BY <1>n, <2>2, <2>3, <3>1
    <3>2. CASE m.kind # "data" /\ ready' = ready
      BY <1>n, <2>2, <3>2
    <3> QED BY <2>1, <3>1, <3>2
  <2>5. Cardinality(Sockets!FramesIn(ready', v)) \in Nat
    <3>1. CASE ready' = Append(ready, m)
      <4> DEFINE N == Cardinality(Sockets!FramesIn(ready, v))
      <4>1. N + (IF m.ws = v /\ m.kind = "data" THEN 1 ELSE 0) \in Nat
        BY <1>n
      <4> QED BY <2>3, <3>1, <4>1
    <3>2. CASE ready' = ready
      BY <1>n, <3>2
    <3> QED BY <2>1, <3>1, <3>2
  <2>6. CASE v \in clients /\ bsock[v] = "open" /\ tunnel = "up"
    <3>1. Len(bgot[v]) + Cardinality(Sockets!FramesIn(ready, v)) + Cardinality(Sockets!FramesIn(toBrowser, v)) = lsent[v]
      BY <1>a, <2>6 DEF FramesCounted
    <3>2. Len(bgot[v]) + Cardinality(Sockets!FramesIn(ready', v)) + Cardinality(Sockets!FramesIn(toBrowser', v)) = lsent[v]
      <4> DEFINE e == Cardinality(Sockets!FramesIn(ready', v))
                 f == Cardinality(Sockets!FramesIn(toBrowser', v))
      <4>1. e \in Nat /\ f \in Nat
        BY <2>2, <2>5
      <4>2. e + f = Cardinality(Sockets!FramesIn(ready, v)) + Cardinality(Sockets!FramesIn(toBrowser, v))
        BY <2>4
      <4> HIDE DEF e, f
      <4>3. Len(bgot[v]) + e + f = lsent[v]
        BY <1>n, <3>1, <4>1, <4>2, Arithmetic
      <4> QED BY <4>3 DEF e, f
    <3> QED BY <2>1, <3>2 DEF FramesCounted
  <2> QED BY <2>1, <2>6 DEF FramesCounted
<1>13. ASSUME Sockets!TaskRuns PROVE FramesCounted(v)'
  <2> DEFINE m == Head(ready)
  <2>1. /\ ready # <<>> /\ ready' = Tail(ready) /\ UNCHANGED <<tunnel, clients, toBrowser, lsent>>
        /\ m \in Sockets!Message /\ m.kind \in {"data", "close"}
    <3>1. /\ ready # <<>> /\ ready' = Tail(ready) /\ UNCHANGED <<tunnel, clients, toBrowser, lsent>>
      BY <1>13 DEF Sockets!TaskRuns
    <3>2. m = ready[1] /\ 1 \in DOMAIN ready /\ m \in Sockets!Message
      BY <1>q, <3>1, QueueFacts
    <3>3. m.kind # "open"
      BY <1>a, <3>2 DEF Sockets!TypeOK
    <3> QED BY <3>1, <3>2, <3>3 DEF Sockets!Message
  <2>2. /\ Cardinality(Sockets!FramesIn(ready', v)) \in Nat
        /\ Cardinality(Sockets!FramesIn(ready, v)) =
             Cardinality(Sockets!FramesIn(ready', v)) + (IF m.ws = v /\ m.kind = "data" THEN 1 ELSE 0)
    BY <1>q, <2>1, FramesTail
  <2>3. CASE ~(v \in clients /\ bsock[v] = "open" /\ tunnel = "up")
    <3>1. bsock'[v] = "open" => bsock[v] = "open"
      BY <1>13, <1>a DEF Sockets!TaskRuns, Sockets!TypeOK
    <3> QED BY <2>1, <2>3, <3>1 DEF FramesCounted
  <2>4. CASE /\ v \in clients /\ bsock[v] = "open" /\ tunnel = "up"
             /\ m.ws = v /\ m.kind = "close"
    <3>1. bsock'[v] = "closed"
      BY <1>13, <1>a, <2>4 DEF Sockets!TaskRuns, Sockets!TypeOK
    <3> QED BY <3>1 DEF FramesCounted
  <2>5. CASE /\ v \in clients /\ bsock[v] = "open" /\ tunnel = "up"
             /\ ~(m.ws = v /\ m.kind = "close")
    <3>1. Len(bgot[v]) + Cardinality(Sockets!FramesIn(ready, v)) + Cardinality(Sockets!FramesIn(toBrowser, v)) = lsent[v]
      BY <1>a, <2>5 DEF FramesCounted
    <3>2. Len(bgot'[v]) = Len(bgot[v]) + (IF m.ws = v /\ m.kind = "data" THEN 1 ELSE 0)
      <4>1. CASE m.ws = v
        <5>1. m.kind = "data" /\ bgot' = [bgot EXCEPT ![m.ws] = Append(@, m.n)]
          BY <1>13, <2>1, <2>5, <4>1 DEF Sockets!TaskRuns
        <5>2. bgot'[v] = Append(bgot[v], m.n)
          BY <1>a, <4>1, <5>1 DEF Sockets!TypeOK
        <5>3. Len(Append(bgot[v], m.n)) = Len(bgot[v]) + 1
          BY <1>q
        <5> QED BY <4>1, <5>1, <5>2, <5>3
      <4>2. CASE m.ws # v
        <5>1. bgot'[v] = bgot[v]
          BY <1>13, <1>a, <2>1, <4>2 DEF Sockets!TaskRuns, Sockets!TypeOK
        <5> QED BY <1>n, <4>2, <5>1
      <4> QED BY <4>1, <4>2
    <3>3. Len(bgot'[v]) + Cardinality(Sockets!FramesIn(ready', v)) + Cardinality(Sockets!FramesIn(toBrowser', v)) = lsent'[v]
      <4> DEFINE k == IF m.ws = v /\ m.kind = "data" THEN 1 ELSE 0
      <4>1. k \in Nat /\ Len(bgot'[v]) = Len(bgot[v]) + k
        BY <3>2
      <4>2. Cardinality(Sockets!FramesIn(ready, v)) = Cardinality(Sockets!FramesIn(ready', v)) + k
        BY <2>2
      <4> HIDE DEF k, m
      <4>3. (Len(bgot[v]) + k) + Cardinality(Sockets!FramesIn(ready', v)) + Cardinality(Sockets!FramesIn(toBrowser, v)) = lsent[v]
        BY <1>n, <2>2, <3>1, <4>1, <4>2, Moved
      <4> QED BY <2>1, <4>1, <4>3
    <3> QED BY <3>3 DEF FramesCounted
  <2> QED BY <2>3, <2>4, <2>5
<1>14. ASSUME Sockets!HostReads PROVE FramesCounted(v)'
  BY <1>14, <1>b DEF Sockets!HostReads
<1>15. ASSUME Sockets!TunnelDrops PROVE FramesCounted(v)'
  BY <1>15, <1>b DEF Sockets!TunnelDrops
<1>16. ASSUME Sockets!TunnelEnds PROVE FramesCounted(v)'
  BY <1>16, <1>b DEF Sockets!TunnelEnds
<1>17. ASSUME Sockets!TunnelForgets PROVE FramesCounted(v)'
  BY <1>17, <1>b DEF Sockets!TunnelForgets
<1>18. ASSUME UNCHANGED Sockets!vars PROVE FramesCounted(v)'
  BY <1>18, <1>b DEF Sockets!vars
<1> QED
  BY <1>1, <1>2, <1>3, <1>4, <1>5, <1>6, <1>7, <1>8, <1>9, <1>10, <1>11, <1>12, <1>13, <1>14, <1>15,
     <1>16, <1>17, <1>18, SocketsCases

\* A new value at the end of a sequence without repetitions, and the first
\* one taken from it.
LEMMA OnceAppend ==
  ASSUME NEW T, NEW q \in Seq(T), NEW e \in T
  PROVE  /\ Sockets!ToSet(Append(q, e)) = Sockets!ToSet(q) \cup {e}
         /\ Sockets!IsInjective(q) /\ e \notin Sockets!ToSet(q) => Sockets!IsInjective(Append(q, e))
<1>1. \A i \in DOMAIN Append(q, e) : i \in DOMAIN q \/ i = Len(q) + 1
  BY QueueFacts
<1>2. /\ \A i \in DOMAIN q : i \in DOMAIN Append(q, e) /\ Append(q, e)[i] = q[i]
      /\ Len(q) + 1 \in DOMAIN Append(q, e) /\ Append(q, e)[Len(q) + 1] = e
  BY QueueFacts
<1> QED BY <1>1, <1>2 DEF Sockets!ToSet, Sockets!IsInjective

LEMMA OnceTail ==
  ASSUME NEW T, NEW q \in Seq(T), q # <<>>
  PROVE  /\ Sockets!ToSet(q) = Sockets!ToSet(Tail(q)) \cup {Head(q)}
         /\ Sockets!IsInjective(q) => Sockets!IsInjective(Tail(q)) /\ Head(q) \notin Sockets!ToSet(Tail(q))
<1>1. /\ 1 \in DOMAIN q /\ Head(q) = q[1]
      /\ \A i \in DOMAIN Tail(q) : i + 1 \in DOMAIN q /\ i + 1 # 1 /\ Tail(q)[i] = q[i + 1]
      /\ \A i, j \in DOMAIN Tail(q) : i + 1 = j + 1 => i = j
  BY QueueFacts
<1>2. \A j \in DOMAIN q : j = 1 \/ (\E i \in DOMAIN Tail(q) : j = i + 1)
  <2> SUFFICES ASSUME NEW j \in DOMAIN q, j # 1 PROVE j - 1 \in DOMAIN Tail(q) /\ j = (j - 1) + 1
    OBVIOUS
  <2> QED BY QueueFacts
<1>3. Sockets!ToSet(q) = Sockets!ToSet(Tail(q)) \cup {Head(q)}
  BY <1>1, <1>2 DEF Sockets!ToSet
<1>4. Sockets!IsInjective(q) => Sockets!IsInjective(Tail(q)) /\ Head(q) \notin Sockets!ToSet(Tail(q))
  BY <1>1 DEF Sockets!ToSet, Sockets!IsInjective
<1> QED BY <1>3, <1>4

\* The frames of socket v that its local app received, that wait to be
\* flushed or for the open, and that are on their way.
FramesOnce(v) ==
  /\ Sockets!IsInjective(lgot[v]) /\ Sockets!IsInjective(flush[v]) /\ Sockets!IsInjective(pend[v])
  /\ Sockets!ToSet(lgot[v]) \cap (Sockets!ToSet(flush[v]) \cup Sockets!ToSet(pend[v])) = {}
  /\ Sockets!ToSet(flush[v]) \cap Sockets!ToSet(pend[v]) = {}
  /\ Sockets!ToSet(lgot[v]) \cup Sockets!ToSet(flush[v]) \cup Sockets!ToSet(pend[v]) \subseteq 1 .. bsent[v]
  /\ \A i \in Sockets!FramesIn(toLocal, v) :
       /\ toLocal[i].n \in 1 .. bsent[v]
       /\ toLocal[i].n \notin Sockets!ToSet(lgot[v]) \cup Sockets!ToSet(flush[v]) \cup Sockets!ToSet(pend[v])
       /\ \A j \in Sockets!FramesIn(toLocal, v) : toLocal[i].n = toLocal[j].n => i = j

\* A frame moves from one place to the next, and a new one gets a new number.
LEMMA LocalOnceStep == Sockets!SocketsInv /\ [Sockets!Next]_Sockets!vars => Sockets!LocalFrameAtMostOnce'
<1> SUFFICES ASSUME Sockets!SocketsInv, [Sockets!Next]_Sockets!vars, NEW v \in Ws PROVE FramesOnce(v)'
  BY DEF Sockets!LocalFrameAtMostOnce, FramesOnce
<1>a. Sockets!TypeOK /\ FramesOnce(v)
  BY DEF Sockets!SocketsInv, Sockets!LocalFrameAtMostOnce, FramesOnce
<1>q. /\ lgot[v] \in Seq(1 .. Frames) /\ flush[v] \in Seq(1 .. Frames) /\ pend[v] \in Seq(1 .. Frames)
      /\ toLocal \in Seq(Sockets!Message) /\ bsent[v] \in Nat
  BY <1>a DEF Sockets!TypeOK
<1>b. ASSUME UNCHANGED <<toLocal, bsent, lgot, flush, pend>> PROVE FramesOnce(v)'
  BY <1>a, <1>b DEF FramesOnce, Sockets!FramesIn
<1>c. ASSUME NEW m \in Sockets!Message, m.kind # "data", Sockets!SendHost(m), UNCHANGED <<bsent, lgot, flush, pend>>
      PROVE  FramesOnce(v)'
  <2>1. \A i \in Sockets!FramesIn(toLocal', v) : i \in Sockets!FramesIn(toLocal, v) /\ toLocal'[i] = toLocal[i]
    <3>1. CASE toLocal' = Append(toLocal, m)
      BY <1>c, <1>q, <3>1, QueueFacts DEF Sockets!FramesIn
    <3> QED BY <1>c, <3>1 DEF Sockets!SendHost, Sockets!FramesIn
  <2> QED BY <1>a, <1>c, <2>1 DEF FramesOnce
<1>d. \A w \in Ws : /\ Sockets!Close(w) \in Sockets!Message /\ Sockets!Close(w).kind # "data"
                    /\ Sockets!Open(w) \in Sockets!Message /\ Sockets!Open(w).kind # "data"
  BY MessageFacts, SocketsAssumption DEF Sockets!ConstantsAssumption
<1>e. ASSUME NEW w \in Ws, NEW q \in Seq(1 .. Frames), Sockets!SendWaiting(w, q), UNCHANGED <<toLocal, bsent>>,
             v # w => pend'[v] = pend[v],
             v = w => \/ q = flush[v] /\ pend'[v] = pend[v]
                      \/ q = pend[v] /\ pend'[v] = <<>>
      PROVE  FramesOnce(v)'
  <2>1. Sockets!ToSet(<<>>) = {} /\ Sockets!IsInjective(<<>>)
    BY DEF Sockets!ToSet, Sockets!IsInjective
  <2>2. CASE v # w
    <3>1. flush'[v] = flush[v] /\ lgot'[v] = lgot[v]
      BY <1>a, <1>e, <2>2, SendWaitingFacts
    <3> QED BY <1>a, <1>e, <2>2, <3>1 DEF FramesOnce
  <2>3. CASE v = w /\ flush'[v] = <<>> /\ lgot'[v] = lgot[v]
    BY <1>a, <1>e, <2>1, <2>3 DEF FramesOnce
  <2>4. CASE v = w /\ q # <<>> /\ flush'[v] = Tail(q) /\ lgot'[v] = Append(lgot[v], Head(q))
    <3>1. /\ Sockets!ToSet(q) = Sockets!ToSet(Tail(q)) \cup {Head(q)}
          /\ Sockets!IsInjective(q) => Sockets!IsInjective(Tail(q)) /\ Head(q) \notin Sockets!ToSet(Tail(q))
          /\ Head(q) \in 1 .. Frames
      BY <1>e, <2>4, OnceTail, QueueFacts
    <3>2. /\ Sockets!ToSet(Append(lgot[v], Head(q))) = Sockets!ToSet(lgot[v]) \cup {Head(q)}
          /\ Sockets!IsInjective(lgot[v]) /\ Head(q) \notin Sockets!ToSet(lgot[v]) => Sockets!IsInjective(Append(lgot[v], Head(q)))
      BY <1>q, <3>1, OnceAppend
    <3>3. CASE q = flush[v] /\ pend'[v] = pend[v]
      BY <1>a, <1>e, <2>4, <3>1, <3>2, <3>3 DEF FramesOnce
    <3>4. CASE q = pend[v] /\ pend'[v] = <<>>
      BY <1>a, <1>e, <2>1, <2>4, <3>1, <3>2, <3>4 DEF FramesOnce
    <3> QED BY <1>e, <2>4, <3>3, <3>4
  <2> QED BY <1>a, <1>e, <2>2, <2>3, <2>4, SendWaitingFacts
<1> USE DEF Sockets!hub, Sockets!host, Sockets!chans, Sockets!seen
<1>1. ASSUME NEW w \in Ws, Sockets!BrowserArrives(w) PROVE FramesOnce(v)'
  BY <1>1, <1>b DEF Sockets!BrowserArrives
<1>2. ASSUME NEW w \in Ws, Sockets!BrowserJoins(w) PROVE FramesOnce(v)'
  BY <1>2, <1>c, <1>d DEF Sockets!BrowserJoins
<1>3. ASSUME NEW w \in Ws, Sockets!BrowserSends(w) PROVE FramesOnce(v)'
  <2> DEFINE m == Sockets!Data(w, bsent[w] + 1)
  <2>1. bsent[w] + 1 \in 0 .. Frames
    <3>1. bsent[w] \in 0 .. Frames /\ bsent[w] < Frames
      BY <1>3, <1>a DEF Sockets!BrowserSends, Sockets!TypeOK
    <3> QED BY <3>1, SocketsAssumption DEF Sockets!ConstantsAssumption
  <2>2. m \in Sockets!Message /\ m.ws = w /\ m.n = bsent[w] + 1
    BY <2>1, MessageFacts
  <2>3. Sockets!SendHost(m) /\ bsent' = [bsent EXCEPT ![w] = @ + 1] /\ UNCHANGED <<lgot, flush, pend>>
    BY <1>3 DEF Sockets!BrowserSends
  <2> HIDE DEF m
  <2>4. \A i \in DOMAIN toLocal' : \/ i \in DOMAIN toLocal /\ toLocal'[i] = toLocal[i]
                                   \/ i = Len(toLocal) + 1 /\ toLocal'[i] = m
    <3>1. CASE toLocal' = Append(toLocal, m)
      BY <1>q, <2>2, <3>1, QueueFacts
    <3> QED BY <2>3, <3>1 DEF Sockets!SendHost
  <2>5. CASE v = w
    <3>1. bsent'[v] = bsent[v] + 1
      BY <1>a, <2>3, <2>5 DEF Sockets!TypeOK
    <3>2. \A i \in Sockets!FramesIn(toLocal', v) : \/ i \in Sockets!FramesIn(toLocal, v) /\ toLocal'[i] = toLocal[i]
                                                   \/ i = Len(toLocal) + 1 /\ toLocal'[i].n = bsent[v] + 1
      BY <2>2, <2>4, <2>5 DEF Sockets!FramesIn
    <3>3. \A k \in 1 .. bsent[v] : k # bsent[v] + 1 /\ k \in 1 .. bsent[v] + 1
      BY <1>q
    <3>4. bsent[v] + 1 \in 1 .. bsent[v] + 1
      BY <1>q
    <3>5. \A i \in Sockets!FramesIn(toLocal', v) :
            /\ toLocal'[i].n \in 1 .. bsent[v] + 1
            /\ toLocal'[i].n \notin Sockets!ToSet(lgot[v]) \cup Sockets!ToSet(flush[v]) \cup Sockets!ToSet(pend[v])
            /\ \A j \in Sockets!FramesIn(toLocal', v) : toLocal'[i].n = toLocal'[j].n => i = j
      BY <1>a, <3>2, <3>3, <3>4 DEF FramesOnce
    <3> QED BY <1>a, <2>3, <3>1, <3>3, <3>5 DEF FramesOnce
  <2>6. CASE v # w
    <3>1. bsent'[v] = bsent[v]
      BY <1>a, <2>3, <2>6 DEF Sockets!TypeOK
    <3>2. \A i \in Sockets!FramesIn(toLocal', v) : i \in Sockets!FramesIn(toLocal, v) /\ toLocal'[i] = toLocal[i]
      BY <2>2, <2>4, <2>6 DEF Sockets!FramesIn
    <3> QED BY <1>a, <2>3, <3>1, <3>2 DEF FramesOnce
  <2> QED BY <2>5, <2>6
<1>4. ASSUME NEW w \in Ws, Sockets!BrowserCloses(w) PROVE FramesOnce(v)'
  BY <1>4, <1>b DEF Sockets!BrowserCloses
<1>5. ASSUME NEW w \in Ws, Sockets!BrowserLeaves(w) PROVE FramesOnce(v)'
  BY <1>5, <1>c, <1>d DEF Sockets!BrowserLeaves
<1>6. ASSUME NEW w \in Ws, Sockets!OpenSucceeds(w) PROVE FramesOnce(v)'
  <2>1. /\ pend[w] \in Seq(1 .. Frames) /\ Sockets!SendWaiting(w, pend[w]) /\ UNCHANGED <<toLocal, bsent>>
        /\ v # w => pend'[v] = pend[v]
        /\ v = w => pend'[v] = <<>>
    BY <1>6, <1>a DEF Sockets!OpenSucceeds, Sockets!TypeOK
  <2> QED BY <1>e, <2>1
<1>7. ASSUME NEW w \in Ws, Sockets!OpenFails(w) PROVE FramesOnce(v)'
  BY <1>7, <1>b DEF Sockets!OpenFails
<1>8. ASSUME NEW w \in Ws, Sockets!Flush(w) PROVE FramesOnce(v)'
  <2>1. /\ flush[w] \in Seq(1 .. Frames) /\ Sockets!SendWaiting(w, flush[w]) /\ UNCHANGED <<toLocal, bsent>>
        /\ v # w => pend'[v] = pend[v]
        /\ v = w => pend'[v] = pend[v]
    BY <1>8, <1>a DEF Sockets!Flush, Sockets!TypeOK
  <2> QED BY <1>e, <2>1
<1>9. ASSUME NEW w \in Ws, Sockets!ReaderEnds(w) PROVE FramesOnce(v)'
  BY <1>9, <1>b DEF Sockets!ReaderEnds
<1>10. ASSUME NEW w \in Ws, Sockets!LocalSends(w) PROVE FramesOnce(v)'
  BY <1>10, <1>b DEF Sockets!LocalSends
<1>11. ASSUME NEW w \in Ws, Sockets!LocalCloses(w) PROVE FramesOnce(v)'
  BY <1>11, <1>b DEF Sockets!LocalCloses
<1>12. ASSUME Sockets!HubReads PROVE FramesOnce(v)'
  BY <1>12, <1>b DEF Sockets!HubReads
<1>13. ASSUME Sockets!TaskRuns PROVE FramesOnce(v)'
  BY <1>13, <1>b DEF Sockets!TaskRuns
<1>14. ASSUME Sockets!HostReads PROVE FramesOnce(v)'
  <2> DEFINE m == Head(toLocal)
  <2>1. /\ m = toLocal[1] /\ 1 \in DOMAIN toLocal /\ toLocal # <<>> /\ toLocal' = Tail(toLocal)
        /\ m \in Sockets!Message /\ m.ws \in Ws /\ UNCHANGED <<flush, bsent>>
        /\ \/ m.kind # "data" /\ UNCHANGED <<pend, lgot>>
           \/ m.kind = "data" /\ Sockets!HandleData(m.ws, m.n)
    BY <1>14, <1>a, HostReadsCases DEF Sockets!HandleClose
  <2>2. \A i \in DOMAIN toLocal' : i + 1 \in DOMAIN toLocal /\ i + 1 # 1 /\ toLocal'[i] = toLocal[i + 1]
    BY <1>q, <2>1, QueueFacts
  <2>3. \A i, j \in DOMAIN toLocal' : i + 1 = j + 1 => i = j
    BY <1>q, <2>1, QueueFacts
  <2>4. \A i \in Sockets!FramesIn(toLocal', v) : i + 1 \in Sockets!FramesIn(toLocal, v) /\ i + 1 # 1 /\ toLocal'[i] = toLocal[i + 1]
    BY <2>2 DEF Sockets!FramesIn
  <2>5. \A i, j \in Sockets!FramesIn(toLocal', v) : toLocal'[i].n = toLocal'[j].n => i = j
    <3>1. \A i, j \in Sockets!FramesIn(toLocal', v) : toLocal'[i].n = toLocal'[j].n => i + 1 = j + 1
      BY <1>a, <2>4 DEF FramesOnce
    <3> QED BY <2>3, <3>1 DEF Sockets!FramesIn
  <2>6. \A i \in Sockets!FramesIn(toLocal', v) :
          /\ toLocal'[i].n \in 1 .. bsent[v]
          /\ toLocal'[i].n \notin Sockets!ToSet(lgot[v]) \cup Sockets!ToSet(flush[v]) \cup Sockets!ToSet(pend[v])
    BY <1>a, <2>4 DEF FramesOnce
  <2>7. CASE pend'[v] = pend[v] /\ lgot'[v] = lgot[v]
    BY <1>a, <2>1, <2>5, <2>6, <2>7 DEF FramesOnce
  <2>8. CASE ~(pend'[v] = pend[v] /\ lgot'[v] = lgot[v])
    <3>1. /\ m.kind = "data" /\ m.ws = v
          /\ \/ pend'[v] = Append(pend[v], m.n) /\ lgot'[v] = lgot[v]
             \/ lgot'[v] = Append(lgot[v], m.n) /\ pend'[v] = pend[v]
      <4>1. m.kind = "data" /\ Sockets!HandleData(m.ws, m.n)
        BY <2>1, <2>8
      <4> HIDE DEF m
      <4>2. pend \in [Ws -> Seq(1 .. Frames)] /\ lgot \in [Ws -> Seq(1 .. Frames)]
        BY <1>a DEF Sockets!TypeOK
      <4>3. CASE m.ws \in locals
        <5>1. pend' = pend /\ lgot' = [lgot EXCEPT ![m.ws] = Append(@, m.n)]
          BY <2>8, <4>1, <4>3 DEF Sockets!HandleData
        <5>2. m.ws = v
          BY <2>1, <2>8, <4>2, <5>1
        <5> QED BY <4>1, <4>2, <5>1, <5>2
      <4>4. CASE m.ws \notin locals
        <5>1. lgot' = lgot /\ pend' = [pend EXCEPT ![m.ws] = Append(@, m.n)]
          BY <2>8, <4>1, <4>4 DEF Sockets!HandleData
        <5>2. m.ws = v
          BY <2>1, <2>8, <4>2, <5>1
        <5> QED BY <4>1, <4>2, <5>1, <5>2
      <4> QED BY <4>3, <4>4
    <3>2. 1 \in Sockets!FramesIn(toLocal, v)
      BY <2>1, <3>1 DEF Sockets!FramesIn
    <3>3. /\ m.n \in 1 .. bsent[v] /\ m.n \notin Sockets!ToSet(lgot[v]) \cup Sockets!ToSet(flush[v]) \cup Sockets!ToSet(pend[v])
          /\ \A i \in Sockets!FramesIn(toLocal', v) : toLocal'[i].n # m.n
      BY <1>a, <2>1, <2>4, <3>2 DEF FramesOnce
    <3>4. m.n \in 1 .. Frames
      <4>1. bsent[v] \in 0 .. Frames /\ Frames \in Nat
        BY <1>a, SocketsAssumption DEF Sockets!TypeOK, Sockets!ConstantsAssumption
      <4> QED BY <3>3, <4>1
    <3> HIDE DEF m
    <3>5. /\ Sockets!ToSet(Append(pend[v], m.n)) = Sockets!ToSet(pend[v]) \cup {m.n}
          /\ Sockets!IsInjective(pend[v]) /\ m.n \notin Sockets!ToSet(pend[v]) => Sockets!IsInjective(Append(pend[v], m.n))
      BY <1>q, <3>4, OnceAppend
    <3>6. /\ Sockets!ToSet(Append(lgot[v], m.n)) = Sockets!ToSet(lgot[v]) \cup {m.n}
          /\ Sockets!IsInjective(lgot[v]) /\ m.n \notin Sockets!ToSet(lgot[v]) => Sockets!IsInjective(Append(lgot[v], m.n))
      BY <1>q, <3>4, OnceAppend
    <3>7. flush'[v] = flush[v] /\ bsent'[v] = bsent[v]
      BY <2>1
    <3>8. CASE pend'[v] = Append(pend[v], m.n) /\ lgot'[v] = lgot[v]
      BY <1>a, <2>5, <2>6, <3>3, <3>5, <3>7, <3>8 DEF FramesOnce
    <3>9. CASE lgot'[v] = Append(lgot[v], m.n) /\ pend'[v] = pend[v]
      BY <1>a, <2>5, <2>6, <3>3, <3>6, <3>7, <3>9 DEF FramesOnce
    <3> QED BY <3>1, <3>8, <3>9
  <2> QED BY <2>7, <2>8
<1>15. ASSUME Sockets!TunnelDrops PROVE FramesOnce(v)'
  BY <1>15, <1>b DEF Sockets!TunnelDrops
<1>16. ASSUME Sockets!TunnelEnds PROVE FramesOnce(v)'
  BY <1>16, <1>b DEF Sockets!TunnelEnds
<1>17. ASSUME Sockets!TunnelForgets PROVE FramesOnce(v)'
  BY <1>17, <1>b DEF Sockets!TunnelForgets
<1>18. ASSUME UNCHANGED Sockets!vars PROVE FramesOnce(v)'
  BY <1>18, <1>b DEF Sockets!vars
<1> QED
  BY <1>1, <1>2, <1>3, <1>4, <1>5, <1>6, <1>7, <1>8, <1>9, <1>10, <1>11, <1>12, <1>13, <1>14, <1>15,
     <1>16, <1>17, <1>18, SocketsCases

\* Nothing was sent yet.
LEMMA SocketsInit == Sockets!Init => Sockets!SocketsInv
<1> SUFFICES ASSUME Sockets!Init PROVE Sockets!SocketsInv
  OBVIOUS
<1> USE DEF Sockets!Init
<1>1. Sockets!TypeOK
  BY SocketsAssumption DEF Sockets!ConstantsAssumption, Sockets!TypeOK
<1>2. Sockets!LocalFrameAtMostOnce
  BY DEF Sockets!LocalFrameAtMostOnce, Sockets!FramesIn, Sockets!ToSet, Sockets!IsInjective
<1>3. Sockets!OpenedOnce
  BY DEF Sockets!OpenedOnce
<1>4. Sockets!FramesInOrder
  BY DEF Sockets!FramesInOrder, Sockets!FramesIn, Sockets!Increasing
<1>5. Sockets!NoneSkipped
  BY DEF Sockets!NoneSkipped
<1> QED BY <1>1, <1>2, <1>3, <1>4, <1>5 DEF Sockets!SocketsInv

\* The frames of every browser socket arrive in the order the local app sent
\* them, none twice and none skipped, and none is doubled the other way, for
\* any number of sockets and of frames.
THEOREM OrderSafety == Sockets!Spec => []BrowserReceivesInOrder
<1>1. Sockets!SocketsInv /\ [Sockets!Next]_Sockets!vars => Sockets!SocketsInv'
  BY SocketsTypeStep, LocalOnceStep, OpenedOnceStep, FramesInOrderStep, NoneSkippedStep DEF Sockets!SocketsInv
<1>2. Sockets!SocketsInv => BrowserReceivesInOrder
  BY DEF Sockets!SocketsInv, Sockets!FramesInOrder, Sockets!BrowserReceivesInOrder, BrowserReceivesInOrder
<1> QED BY SocketsInit, <1>1, <1>2, PTL DEF Sockets!Spec
=============================================================================
