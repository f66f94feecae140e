------------------------- MODULE PeerRegistry_proofs -------------------------
(***************************************************************************)
(* Theorems about PeerRegistry, for any sets of offers and session ids,    *)
(* and about ProxiedSockets, for any numbers of ids, sockets and frames.   *)
(***************************************************************************)
EXTENDS MCPeers, Integers, Sequences, TLAPS

\* The actions, as a preservation proof splits them.
LEMMA NextCases ==
  ASSUME NEW P, [Next]_vars,
         \A o \in Offer, s \in Session : TakeOffer(o, s) => P,
         \A o \in Offer : Insert(o) => P,
         \A o \in Offer : Answer(o) => P,
         \A o \in Offer : NegotiationFails(o) => P,
         \A o \in Offer : Closes(o) => P,
         \A o \in Offer : ReportsClosing(o) => P,
         \A o \in Offer : Fails(o) => P,
         \A o \in Offer : StateCallback(o) => P,
         \A o \in Offer : ChannelOpens(o) => P,
         \A o \in Offer : ChannelCloses(o) => P,
         \A o \in Offer : BrowserSends(o) => P,
         \A o \in Offer : HandleMessage(o) => P,
         \A o \in Offer : CloseNext(o) => P,
         Shutdown => P,
         AllClosed => P,
         UNCHANGED vars => P
  PROVE  P
BY DEF Next

\* Types are preserved by every step.
LEMMA TypeStep ==
  ASSUME ConstantsAssumption, TypeOK, ConnectionInv, [Next]_vars
  PROVE  TypeOK'
<1> USE DEF ConstantsAssumption, TypeOK, offers
<1>1. ASSUME NEW o \in Offer, NEW s \in Session, TakeOffer(o, s) PROVE TypeOK'
  BY <1>1 DEF TakeOffer, Registers, Go, Busy
<1>2. ASSUME NEW o \in Offer, Insert(o) PROVE TypeOK'
  BY <1>2 DEF Insert, Registers, Go
<1>3. ASSUME NEW o \in Offer, Answer(o) PROVE TypeOK'
  BY <1>3 DEF Answer, Go
<1>4. ASSUME NEW o \in Offer, NegotiationFails(o) PROVE TypeOK'
  BY <1>4 DEF NegotiationFails, Go
<1>5. ASSUME NEW o \in Offer, Closes(o) PROVE TypeOK'
  BY <1>5 DEF Closes
<1>6. ASSUME NEW o \in Offer, ReportsClosing(o) PROVE TypeOK'
  BY <1>6 DEF ReportsClosing
<1>7. ASSUME NEW o \in Offer, Fails(o) PROVE TypeOK'
  BY <1>7 DEF Fails
<1>8. ASSUME NEW o \in Offer, StateCallback(o) PROVE TypeOK'
  BY <1>8 DEF StateCallback, ConnectionInv
<1>9. ASSUME NEW o \in Offer, ChannelOpens(o) PROVE TypeOK'
  BY <1>9 DEF ChannelOpens
<1>10. ASSUME NEW o \in Offer, ChannelCloses(o) PROVE TypeOK'
  BY <1>10 DEF ChannelCloses
<1>11. ASSUME NEW o \in Offer, BrowserSends(o) PROVE TypeOK'
  BY <1>11 DEF BrowserSends
<1>12. ASSUME NEW o \in Offer, HandleMessage(o) PROVE TypeOK'
  BY <1>12 DEF HandleMessage
<1>13. ASSUME NEW o \in Offer, CloseNext(o) PROVE TypeOK'
  BY <1>13 DEF CloseNext
<1>14. CASE Shutdown
  BY <1>14 DEF Shutdown
<1>15. CASE AllClosed
  BY <1>15 DEF AllClosed
<1>16. CASE UNCHANGED vars
  BY <1>16 DEF vars
<1>17. QED
  BY <1>1, <1>2, <1>3, <1>4, <1>5, <1>6, <1>7, <1>8, <1>9, <1>10, <1>11, <1>12, <1>13, <1>14, <1>15,
     <1>16, NextCases

LEMMA ConnectionStep ==
  ASSUME ConstantsAssumption, TypeOK, ConnectionInv, [Next]_vars
  PROVE  ConnectionInv'
<1> USE DEF ConstantsAssumption, TypeOK, ConnectionInv, offers
<1>1. ASSUME NEW o \in Offer, NEW s \in Session, TakeOffer(o, s) PROVE ConnectionInv'
  BY <1>1 DEF TakeOffer, Registers, Go
<1>2. ASSUME NEW o \in Offer, Insert(o) PROVE ConnectionInv'
  BY <1>2 DEF Insert, Registers, Go
<1>3. ASSUME NEW o \in Offer, Answer(o) \/ NegotiationFails(o) PROVE ConnectionInv'
  BY <1>3 DEF Answer, NegotiationFails, Go
<1>4. ASSUME NEW o \in Offer, Closes(o) \/ ReportsClosing(o) \/ Fails(o) PROVE ConnectionInv'
  BY <1>4 DEF Closes, ReportsClosing, Fails
<1>5. ASSUME NEW o \in Offer, StateCallback(o) PROVE ConnectionInv'
  BY <1>5 DEF StateCallback
<1>6. ASSUME NEW o \in Offer, ChannelOpens(o) \/ ChannelCloses(o) \/ BrowserSends(o) \/ HandleMessage(o)
      PROVE  ConnectionInv'
  BY <1>6 DEF ChannelOpens, ChannelCloses, BrowserSends, HandleMessage
<1>7. ASSUME NEW o \in Offer, CloseNext(o) PROVE ConnectionInv'
  BY <1>7 DEF CloseNext
<1>8. CASE Shutdown \/ AllClosed \/ UNCHANGED vars
  BY <1>8 DEF Shutdown, AllClosed, vars
<1>9. QED
  BY <1>1, <1>2, <1>3, <1>4, <1>5, <1>6, <1>7, <1>8, NextCases

LEMMA CrossingStep ==
  ASSUME ConstantsAssumption, TypeOK, ConnectionInv, CrossingInv, [Next]_vars
  PROVE  CrossingInv'
<1> USE DEF ConstantsAssumption, TypeOK, ConnectionInv, CrossingInv, Busy, offers
<1>1. ASSUME NEW o \in Offer, NEW s \in Session, TakeOffer(o, s) PROVE CrossingInv'
  BY <1>1 DEF TakeOffer, Registers, Go
<1>2. ASSUME NEW o \in Offer, Insert(o) PROVE CrossingInv'
  BY <1>2 DEF Insert, Registers, Go
<1>3. ASSUME NEW o \in Offer, Answer(o) \/ NegotiationFails(o) PROVE CrossingInv'
  BY <1>3 DEF Answer, NegotiationFails, Go
<1>4. ASSUME NEW o \in Offer, Closes(o) \/ ReportsClosing(o) \/ Fails(o) PROVE CrossingInv'
  BY <1>4 DEF Closes, ReportsClosing, Fails
<1>5. ASSUME NEW o \in Offer, StateCallback(o) PROVE CrossingInv'
  BY <1>5 DEF StateCallback
<1>6. ASSUME NEW o \in Offer, ChannelOpens(o) \/ ChannelCloses(o) \/ BrowserSends(o) \/ HandleMessage(o)
      PROVE  CrossingInv'
  BY <1>6 DEF ChannelOpens, ChannelCloses, BrowserSends, HandleMessage
<1>7. ASSUME NEW o \in Offer, CloseNext(o) PROVE CrossingInv'
  BY <1>7 DEF CloseNext
<1>8. CASE Shutdown \/ AllClosed \/ UNCHANGED vars
  BY <1>8 DEF Shutdown, AllClosed, vars
<1>9. QED
  BY <1>1, <1>2, <1>3, <1>4, <1>5, <1>6, <1>7, <1>8, NextCases

\* The registry knows the open peers, and the shutdown will close them.
LEMMA KnownStep ==
  ASSUME ConstantsAssumption, TypeOK, ConnectionInv, CrossingInv, ShutdownInv, OpenPeerIsKnown, [Next]_vars
  PROVE  ShutdownInv' /\ OpenPeerIsKnown'
<1> DEFINE Known == ShutdownInv /\ OpenPeerIsKnown
<1> USE DEF ConstantsAssumption, TypeOK, ConnectionInv, CrossingInv, ShutdownInv, OpenPeerIsKnown, Busy, offers
<1>1. ASSUME NEW o \in Offer, NEW s \in Session, TakeOffer(o, s) PROVE Known'
  BY <1>1 DEF TakeOffer, Registers, Go
<1>2. ASSUME NEW o \in Offer, Insert(o) PROVE Known'
  BY <1>2 DEF Insert, Registers, Go
<1>3. ASSUME NEW o \in Offer, Answer(o) \/ NegotiationFails(o) PROVE Known'
  BY <1>3 DEF Answer, NegotiationFails, Go
<1>4. ASSUME NEW o \in Offer, Closes(o) \/ ReportsClosing(o) \/ Fails(o) PROVE Known'
  BY <1>4 DEF Closes, ReportsClosing, Fails
<1>5. ASSUME NEW o \in Offer, StateCallback(o) PROVE Known'
  BY <1>5 DEF StateCallback
<1>6. ASSUME NEW o \in Offer, ChannelOpens(o) \/ ChannelCloses(o) \/ BrowserSends(o) \/ HandleMessage(o)
      PROVE  Known'
  BY <1>6 DEF ChannelOpens, ChannelCloses, BrowserSends, HandleMessage
<1>7. ASSUME NEW o \in Offer, CloseNext(o) PROVE Known'
  BY <1>7 DEF CloseNext
<1>8. CASE Shutdown
  BY <1>8 DEF Shutdown
<1>9. CASE AllClosed
  BY <1>9 DEF AllClosed
<1>10. CASE UNCHANGED vars
  BY <1>10 DEF vars
<1>11. QED
  BY <1>1, <1>2, <1>3, <1>4, <1>5, <1>6, <1>7, <1>8, <1>9, <1>10, NextCases

LEMMA ChannelStep ==
  ASSUME TypeOK, ChannelInv, FramesFindTheirProxy, [Next]_vars
  PROVE  ChannelInv' /\ FramesFindTheirProxy'
<1> DEFINE Heard == ChannelInv /\ FramesFindTheirProxy
<1> USE DEF TypeOK, ChannelInv, FramesFindTheirProxy, offers
<1>1. ASSUME NEW o \in Offer, NEW s \in Session, TakeOffer(o, s) PROVE Heard'
  BY <1>1 DEF TakeOffer, Registers, Go
<1>2. ASSUME NEW o \in Offer, Insert(o) \/ Answer(o) \/ NegotiationFails(o) PROVE Heard'
  BY <1>2 DEF Insert, Answer, NegotiationFails, Registers, Go
<1>3. ASSUME NEW o \in Offer, Closes(o) \/ ReportsClosing(o) \/ Fails(o) \/ StateCallback(o) PROVE Heard'
  BY <1>3 DEF Closes, ReportsClosing, Fails, StateCallback
<1>4. ASSUME NEW o \in Offer, ChannelOpens(o) \/ ChannelCloses(o) \/ BrowserSends(o) \/ HandleMessage(o)
      PROVE  Heard'
  BY <1>4 DEF ChannelOpens, ChannelCloses, BrowserSends, HandleMessage
<1>5. ASSUME NEW o \in Offer, CloseNext(o) PROVE Heard'
  BY <1>5 DEF CloseNext
<1>6. CASE Shutdown \/ AllClosed \/ UNCHANGED vars
  BY <1>6 DEF Shutdown, AllClosed, vars
<1>7. QED
  BY <1>1, <1>2, <1>3, <1>4, <1>5, <1>6, NextCases

-----------------------------------------------------------------------------
(* Theorems *)

LEMMA InvInit == ConstantsAssumption /\ Init => TypeOK /\ PeersInv
BY DEF ConstantsAssumption, Init, TypeOK, PeersInv, PeersServeTheirSessions, OpenPeerIsKnown,
       FramesFindTheirProxy, ConnectionInv, CrossingInv, ShutdownInv, ChannelInv, Busy

LEMMA InvStep ==
  ASSUME ConstantsAssumption, TypeOK, PeersInv, [Next]_vars
  PROVE  TypeOK' /\ PeersInv'
BY TypeStep, ConnectionStep, CrossingStep, KnownStep, ChannelStep DEF PeersInv, PeersServeTheirSessions

\* Every reachable state is well typed.
THEOREM TypeCorrect == Spec => []TypeOK
<1>1. Init => TypeOK /\ PeersInv
  BY ConstantsHold, InvInit
<1>2. TypeOK /\ PeersInv /\ [Next]_vars => TypeOK' /\ PeersInv'
  BY ConstantsHold, InvStep
<1>3. QED
  BY <1>1, <1>2, PTL DEF Spec

\* An open peer is the one its session id leads to, unless its offer crossed
\* another one or a late callback removed it, the shutdown closes them all, and
\* no frame of a browser comes before its proxy.
THEOREM PeerSafety == Spec => []PeersServeTheirSessions
<1>1. Init => TypeOK /\ PeersInv
  BY ConstantsHold, InvInit
<1>2. TypeOK /\ PeersInv /\ [Next]_vars => TypeOK' /\ PeersInv'
  BY ConstantsHold, InvStep
<1>3. PeersInv => PeersServeTheirSessions
  BY DEF PeersInv
<1>4. QED
  BY <1>1, <1>2, <1>3, PTL DEF Spec

-----------------------------------------------------------------------------
(* ProxiedSockets *)

\* The actions of ProxiedSockets, as a preservation proof splits them.
LEMMA ProxyCases ==
  ASSUME NEW P, [Proxied!Next]_Proxied!vars,
         Proxied!PageReceives => P,
         Proxied!Fetches => P,
         Proxied!PageLeaves => P,
         \A b \in Proxied!Sock : Proxied!Opens(b) => P,
         \A b \in Proxied!Sock : Proxied!SendsText(b) => P,
         \A b \in Proxied!Sock : Proxied!Closes(b) => P,
         Proxied!HostReceives => P,
         Proxied!LinkDrops => P,
         \A b \in Proxied!Sock : Proxied!OpenSucceeds(b) => P,
         \A b \in Proxied!Sock : Proxied!OpenFails(b) => P,
         \A b \in Proxied!Sock : Proxied!AppSendsImage(b) => P,
         \A b \in Proxied!Sock : Proxied!AppCloses(b) => P,
         \A b \in Proxied!Sock : Proxied!TextRaises(b) => P,
         \A b \in Proxied!Sock : Proxied!SenderSends(b) => P,
         \A b \in Proxied!Sock : Proxied!ReaderEnds(b) => P,
         Proxied!RequestStarts => P,
         Proxied!RequestEnds => P,
         Proxied!StopBegins /\ (UNCHANGED Proxied!queues) => P,
         \A b \in Proxied!Sock : Proxied!StopCloses(b) => P,
         Proxied!StopClears => P,
         Proxied!StopEnds => P,
         UNCHANGED Proxied!vars => P
  PROVE  P
BY DEF Proxied!Next, Proxied!Page, Proxied!Opening, Proxied!App, Proxied!Request, Proxied!StopBegun,
   Proxied!LeaveArrives, Proxied!LossNoticed, Proxied!Stop

\* What the two ends of a queue do to its positions.
LEMMA QueueFacts ==
  ASSUME NEW T, NEW q \in Seq(T)
  PROVE  /\ Len(q) \in Nat /\ DOMAIN q = 1 .. Len(q)
         /\ \A k \in DOMAIN q : k \in Nat /\ q[k] \in T
         /\ \A e \in T : /\ Append(q, e) \in Seq(T) /\ DOMAIN Append(q, e) = 1 .. Len(q) + 1
                         /\ \A k \in DOMAIN Append(q, e) :
                              \/ k \in DOMAIN q /\ Append(q, e)[k] = q[k]
                              \/ k = Len(q) + 1 /\ k \notin DOMAIN q /\ Append(q, e)[k] = e
                         /\ \A k \in DOMAIN q : /\ k \in DOMAIN Append(q, e) /\ Append(q, e)[k] = q[k]
                                                /\ k < Len(q) + 1
                         /\ Len(q) + 1 \in DOMAIN Append(q, e) /\ Append(q, e)[Len(q) + 1] = e
         /\ q # <<>> => /\ Tail(q) \in Seq(T)
                        /\ \A k \in DOMAIN Tail(q) : /\ k + 1 \in DOMAIN q /\ 1 < k + 1 /\ Tail(q)[k] = q[k + 1]
                                                     /\ k \in Nat
                        /\ \A k \in DOMAIN q : k # 1 => k - 1 \in DOMAIN Tail(q) /\ (k - 1) + 1 = k
                        /\ Head(q) = q[1] /\ Head(q) \in T /\ 1 \in DOMAIN q
OBVIOUS

\* Ids are ids, and frames have their type.
LEMMA FrameFacts ==
  ASSUME NEW b \in Proxied!Sock
  PROVE  /\ Proxied!Id(b) \in Proxied!AllIds /\ b # None
         /\ \A what \in {"ws_open", "ws_text", "ws_close"}, n \in 0 .. Texts :
              /\ Proxied!Frame(what, b, n) \in Proxied!HostFrame /\ Proxied!Frame(what, b, n).what = what
              /\ Proxied!Frame(what, b, n).from = b /\ Proxied!Frame(what, b, n).n = n /\ Proxied!Frame(what, b, n).id = Proxied!Id(b)
         /\ \A what \in {"ws_ready", "binary", "ws_close"}, n \in 0 .. Images :
              /\ Proxied!Frame(what, b, n) \in Proxied!PageFrame /\ Proxied!Frame(what, b, n).what = what
              /\ Proxied!Frame(what, b, n).from = b /\ Proxied!Frame(what, b, n).n = n /\ Proxied!Frame(what, b, n).id = Proxied!Id(b)
         /\ 0 \in 0 .. Texts /\ 0 \in 0 .. Images
<1>1. b \in Nat /\ Ids \in Nat \ {0} /\ Texts \in Nat /\ Images \in Nat /\ None \notin 1 .. Opened
  BY ProxiedAssumption DEF Proxied!ConstantsAssumption, Proxied!Sock
<1>2. Proxied!Id(b) \in Proxied!AllIds
  BY <1>1 DEF Proxied!Id, Proxied!AllIds
<1>3. b # None
  BY <1>1 DEF Proxied!Sock
<1> QED BY <1>1, <1>2, <1>3 DEF Proxied!Frame, Proxied!HostFrame, Proxied!PageFrame

\* Messages that are no frames of a socket.
LEMMA OtherFacts ==
  \A what \in {"http", "leave"} :
    /\ Proxied!Other(what) \in Proxied!HostFrame \cup {Proxied!Other("http"), Proxied!Other("leave")}
    /\ Proxied!Other(what).what = what /\ Proxied!Other(what) \notin Proxied!HostFrame
BY DEF Proxied!Other, Proxied!HostFrame

\* What a queue holds after something was sent.
LEMMA SendTypes ==
  ASSUME Proxied!QueuesOK
  PROVE  /\ \A m \in Proxied!HostFrame \cup {Proxied!Other("http"), Proxied!Other("leave")} :
              Proxied!ToHost(m) => toHost' \in Seq(Proxied!HostFrame \cup {Proxied!Other("http"), Proxied!Other("leave")})
         /\ \A m \in Proxied!PageFrame : Proxied!ToPage(m) => toPage' \in Seq(Proxied!PageFrame)
<1>1. \A m \in Proxied!HostFrame \cup {Proxied!Other("http"), Proxied!Other("leave")} :
        Proxied!ToHost(m) => toHost' \in Seq(Proxied!HostFrame \cup {Proxied!Other("http"), Proxied!Other("leave")})
  BY QueueFacts DEF Proxied!QueuesOK, Proxied!ToHost
<1>2. \A m \in Proxied!PageFrame : Proxied!ToPage(m) => toPage' \in Seq(Proxied!PageFrame)
  <2> SUFFICES ASSUME NEW m \in Proxied!PageFrame, Proxied!ToPage(m) PROVE toPage' \in Seq(Proxied!PageFrame)
    OBVIOUS
  <2>1. toPage \in Seq(Proxied!PageFrame) /\ Append(toPage, m) \in Seq(Proxied!PageFrame)
    BY QueueFacts DEF Proxied!QueuesOK
  <2> QED BY <2>1 DEF Proxied!ToPage
<1> QED BY <1>1, <1>2

\* What the host does with a message.
LEMMA HostReceivesCases ==
  ASSUME Proxied!QueuesOK, Proxied!HostReceives
  PROVE  LET f == Head(toHost)
         IN /\ hpc = "running" /\ toHost # <<>> /\ toHost' = Tail(toHost) /\ f = toHost[1] /\ 1 \in DOMAIN toHost
            /\ link # "lost" /\ toHost' \in Seq(Proxied!HostFrame \cup {Proxied!Other("http"), Proxied!Other("leave")})
            /\ UNCHANGED <<link, toPage, bstate, clients, hpc, client, reader, latest, stops, texts, images,
                           gotImage, late>>
            /\ \/ f = Proxied!Other("http") /\ Proxied!RequestArrives(f)
               \/ f \in Proxied!HostFrame /\ f.what = "ws_open" /\ Proxied!OpenArrives(f)
               \/ f \in Proxied!HostFrame /\ f.what = "ws_text" /\ Proxied!TextArrives(f)
               \/ f \in Proxied!HostFrame /\ f.what = "ws_close" /\ Proxied!CloseArrives(f)
<1> DEFINE f == Head(toHost)
<1>1. /\ hpc = "running" /\ toHost # <<>> /\ toHost' = Tail(toHost) /\ link # "lost" /\ f.what # "leave"
      /\ UNCHANGED <<link, toPage, bstate, clients, hpc, client, reader, latest, stops, texts, images,
                     gotImage, late>>
      /\ Proxied!RequestArrives(f) \/ Proxied!OpenArrives(f) \/ Proxied!TextArrives(f) \/ Proxied!CloseArrives(f)
  BY DEF Proxied!HostReceives, Proxied!QueuesOK, Proxied!pages
<1>2. /\ f = toHost[1] /\ 1 \in DOMAIN toHost /\ f \in Proxied!HostFrame \cup {Proxied!Other("http"), Proxied!Other("leave")}
      /\ toHost' \in Seq(Proxied!HostFrame \cup {Proxied!Other("http"), Proxied!Other("leave")})
  BY <1>1, QueueFacts DEF Proxied!QueuesOK
<1>3. f = Proxied!Other("http") \/ f \in Proxied!HostFrame
  BY <1>1, <1>2, OtherFacts
<1> HIDE DEF f
<1>4. \/ f = Proxied!Other("http") /\ Proxied!RequestArrives(f)
      \/ f \in Proxied!HostFrame /\ f.what = "ws_open" /\ Proxied!OpenArrives(f)
      \/ f \in Proxied!HostFrame /\ f.what = "ws_text" /\ Proxied!TextArrives(f)
      \/ f \in Proxied!HostFrame /\ f.what = "ws_close" /\ Proxied!CloseArrives(f)
  <2>1. CASE f = Proxied!Other("http")
    <3>1. f.what = "http"
      BY <2>1, OtherFacts
    <3> QED BY <1>1, <2>1, <3>1 DEF Proxied!OpenArrives, Proxied!TextArrives, Proxied!CloseArrives
  <2>2. CASE f \in Proxied!HostFrame
    <3>1. f.what # "http"
      BY <2>2 DEF Proxied!HostFrame
    <3> QED BY <1>1, <2>2, <3>1 DEF Proxied!RequestArrives, Proxied!OpenArrives, Proxied!TextArrives,
               Proxied!CloseArrives
  <2> QED BY <1>3, <2>1, <2>2
<1> QED BY <1>1, <1>2, <1>4 DEF f

\* What the page does with a frame.
LEMMA PageReceivesCases ==
  ASSUME Proxied!TypeOK, Proxied!QueuesOK, Proxied!PageReceives
  PROVE  LET f == Head(toPage)
             b == clients[f.id]
         IN /\ toPage # <<>> /\ toPage' = Tail(toPage) /\ f = toPage[1] /\ 1 \in DOMAIN toPage
            /\ f \in Proxied!PageFrame /\ toPage' \in Seq(Proxied!PageFrame)
            /\ UNCHANGED <<link, toHost, hpc, http, client, opc, conns, lstate, reader, latest, stops, texts,
                           gotText, images, orphans, late>>
            /\ \/ UNCHANGED <<bstate, clients, gotImage, wrong>>
               \/ /\ b \in Proxied!Sock /\ f.what = "ws_ready" /\ bstate' = [bstate EXCEPT ![b] = "open"]
                  /\ UNCHANGED <<clients, gotImage, wrong>>
               \/ /\ b \in Proxied!Sock /\ f.what = "binary" /\ gotImage' = [gotImage EXCEPT ![b] = f.n]
                  /\ wrong' = (wrong \/ f.from # b \/ f.n <= gotImage[b])
                  /\ UNCHANGED <<bstate, clients>>
               \/ /\ b \in Proxied!Sock /\ f.what = "ws_close" /\ bstate' = [bstate EXCEPT ![b] = "closed"]
                  /\ clients' = [clients EXCEPT ![f.id] = None]
                  /\ UNCHANGED <<gotImage, wrong>>
<1> DEFINE f == Head(toPage)
           b == clients[f.id]
<1>1. /\ toPage # <<>> /\ toPage' = Tail(toPage)
      /\ UNCHANGED <<link, toHost, hpc, http, client, opc, conns, lstate, reader, latest, stops, texts,
                     gotText, images, orphans, late>>
  BY DEF Proxied!PageReceives, Proxied!calls, Proxied!locals
<1>2. f = toPage[1] /\ 1 \in DOMAIN toPage /\ f \in Proxied!PageFrame /\ toPage' \in Seq(Proxied!PageFrame)
  BY <1>1, QueueFacts DEF Proxied!QueuesOK
<1>3. b = None \/ b \in Proxied!Sock
  BY <1>2 DEF Proxied!TypeOK, Proxied!PageFrame
<1>4. \/ b = None /\ UNCHANGED <<bstate, clients, gotImage, wrong>>
      \/ /\ b # None /\ f.what = "ws_ready" /\ bstate' = [bstate EXCEPT ![b] = "open"]
         /\ UNCHANGED <<clients, gotImage, wrong>>
      \/ /\ b # None /\ f.what = "binary" /\ gotImage' = [gotImage EXCEPT ![b] = f.n]
         /\ wrong' = (wrong \/ f.from # b \/ f.n <= gotImage[b])
         /\ UNCHANGED <<bstate, clients>>
      \/ /\ b # None /\ f.what = "ws_close" /\ bstate' = [bstate EXCEPT ![b] = "closed"]
         /\ clients' = [clients EXCEPT ![f.id] = None]
         /\ UNCHANGED <<gotImage, wrong>>
  BY DEF Proxied!PageReceives, Proxied!pages
<1> HIDE DEF f, b
<1>5. \/ UNCHANGED <<bstate, clients, gotImage, wrong>>
      \/ /\ b \in Proxied!Sock /\ f.what = "ws_ready" /\ bstate' = [bstate EXCEPT ![b] = "open"]
         /\ UNCHANGED <<clients, gotImage, wrong>>
      \/ /\ b \in Proxied!Sock /\ f.what = "binary" /\ gotImage' = [gotImage EXCEPT ![b] = f.n]
         /\ wrong' = (wrong \/ f.from # b \/ f.n <= gotImage[b])
         /\ UNCHANGED <<bstate, clients>>
      \/ /\ b \in Proxied!Sock /\ f.what = "ws_close" /\ bstate' = [bstate EXCEPT ![b] = "closed"]
         /\ clients' = [clients EXCEPT ![f.id] = None]
         /\ UNCHANGED <<gotImage, wrong>>
  BY <1>3, <1>4
<1> QED BY <1>1, <1>2, <1>5 DEF f, b

\* Every step keeps the types.
LEMMA ProxyTypeStep == Proxied!SessionInv /\ [Proxied!Next]_Proxied!vars => Proxied!TypeOK' /\ Proxied!QueuesOK'
<1> SUFFICES ASSUME Proxied!SessionInv, [Proxied!Next]_Proxied!vars PROVE (Proxied!TypeOK /\ Proxied!QueuesOK)'
  OBVIOUS
<1>a. Proxied!TypeOK /\ Proxied!QueuesOK
  BY DEF Proxied!SessionInv
<1>c. /\ Ids \in Nat /\ Opened \in Nat /\ Texts \in Nat /\ Images \in Nat /\ \A b \in Proxied!Sock : Proxied!Id(b) \in Proxied!AllIds
      /\ 0 \in 0 .. Texts /\ 0 \in 0 .. Images
  BY ProxiedAssumption, FrameFacts DEF Proxied!ConstantsAssumption
<1> USE DEF Proxied!queues, Proxied!pages, Proxied!calls, Proxied!locals, Proxied!counts, Proxied!TypeOK
<1>1. ASSUME Proxied!PageReceives PROVE (Proxied!TypeOK /\ Proxied!QueuesOK)'
  <2> DEFINE f == Head(toPage)
             b == clients[f.id]
  <2>1. f.n \in 0 .. Images /\ f.id \in Proxied!AllIds
    BY <1>1, <1>a, PageReceivesCases DEF Proxied!PageFrame
  <2>2. Proxied!QueuesOK'
    BY <1>1, <1>a, PageReceivesCases DEF Proxied!QueuesOK
  <2>3. /\ bstate' \in [Proxied!Sock -> {"new", "connecting", "open", "closed"}]
        /\ clients' \in [Proxied!AllIds -> Proxied!Sock \cup {None}]
        /\ gotImage' \in [Proxied!Sock -> 0 .. Images]
    BY <1>1, <1>a, <2>1, PageReceivesCases
  <2>4. UNCHANGED <<link, toHost, hpc, http, client, opc, conns, lstate, reader, latest, stops, texts,
                    gotText, images, orphans, late>>
    BY <1>1, <1>a, PageReceivesCases
  <2> QED BY <1>a, <2>2, <2>3, <2>4
<1>2. ASSUME Proxied!Fetches PROVE (Proxied!TypeOK /\ Proxied!QueuesOK)'
  <2>1. Proxied!QueuesOK'
    BY <1>2, <1>a, SendTypes, OtherFacts DEF Proxied!Fetches, Proxied!QueuesOK
  <2> QED BY <1>2, <1>a, <2>1 DEF Proxied!Fetches
<1>3. ASSUME Proxied!PageLeaves PROVE (Proxied!TypeOK /\ Proxied!QueuesOK)'
  <2>1. Proxied!QueuesOK'
    BY <1>3, <1>a, SendTypes, OtherFacts DEF Proxied!PageLeaves, Proxied!QueuesOK
  <2> QED BY <1>3, <1>a, <2>1 DEF Proxied!PageLeaves
<1>4. ASSUME NEW b \in Proxied!Sock, Proxied!Opens(b) PROVE (Proxied!TypeOK /\ Proxied!QueuesOK)'
  <2>1. Proxied!QueuesOK'
    BY <1>4, <1>a, SendTypes, FrameFacts DEF Proxied!Opens, Proxied!QueuesOK, Proxied!Control
  <2> QED BY <1>4, <1>a, <1>c, <2>1 DEF Proxied!Opens
<1>5. ASSUME NEW b \in Proxied!Sock, Proxied!SendsText(b) PROVE (Proxied!TypeOK /\ Proxied!QueuesOK)'
  <2>1. texts[b] + 1 \in 0 .. Texts
    BY <1>5, <1>a, <1>c DEF Proxied!SendsText
  <2>2. Proxied!QueuesOK'
    BY <1>5, <1>a, <2>1, SendTypes, FrameFacts DEF Proxied!SendsText, Proxied!QueuesOK
  <2> QED BY <1>5, <1>a, <2>1, <2>2 DEF Proxied!SendsText
<1>6. ASSUME NEW b \in Proxied!Sock, Proxied!Closes(b) PROVE (Proxied!TypeOK /\ Proxied!QueuesOK)'
  <2>1. Proxied!QueuesOK'
    BY <1>6, <1>a, SendTypes, FrameFacts DEF Proxied!Closes, Proxied!QueuesOK, Proxied!Control
  <2> QED BY <1>6, <1>a, <1>c, <2>1 DEF Proxied!Closes
<1>7. ASSUME Proxied!HostReceives PROVE (Proxied!TypeOK /\ Proxied!QueuesOK)'
  <2> DEFINE f == Head(toHost)
  <2>1. Proxied!QueuesOK'
    BY <1>7, <1>a, HostReceivesCases DEF Proxied!QueuesOK
  <2>2. /\ http' \in {"none", "sent", "created", "asking", "done"}
        /\ opc' \in [Proxied!Sock -> {"none", "opening", "done"}]
        /\ conns' \in [Proxied!AllIds -> Proxied!Sock \cup {None}]
        /\ lstate' \in [Proxied!Sock -> {"none", "open", "closed"}]
        /\ gotText' \in [Proxied!Sock -> 0 .. Texts]
        /\ orphans' \subseteq Proxied!Sock
    <3>1. CASE f = Proxied!Other("http") /\ Proxied!RequestArrives(f)
      BY <3>1, <1>a DEF Proxied!RequestArrives
    <3>2. ASSUME f \in Proxied!HostFrame PROVE f.id \in Proxied!AllIds /\ f.from \in Proxied!Sock /\ f.n \in 0 .. Texts
      BY <3>2 DEF Proxied!HostFrame
    <3> HIDE DEF f
    <3>3. CASE f \in Proxied!HostFrame /\ Proxied!OpenArrives(f)
      BY <3>3, <3>2, <1>a DEF Proxied!OpenArrives
    <3>4. CASE f \in Proxied!HostFrame /\ Proxied!TextArrives(f)
      BY <3>4, <3>2, <1>a DEF Proxied!TextArrives
    <3>5. CASE f \in Proxied!HostFrame /\ Proxied!CloseArrives(f)
      BY <3>5, <3>2, <1>a DEF Proxied!CloseArrives
    <3> QED BY <1>7, <1>a, <3>1, <3>3, <3>4, <3>5, HostReceivesCases DEF f
  <2>3. UNCHANGED <<link, toPage, bstate, clients, hpc, client, reader, latest, stops, texts, images,
                    gotImage, late>>
    BY <1>7, <1>a, HostReceivesCases
  <2> QED BY <1>a, <2>1, <2>2, <2>3
<1>8. ASSUME Proxied!LinkDrops PROVE (Proxied!TypeOK /\ Proxied!QueuesOK)'
  <2>1. Proxied!QueuesOK'
    BY <1>8 DEF Proxied!LinkDrops, Proxied!QueuesOK
  <2> QED BY <1>8, <1>a, <2>1 DEF Proxied!LinkDrops
<1>9. ASSUME NEW b \in Proxied!Sock, Proxied!OpenSucceeds(b) PROVE (Proxied!TypeOK /\ Proxied!QueuesOK)'
  <2>1. Proxied!QueuesOK'
    BY <1>9, <1>a, SendTypes, FrameFacts DEF Proxied!OpenSucceeds, Proxied!QueuesOK, Proxied!Control
  <2> QED BY <1>9, <1>a, <1>c, <2>1 DEF Proxied!OpenSucceeds
<1>10. ASSUME NEW b \in Proxied!Sock, Proxied!OpenFails(b) PROVE (Proxied!TypeOK /\ Proxied!QueuesOK)'
  <2>1. Proxied!QueuesOK'
    BY <1>10, <1>a, SendTypes, FrameFacts DEF Proxied!OpenFails, Proxied!QueuesOK, Proxied!Control
  <2> QED BY <1>10, <1>a, <2>1 DEF Proxied!OpenFails
<1>11. ASSUME NEW b \in Proxied!Sock, Proxied!AppSendsImage(b) PROVE (Proxied!TypeOK /\ Proxied!QueuesOK)'
  BY <1>11, <1>a, <1>c, SMTT(30) DEF Proxied!AppSendsImage, Proxied!QueuesOK
<1>12. ASSUME NEW b \in Proxied!Sock, Proxied!AppCloses(b) PROVE (Proxied!TypeOK /\ Proxied!QueuesOK)'
  BY <1>12, <1>a DEF Proxied!AppCloses, Proxied!QueuesOK
<1>13. ASSUME NEW b \in Proxied!Sock, Proxied!TextRaises(b) PROVE (Proxied!TypeOK /\ Proxied!QueuesOK)'
  BY <1>13, <1>a, <1>c DEF Proxied!TextRaises, Proxied!QueuesOK
<1>14. ASSUME NEW b \in Proxied!Sock, Proxied!SenderSends(b) PROVE (Proxied!TypeOK /\ Proxied!QueuesOK)'
  <2>1. Proxied!QueuesOK'
    BY <1>14, <1>a, SendTypes, FrameFacts DEF Proxied!SenderSends, Proxied!QueuesOK
  <2> QED BY <1>14, <1>a, <1>c, <2>1 DEF Proxied!SenderSends
<1>15. ASSUME NEW b \in Proxied!Sock, Proxied!ReaderEnds(b) PROVE (Proxied!TypeOK /\ Proxied!QueuesOK)'
  <2>1. Proxied!QueuesOK'
    BY <1>15, <1>a, SendTypes, FrameFacts DEF Proxied!ReaderEnds, Proxied!QueuesOK, Proxied!Control
  <2> QED BY <1>15, <1>a, <1>c, <2>1 DEF Proxied!ReaderEnds
<1>16. ASSUME Proxied!RequestStarts PROVE (Proxied!TypeOK /\ Proxied!QueuesOK)'
  BY <1>16, <1>a DEF Proxied!RequestStarts, Proxied!QueuesOK
<1>17. ASSUME Proxied!RequestEnds PROVE (Proxied!TypeOK /\ Proxied!QueuesOK)'
  BY <1>17, <1>a DEF Proxied!RequestEnds, Proxied!QueuesOK
<1>18. ASSUME Proxied!StopBegins, UNCHANGED Proxied!queues PROVE (Proxied!TypeOK /\ Proxied!QueuesOK)'
  <2>1. stops' \subseteq Proxied!Sock /\ late' \subseteq {0} \cup Proxied!Sock
    BY <1>18, <1>a DEF Proxied!StopBegins
  <2> QED BY <1>18, <1>a, <2>1 DEF Proxied!StopBegins, Proxied!QueuesOK
<1>19. ASSUME NEW b \in Proxied!Sock, Proxied!StopCloses(b) PROVE (Proxied!TypeOK /\ Proxied!QueuesOK)'
  BY <1>19, <1>a DEF Proxied!StopCloses, Proxied!QueuesOK
<1>20. ASSUME Proxied!StopClears PROVE (Proxied!TypeOK /\ Proxied!QueuesOK)'
  BY <1>20, <1>a DEF Proxied!StopClears, Proxied!QueuesOK
<1>21. ASSUME Proxied!StopEnds PROVE (Proxied!TypeOK /\ Proxied!QueuesOK)'
  BY <1>21, <1>a DEF Proxied!StopEnds, Proxied!QueuesOK
<1>22. ASSUME UNCHANGED Proxied!vars PROVE (Proxied!TypeOK /\ Proxied!QueuesOK)'
  BY <1>22, <1>a DEF Proxied!vars, Proxied!QueuesOK
<1> QED
  BY <1>1, <1>2, <1>3, <1>4, <1>5, <1>6, <1>7, <1>8, <1>9, <1>10, <1>11, <1>12, <1>13, <1>14, <1>15,
     <1>16, <1>17, <1>18, <1>19, <1>20, <1>21, <1>22, ProxyCases

\* Where the frames of socket b stand after a message was sent, and after the
\* oldest was taken.
LEMMA HostQueue ==
  ASSUME Proxied!QueuesOK, NEW b
  PROVE  /\ \A m \in Proxied!HostFrame \cup {Proxied!Other("http"), Proxied!Other("leave")} : Proxied!ToHost(m) =>
              /\ \A k \in Proxied!ToHostOf(b)' : \/ k \in Proxied!ToHostOf(b) /\ toHost'[k] = toHost[k]
                                                 \/ /\ m \in Proxied!HostFrame /\ m.from = b
                                                    /\ k = Len(toHost) + 1 /\ toHost'[k] = m
              /\ \A k \in Proxied!ToHostOf(b) : k \in Proxied!ToHostOf(b)' /\ toHost'[k] = toHost[k] /\ k < Len(toHost) + 1
              /\ m \in Proxied!HostFrame /\ m.from = b => Len(toHost) + 1 \in Proxied!ToHostOf(b)' /\ toHost'[Len(toHost) + 1] = m
         /\ toHost # <<>> /\ toHost' = Tail(toHost) =>
              /\ \A k \in Proxied!ToHostOf(b)' : k + 1 \in Proxied!ToHostOf(b) /\ 1 < k + 1 /\ k \in Nat /\ toHost'[k] = toHost[k + 1]
              /\ \A k \in Proxied!ToHostOf(b) : k # 1 => k - 1 \in Proxied!ToHostOf(b)' /\ toHost'[k - 1] = toHost[k]
         /\ toHost' = toHost => Proxied!ToHostOf(b)' = Proxied!ToHostOf(b)
         /\ toHost' = <<>> => Proxied!ToHostOf(b)' = {}
<1> DEFINE T == Proxied!HostFrame \cup {Proxied!Other("http"), Proxied!Other("leave")}
<1>1. toHost \in Seq(T)
  BY DEF Proxied!QueuesOK
<1>2. ASSUME NEW m \in T, Proxied!ToHost(m)
      PROVE  /\ \A k \in Proxied!ToHostOf(b)' : \/ k \in Proxied!ToHostOf(b) /\ toHost'[k] = toHost[k]
                                                \/ /\ m \in Proxied!HostFrame /\ m.from = b
                                                   /\ k = Len(toHost) + 1 /\ toHost'[k] = m
             /\ \A k \in Proxied!ToHostOf(b) : k \in Proxied!ToHostOf(b)' /\ toHost'[k] = toHost[k] /\ k < Len(toHost) + 1
             /\ m \in Proxied!HostFrame /\ m.from = b => Len(toHost) + 1 \in Proxied!ToHostOf(b)' /\ toHost'[Len(toHost) + 1] = m
  <2>1. toHost' = Append(toHost, m)
    BY <1>2 DEF Proxied!ToHost
  <2> HIDE DEF T
  <2> QED BY <1>1, <2>1, QueueFacts DEF Proxied!ToHostOf
<1>3. ASSUME toHost # <<>>, toHost' = Tail(toHost)
      PROVE  /\ \A k \in Proxied!ToHostOf(b)' : k + 1 \in Proxied!ToHostOf(b) /\ 1 < k + 1 /\ k \in Nat /\ toHost'[k] = toHost[k + 1]
             /\ \A k \in Proxied!ToHostOf(b) : k # 1 => k - 1 \in Proxied!ToHostOf(b)' /\ toHost'[k - 1] = toHost[k]
  <2> HIDE DEF T
  <2> QED BY <1>1, <1>3, QueueFacts DEF Proxied!ToHostOf
<1>4. toHost' = toHost => Proxied!ToHostOf(b)' = Proxied!ToHostOf(b)
  BY DEF Proxied!ToHostOf
<1>5. toHost' = <<>> => Proxied!ToHostOf(b)' = {}
  BY DEF Proxied!ToHostOf
<1> QED BY <1>2, <1>3, <1>4, <1>5

LEMMA PageQueue ==
  ASSUME Proxied!QueuesOK, NEW b
  PROVE  /\ \A m \in Proxied!PageFrame : Proxied!ToPage(m) =>
              /\ \A k \in Proxied!ToPageOf(b)' : \/ k \in Proxied!ToPageOf(b) /\ toPage'[k] = toPage[k]
                                                 \/ m.from = b /\ k = Len(toPage) + 1 /\ toPage'[k] = m
              /\ \A k \in Proxied!ToPageOf(b) : k < Len(toPage) + 1
         /\ toPage # <<>> /\ toPage' = Tail(toPage) =>
              \A k \in Proxied!ToPageOf(b)' : k + 1 \in Proxied!ToPageOf(b) /\ 1 < k + 1 /\ k \in Nat /\ toPage'[k] = toPage[k + 1]
         /\ toPage' = toPage => Proxied!ToPageOf(b)' = Proxied!ToPageOf(b)
         /\ toPage' = <<>> => Proxied!ToPageOf(b)' = {}
         /\ \A k \in Proxied!ToPageOf(b) : k \in Nat /\ toPage[k] \in Proxied!PageFrame
<1>1. toPage \in Seq(Proxied!PageFrame)
  BY DEF Proxied!QueuesOK
<1>2. ASSUME NEW m \in Proxied!PageFrame, Proxied!ToPage(m)
      PROVE  /\ \A k \in Proxied!ToPageOf(b)' : \/ k \in Proxied!ToPageOf(b) /\ toPage'[k] = toPage[k]
                                                \/ m.from = b /\ k = Len(toPage) + 1 /\ toPage'[k] = m
             /\ \A k \in Proxied!ToPageOf(b) : k < Len(toPage) + 1
  <2>1. toPage' = Append(toPage, m) \/ toPage' = toPage
    BY <1>2 DEF Proxied!ToPage
  <2> QED BY <1>1, <2>1, QueueFacts DEF Proxied!ToPageOf
<1>3. ASSUME toPage # <<>>, toPage' = Tail(toPage)
      PROVE  \A k \in Proxied!ToPageOf(b)' : k + 1 \in Proxied!ToPageOf(b) /\ 1 < k + 1 /\ k \in Nat /\ toPage'[k] = toPage[k + 1]
  BY <1>1, <1>3, QueueFacts DEF Proxied!ToPageOf
<1>4. toPage' = toPage => Proxied!ToPageOf(b)' = Proxied!ToPageOf(b)
  BY DEF Proxied!ToPageOf
<1>5. toPage' = <<>> => Proxied!ToPageOf(b)' = {}
  BY DEF Proxied!ToPageOf
<1>6. \A k \in Proxied!ToPageOf(b) : k \in Nat /\ toPage[k] \in Proxied!PageFrame
  BY <1>1, QueueFacts DEF Proxied!ToPageOf
<1> QED BY <1>2, <1>3, <1>4, <1>5, <1>6

\* An open local socket stays known, or to be closed, or late, until it is
\* closed: an id that is forgotten is that of a closed one.
LEMMA StopKnowsStep == Proxied!SessionInv /\ [Proxied!Next]_Proxied!vars => Proxied!StopKnows'
<1> SUFFICES ASSUME Proxied!SessionInv, [Proxied!Next]_Proxied!vars PROVE Proxied!StopKnows'
  OBVIOUS
<1>a. Proxied!TypeOK /\ Proxied!QueuesOK /\ Proxied!OnePerId /\ Proxied!SocketsKnown /\ Proxied!StopKnows
  BY DEF Proxied!SessionInv
<1>i. \A b \in Proxied!Sock : Proxied!Id(b) \in Proxied!AllIds /\ b # None
  BY FrameFacts
<1>b. ASSUME UNCHANGED <<hpc, http, client, opc, conns, lstate, stops, late>> PROVE Proxied!StopKnows'
  BY <1>a, <1>b DEF Proxied!StopKnows
<1>f. ASSUME NEW b \in Proxied!Sock, opc[b] = "opening" \/ reader[b] = "reading" \/ conns[Proxied!Id(b)] = b
      PROVE  \A a \in Proxied!Sock : conns[Proxied!Id(a)] = a /\ Proxied!Id(a) = Proxied!Id(b) => a = b
  BY <1>a, <1>f DEF Proxied!OnePerId, Proxied!Uses
<1> USE DEF Proxied!queues, Proxied!pages, Proxied!calls, Proxied!locals, Proxied!counts
<1>1. ASSUME Proxied!PageReceives PROVE Proxied!StopKnows'
  BY <1>1, <1>b DEF Proxied!PageReceives
<1>2. ASSUME Proxied!Fetches PROVE Proxied!StopKnows'
  BY <1>2, <1>a DEF Proxied!Fetches, Proxied!StopKnows
<1>3. ASSUME Proxied!PageLeaves PROVE Proxied!StopKnows'
  BY <1>3, <1>b DEF Proxied!PageLeaves
<1>4. ASSUME NEW b \in Proxied!Sock, Proxied!Opens(b) PROVE Proxied!StopKnows'
  BY <1>4, <1>b DEF Proxied!Opens
<1>5. ASSUME NEW b \in Proxied!Sock, Proxied!SendsText(b) PROVE Proxied!StopKnows'
  BY <1>5, <1>b DEF Proxied!SendsText
<1>6. ASSUME NEW b \in Proxied!Sock, Proxied!Closes(b) PROVE Proxied!StopKnows'
  BY <1>6, <1>b DEF Proxied!Closes
<1>7. ASSUME Proxied!HostReceives PROVE Proxied!StopKnows'
  <2> DEFINE f == Head(toHost)
  <2>1. hpc = "running" /\ UNCHANGED <<hpc, client, stops, late>>
    BY <1>7, <1>a, HostReceivesCases
  <2>2. \A b \in Proxied!Sock : lstate'[b] = "open" => lstate[b] = "open" /\ (conns[Proxied!Id(b)] = b => conns'[Proxied!Id(b)] = b)
    <3>1. CASE UNCHANGED <<conns, lstate>>
      BY <3>1
    <3>2. CASE f \in Proxied!HostFrame /\ Proxied!CloseArrives(f)
      <4>1. /\ f.id \in Proxied!AllIds /\ conns' = [conns EXCEPT ![f.id] = None]
            /\ lstate' = IF conns[f.id] # None THEN [lstate EXCEPT ![conns[f.id]] = "closed"] ELSE lstate
        BY <3>2 DEF Proxied!CloseArrives, Proxied!HostFrame
      <4> HIDE DEF f
      <4>2. conns[f.id] # None => lstate' = [lstate EXCEPT ![conns[f.id]] = "closed"] /\ conns[f.id] \in Proxied!Sock
        BY <1>a, <4>1 DEF Proxied!TypeOK
      <4> SUFFICES ASSUME NEW b \in Proxied!Sock, lstate'[b] = "open"
                   PROVE  lstate[b] = "open" /\ (conns[Proxied!Id(b)] = b => conns'[Proxied!Id(b)] = b)
        OBVIOUS
      <4>3. lstate[b] = "open"
        BY <1>a, <4>1, <4>2 DEF Proxied!TypeOK
      <4>4. conns[f.id] # b
        BY <1>a, <1>i, <4>1, <4>2 DEF Proxied!TypeOK
      <4>5. conns[Proxied!Id(b)] = b => conns'[Proxied!Id(b)] = b
        BY <1>a, <1>i, <4>1, <4>4 DEF Proxied!TypeOK
      <4> QED BY <4>3, <4>5
    <3>3. Proxied!RequestArrives(f) \/ Proxied!OpenArrives(f) \/ Proxied!TextArrives(f) => UNCHANGED <<conns, lstate>>
      BY DEF Proxied!RequestArrives, Proxied!OpenArrives, Proxied!TextArrives
    <3> QED BY <1>7, <1>a, <3>1, <3>2, <3>3, HostReceivesCases
  <2> QED BY <1>a, <2>1, <2>2 DEF Proxied!StopKnows
<1>8. ASSUME Proxied!LinkDrops PROVE Proxied!StopKnows'
  BY <1>8, <1>b DEF Proxied!LinkDrops
<1>9. ASSUME NEW b \in Proxied!Sock, Proxied!OpenSucceeds(b) PROVE Proxied!StopKnows'
  <2>1. /\ opc[b] = "opening" /\ opc' = [opc EXCEPT ![b] = "done"] /\ lstate' = [lstate EXCEPT ![b] = "open"]
        /\ conns' = [conns EXCEPT ![Proxied!Id(b)] = b] /\ UNCHANGED <<hpc, http, client, stops, late>>
    BY <1>9 DEF Proxied!OpenSucceeds
  <2>2. conns'[Proxied!Id(b)] = b
    BY <1>a, <1>i, <2>1 DEF Proxied!TypeOK
  <2>3. \A a \in Proxied!Sock : conns[Proxied!Id(a)] = a => conns'[Proxied!Id(a)] = a
    <3> SUFFICES ASSUME NEW a \in Proxied!Sock, conns[Proxied!Id(a)] = a PROVE conns'[Proxied!Id(a)] = a
      OBVIOUS
    <3>1. CASE Proxied!Id(a) = Proxied!Id(b)
      BY <1>f, <2>1, <2>2, <3>1
    <3>2. CASE Proxied!Id(a) # Proxied!Id(b)
      BY <1>a, <1>i, <2>1, <3>2 DEF Proxied!TypeOK
    <3> QED BY <3>1, <3>2
  <2>4. \A a \in Proxied!Sock : a # b => lstate'[a] = lstate[a] /\ opc'[a] = opc[a]
    BY <1>a, <2>1 DEF Proxied!TypeOK
  <2>5. opc'[b] = "done"
    BY <1>a, <2>1 DEF Proxied!TypeOK
  <2> QED BY <1>a, <2>1, <2>2, <2>3, <2>4, <2>5 DEF Proxied!StopKnows, Proxied!TypeOK
<1>10. ASSUME NEW b \in Proxied!Sock, Proxied!OpenFails(b) PROVE Proxied!StopKnows'
  BY <1>10, <1>a DEF Proxied!OpenFails, Proxied!StopKnows, Proxied!TypeOK
<1>11. ASSUME NEW b \in Proxied!Sock, Proxied!AppSendsImage(b) PROVE Proxied!StopKnows'
  BY <1>11, <1>b DEF Proxied!AppSendsImage
<1>12. ASSUME NEW b \in Proxied!Sock, Proxied!AppCloses(b) PROVE Proxied!StopKnows'
  BY <1>12, <1>a DEF Proxied!AppCloses, Proxied!StopKnows, Proxied!TypeOK
<1>13. ASSUME NEW b \in Proxied!Sock, Proxied!TextRaises(b) PROVE Proxied!StopKnows'
  <2>1. /\ reader[b] = "reading" /\ conns' = [conns EXCEPT ![Proxied!Id(b)] = None] /\ late' = late \cup {b}
        /\ UNCHANGED <<hpc, http, client, opc, lstate, stops>>
    BY <1>13 DEF Proxied!TextRaises
  <2>2. \A a \in Proxied!Sock : conns[Proxied!Id(a)] = a => a = b \/ conns'[Proxied!Id(a)] = a
    BY <1>a, <1>f, <1>i, <2>1 DEF Proxied!TypeOK
  <2> QED BY <1>a, <2>1, <2>2 DEF Proxied!StopKnows
<1>14. ASSUME NEW b \in Proxied!Sock, Proxied!SenderSends(b) PROVE Proxied!StopKnows'
  BY <1>14, <1>b DEF Proxied!SenderSends
<1>15. ASSUME NEW b \in Proxied!Sock, Proxied!ReaderEnds(b) PROVE Proxied!StopKnows'
  <2>1. /\ reader[b] = "reading" /\ lstate[b] = "closed" /\ conns' = [conns EXCEPT ![Proxied!Id(b)] = None]
        /\ UNCHANGED <<hpc, http, client, opc, lstate, stops, late>>
    BY <1>15 DEF Proxied!ReaderEnds
  <2>2. \A a \in Proxied!Sock : conns[Proxied!Id(a)] = a => a = b \/ conns'[Proxied!Id(a)] = a
    BY <1>a, <1>f, <1>i, <2>1 DEF Proxied!TypeOK
  <2> QED BY <1>a, <2>1, <2>2 DEF Proxied!StopKnows
<1>16. ASSUME Proxied!RequestStarts PROVE Proxied!StopKnows'
  BY <1>16, <1>a DEF Proxied!RequestStarts, Proxied!StopKnows, Proxied!TypeOK
<1>17. ASSUME Proxied!RequestEnds PROVE Proxied!StopKnows'
  BY <1>17, <1>a DEF Proxied!RequestEnds, Proxied!StopKnows
<1>18. ASSUME Proxied!StopBegins, UNCHANGED Proxied!queues PROVE Proxied!StopKnows'
  <2>1. /\ hpc = "running" /\ hpc' = "stopping" /\ stops' = {conns[i] : i \in Proxied!AllIds} \ {None}
        /\ UNCHANGED <<http, client, opc, conns, lstate>> /\ late \subseteq late'
        /\ \A b \in Proxied!Sock : opc[b] = "opening" => b \in late'
        /\ http = "created" => 0 \in late'
    BY <1>18 DEF Proxied!StopBegins
  <2>2. \A b \in Proxied!Sock : conns[Proxied!Id(b)] = b => b \in stops'
    BY <1>i, <2>1
  <2> QED BY <1>a, <2>1, <2>2 DEF Proxied!StopKnows
<1>19. ASSUME NEW b \in Proxied!Sock, Proxied!StopCloses(b) PROVE Proxied!StopKnows'
  BY <1>19, <1>a DEF Proxied!StopCloses, Proxied!StopKnows, Proxied!TypeOK
<1>20. ASSUME Proxied!StopClears PROVE Proxied!StopKnows'
  BY <1>20, <1>a DEF Proxied!StopClears, Proxied!StopKnows
<1>21. ASSUME Proxied!StopEnds PROVE Proxied!StopKnows'
  BY <1>21, <1>a DEF Proxied!StopEnds, Proxied!StopKnows
<1>22. ASSUME UNCHANGED Proxied!vars PROVE Proxied!StopKnows'
  BY <1>22, <1>b DEF Proxied!vars
<1> QED
  BY <1>1, <1>2, <1>3, <1>4, <1>5, <1>6, <1>7, <1>8, <1>9, <1>10, <1>11, <1>12, <1>13, <1>14, <1>15,
     <1>16, <1>17, <1>18, <1>19, <1>20, <1>21, <1>22, ProxyCases

\* Nothing gets hold of an id that it did not hold already, but a socket that
\* is opened, when nothing holds its id.
LEMMA OnePerIdStep == Proxied!SessionInv /\ [Proxied!Next]_Proxied!vars => Proxied!OnePerId'
<1> SUFFICES ASSUME Proxied!SessionInv, [Proxied!Next]_Proxied!vars PROVE Proxied!OnePerId'
  OBVIOUS
<1>a. Proxied!TypeOK /\ Proxied!QueuesOK /\ Proxied!OnePerId /\ Proxied!SocketsKnown /\ Proxied!ImagesInOrder
  BY DEF Proxied!SessionInv
<1>i. \A b \in Proxied!Sock : Proxied!Id(b) \in Proxied!AllIds /\ b # None
  BY FrameFacts
<1>b. ASSUME \A b \in Proxied!Sock : Proxied!Uses(b)' => Proxied!Uses(b) PROVE Proxied!OnePerId'
  BY <1>a, <1>b DEF Proxied!OnePerId
<1>u. \A b \in Proxied!Sock : (\/ clients[Proxied!Id(b)] = b \/ conns[Proxied!Id(b)] = b
                       \/ opc[b] = "opening" \/ reader[b] = "reading"
                       \/ Proxied!ToHostOf(b) # {} \/ Proxied!ToPageOf(b) # {}) => Proxied!Uses(b)
  BY DEF Proxied!Uses
<1>c. ASSUME UNCHANGED <<clients, conns, opc, reader>>,
             \A b \in Proxied!Sock : Proxied!ToHostOf(b)' # {} => Proxied!Uses(b),
             \A b \in Proxied!Sock : Proxied!ToPageOf(b)' # {} => Proxied!Uses(b)
      PROVE  Proxied!OnePerId'
  BY <1>b, <1>c, <1>u DEF Proxied!Uses
<1>h. toHost' = toHost \/ toHost' = <<>> => \A b \in Proxied!Sock : Proxied!ToHostOf(b)' # {} => Proxied!Uses(b)
  BY <1>a, <1>u, HostQueue
<1>p. toPage' = toPage \/ toPage' = <<>> => \A b \in Proxied!Sock : Proxied!ToPageOf(b)' # {} => Proxied!Uses(b)
  BY <1>a, <1>u, PageQueue
<1>s. ASSUME NEW a \in Proxied!Sock, Proxied!Uses(a), NEW m \in Proxied!PageFrame, m.from = a, Proxied!ToPage(m)
      PROVE  \A b \in Proxied!Sock : Proxied!ToPageOf(b)' # {} => Proxied!Uses(b)
  BY <1>a, <1>s, <1>u, PageQueue
<1>t. ASSUME NEW a \in Proxied!Sock, NEW m \in Proxied!HostFrame, m.from = a, Proxied!ToHost(m)
      PROVE  \A b \in Proxied!Sock : Proxied!ToHostOf(b)' # {} => b = a \/ Proxied!Uses(b)
  BY <1>a, <1>t, <1>u, HostQueue
<1> USE DEF Proxied!queues, Proxied!pages, Proxied!calls, Proxied!locals, Proxied!counts
<1>1. ASSUME Proxied!PageReceives PROVE Proxied!OnePerId'
  <2>1. UNCHANGED <<conns, opc, reader, toHost>> /\ toPage # <<>> /\ toPage' = Tail(toPage)
    BY <1>1, <1>a, PageReceivesCases
  <2>2. \A b \in Proxied!Sock : clients'[Proxied!Id(b)] = b => clients[Proxied!Id(b)] = b
    <3>1. clients' = clients \/ clients' = [clients EXCEPT ![Head(toPage).id] = None]
      BY <1>1, <1>a, PageReceivesCases
    <3> QED BY <1>a, <1>i, <3>1 DEF Proxied!TypeOK
  <2>3. \A b \in Proxied!Sock : Proxied!ToPageOf(b)' # {} => Proxied!Uses(b)
    BY <1>a, <1>u, <2>1, PageQueue
  <2> QED BY <1>b, <1>h, <1>u, <2>1, <2>2, <2>3 DEF Proxied!Uses
<1>2. ASSUME Proxied!Fetches PROVE Proxied!OnePerId'
  <2>1. \A b \in Proxied!Sock : Proxied!ToHostOf(b)' # {} => Proxied!Uses(b)
    BY <1>2, <1>a, <1>u, HostQueue, OtherFacts DEF Proxied!Fetches
  <2> QED BY <1>2, <1>c, <1>p, <2>1 DEF Proxied!Fetches
<1>3. ASSUME Proxied!PageLeaves PROVE Proxied!OnePerId'
  <2>1. \A b \in Proxied!Sock : Proxied!ToHostOf(b)' # {} => Proxied!Uses(b)
    BY <1>3, <1>a, <1>u, HostQueue, OtherFacts DEF Proxied!PageLeaves
  <2> QED BY <1>3, <1>c, <1>p, <2>1 DEF Proxied!PageLeaves
<1>4. ASSUME NEW b \in Proxied!Sock, Proxied!Opens(b) PROVE Proxied!OnePerId'
  <2>1. /\ ~Proxied!InUse(b) /\ clients' = [clients EXCEPT ![Proxied!Id(b)] = b] /\ Proxied!ToHost(Proxied!Control("ws_open", b))
        /\ UNCHANGED <<toPage, conns, opc, reader>>
    BY <1>4 DEF Proxied!Opens
  <2>2. \A a \in Proxied!Sock : Proxied!Id(a) = Proxied!Id(b) => ~Proxied!Uses(a)
    <3> SUFFICES ASSUME NEW a \in Proxied!Sock, Proxied!Id(a) = Proxied!Id(b), Proxied!Uses(a) PROVE FALSE
      OBVIOUS
    <3>1. Proxied!ToHostOf(a) = {} /\ Proxied!ToPageOf(a) = {}
      <4>1. \A k \in Proxied!ToHostOf(a) : k \in DOMAIN toHost /\ toHost[k].id = Proxied!Id(b)
        BY DEF Proxied!ToHostOf, Proxied!HostFrame
      <4>2. \A k \in Proxied!ToPageOf(a) : k \in DOMAIN toPage /\ toPage[k].id = Proxied!Id(b)
        BY <1>a, PageQueue DEF Proxied!ToPageOf, Proxied!PageFrame
      <4> QED BY <2>1, <4>1, <4>2 DEF Proxied!InUse
    <3> QED BY <1>i, <2>1, <3>1 DEF Proxied!InUse, Proxied!Uses
  <2>3. \A a \in Proxied!Sock : Proxied!Uses(a)' => a = b \/ Proxied!Uses(a)
    <3>1. \A a \in Proxied!Sock : clients'[Proxied!Id(a)] = a => a = b \/ clients[Proxied!Id(a)] = a
      BY <1>a, <1>i, <2>1 DEF Proxied!TypeOK
    <3>2. \A a \in Proxied!Sock : Proxied!ToHostOf(a)' # {} => a = b \/ Proxied!Uses(a)
      BY <1>t, <2>1, FrameFacts DEF Proxied!Control
    <3> QED BY <1>p, <1>u, <2>1, <3>1, <3>2 DEF Proxied!Uses
  <2> QED BY <1>a, <2>2, <2>3 DEF Proxied!OnePerId
<1>5. ASSUME NEW b \in Proxied!Sock, Proxied!SendsText(b) PROVE Proxied!OnePerId'
  <2>1. Proxied!Uses(b)
    BY <1>5, <1>a, <1>u DEF Proxied!SendsText, Proxied!SocketsKnown
  <2>2. Proxied!Frame("ws_text", b, texts[b] + 1) \in Proxied!HostFrame /\ Proxied!Frame("ws_text", b, texts[b] + 1).from = b
    <3>1. texts[b] + 1 \in 0 .. Texts
      BY <1>5, <1>a, ProxiedAssumption DEF Proxied!SendsText, Proxied!TypeOK, Proxied!ConstantsAssumption
    <3> QED BY <3>1, FrameFacts
  <2>3. Proxied!ToHost(Proxied!Frame("ws_text", b, texts[b] + 1)) /\ UNCHANGED <<toPage, clients, conns, opc, reader>>
    BY <1>5 DEF Proxied!SendsText
  <2>4. \A a \in Proxied!Sock : Proxied!ToHostOf(a)' # {} => Proxied!Uses(a)
    BY <1>t, <2>1, <2>2, <2>3
  <2> QED BY <1>c, <1>p, <2>3, <2>4
<1>6. ASSUME NEW b \in Proxied!Sock, Proxied!Closes(b) PROVE Proxied!OnePerId'
  <2>1. Proxied!Uses(b)
    BY <1>6, <1>a, <1>u DEF Proxied!Closes, Proxied!SocketsKnown
  <2>2. \A a \in Proxied!Sock : Proxied!ToHostOf(a)' # {} => Proxied!Uses(a)
    BY <1>6, <1>t, <2>1, FrameFacts DEF Proxied!Closes, Proxied!Control
  <2>3. \A a \in Proxied!Sock : clients'[Proxied!Id(a)] = a => clients[Proxied!Id(a)] = a
    BY <1>6, <1>a, <1>i DEF Proxied!Closes, Proxied!TypeOK
  <2>4. UNCHANGED <<toPage, conns, opc, reader>>
    BY <1>6 DEF Proxied!Closes
  <2> QED BY <1>b, <1>p, <1>u, <2>2, <2>3, <2>4 DEF Proxied!Uses
<1>7. ASSUME Proxied!HostReceives PROVE Proxied!OnePerId'
  <2> DEFINE f == Head(toHost)
  <2>1. UNCHANGED <<toPage, clients, reader>> /\ toHost # <<>> /\ toHost' = Tail(toHost)
    BY <1>7, <1>a, HostReceivesCases
  <2>2. \A b \in Proxied!Sock : Proxied!ToHostOf(b)' # {} => Proxied!Uses(b)
    BY <1>a, <1>u, <2>1, HostQueue
  <2>3. \A b \in Proxied!Sock : (conns'[Proxied!Id(b)] = b => conns[Proxied!Id(b)] = b) /\ (opc'[b] = "opening" => Proxied!Uses(b))
    <3>1. Proxied!RequestArrives(f) \/ Proxied!TextArrives(f) => UNCHANGED <<conns, opc>>
      BY DEF Proxied!RequestArrives, Proxied!TextArrives
    <3>2. CASE f \in Proxied!HostFrame /\ Proxied!OpenArrives(f)
      <4>1. f.from \in Proxied!Sock /\ 1 \in Proxied!ToHostOf(f.from)
        <5>1. f = toHost[1] /\ 1 \in DOMAIN toHost
          BY <1>7, <1>a, HostReceivesCases
        <5> QED BY <3>2, <5>1 DEF Proxied!HostFrame, Proxied!ToHostOf
      <4>2. opc' = [opc EXCEPT ![f.from] = "opening"] /\ conns' = conns
        BY <3>2 DEF Proxied!OpenArrives
      <4> HIDE DEF f
      <4> QED BY <1>a, <1>u, <4>1, <4>2 DEF Proxied!TypeOK
    <3>3. CASE f \in Proxied!HostFrame /\ Proxied!CloseArrives(f)
      <4>1. f.id \in Proxied!AllIds /\ conns' = [conns EXCEPT ![f.id] = None] /\ opc' = opc
        BY <3>3 DEF Proxied!CloseArrives, Proxied!HostFrame
      <4> HIDE DEF f
      <4> QED BY <1>a, <1>i, <1>u, <4>1 DEF Proxied!TypeOK
    <3> QED BY <1>7, <1>a, <1>u, <3>1, <3>2, <3>3, HostReceivesCases
  <2> QED BY <1>b, <1>p, <1>u, <2>1, <2>2, <2>3 DEF Proxied!Uses
<1>8. ASSUME Proxied!LinkDrops PROVE Proxied!OnePerId'
  BY <1>8, <1>c, <1>h, <1>p DEF Proxied!LinkDrops
<1>9. ASSUME NEW b \in Proxied!Sock, Proxied!OpenSucceeds(b) PROVE Proxied!OnePerId'
  <2>1. /\ opc[b] = "opening" /\ opc' = [opc EXCEPT ![b] = "done"] /\ conns' = [conns EXCEPT ![Proxied!Id(b)] = b]
        /\ reader' = [reader EXCEPT ![b] = IF link = "lost" THEN "none" ELSE "reading"]
        /\ Proxied!ToPage(Proxied!Control("ws_ready", b)) /\ UNCHANGED <<toHost, clients>>
    BY <1>9 DEF Proxied!OpenSucceeds
  <2>2. Proxied!Uses(b)
    BY <1>u, <2>1
  <2>3. \A a \in Proxied!Sock : Proxied!ToPageOf(a)' # {} => Proxied!Uses(a)
    BY <1>s, <2>1, <2>2, FrameFacts DEF Proxied!Control
  <2>4. \A a \in Proxied!Sock : a # b => /\ conns'[Proxied!Id(a)] = a => conns[Proxied!Id(a)] = a
                                         /\ opc'[a] = opc[a] /\ reader'[a] = reader[a]
    BY <1>a, <1>i, <2>1 DEF Proxied!TypeOK
  <2> QED BY <1>b, <1>h, <1>u, <2>1, <2>2, <2>3, <2>4 DEF Proxied!Uses
<1>10. ASSUME NEW b \in Proxied!Sock, Proxied!OpenFails(b) PROVE Proxied!OnePerId'
  <2>1. /\ opc[b] = "opening" /\ opc' = [opc EXCEPT ![b] = "done"] /\ Proxied!ToPage(Proxied!Control("ws_close", b))
        /\ UNCHANGED <<toHost, clients, conns, reader>>
    BY <1>10 DEF Proxied!OpenFails
  <2>2. \A a \in Proxied!Sock : Proxied!ToPageOf(a)' # {} => Proxied!Uses(a)
    BY <1>s, <1>u, <2>1, FrameFacts DEF Proxied!Control
  <2>3. \A a \in Proxied!Sock : opc'[a] = "opening" => opc[a] = "opening"
    BY <1>a, <2>1 DEF Proxied!TypeOK
  <2> QED BY <1>b, <1>h, <1>u, <2>1, <2>2, <2>3 DEF Proxied!Uses
<1>11. ASSUME NEW b \in Proxied!Sock, Proxied!AppSendsImage(b) PROVE Proxied!OnePerId'
  BY <1>11, <1>c, <1>h, <1>p DEF Proxied!AppSendsImage
<1>12. ASSUME NEW b \in Proxied!Sock, Proxied!AppCloses(b) PROVE Proxied!OnePerId'
  BY <1>12, <1>c, <1>h, <1>p DEF Proxied!AppCloses
<1>13. ASSUME NEW b \in Proxied!Sock, Proxied!TextRaises(b) PROVE Proxied!OnePerId'
  <2>1. /\ conns' = [conns EXCEPT ![Proxied!Id(b)] = None] /\ reader' = [reader EXCEPT ![b] = "done"]
        /\ UNCHANGED <<toHost, toPage, clients, opc>>
    BY <1>13 DEF Proxied!TextRaises
  <2>2. \A a \in Proxied!Sock : /\ conns'[Proxied!Id(a)] = a => conns[Proxied!Id(a)] = a
                                /\ reader'[a] = "reading" => reader[a] = "reading"
    BY <1>a, <1>i, <2>1 DEF Proxied!TypeOK
  <2> QED BY <1>b, <1>h, <1>p, <1>u, <2>1, <2>2 DEF Proxied!Uses
<1>14. ASSUME NEW b \in Proxied!Sock, Proxied!SenderSends(b) PROVE Proxied!OnePerId'
  <2>1. /\ latest[b] # 0 /\ Proxied!ToPage(Proxied!Frame("binary", b, latest[b]))
        /\ UNCHANGED <<toHost, clients, conns, opc, reader>>
    BY <1>14 DEF Proxied!SenderSends
  <2>2. Proxied!Uses(b)
    BY <1>a, <1>u, <2>1 DEF Proxied!ImagesInOrder
  <2>3. Proxied!Frame("binary", b, latest[b]) \in Proxied!PageFrame /\ Proxied!Frame("binary", b, latest[b]).from = b
    BY <1>a, FrameFacts DEF Proxied!TypeOK
  <2>4. \A a \in Proxied!Sock : Proxied!ToPageOf(a)' # {} => Proxied!Uses(a)
    BY <1>s, <2>1, <2>2, <2>3
  <2> QED BY <1>c, <1>h, <2>1, <2>4
<1>15. ASSUME NEW b \in Proxied!Sock, Proxied!ReaderEnds(b) PROVE Proxied!OnePerId'
  <2>1. /\ reader[b] = "reading" /\ conns' = [conns EXCEPT ![Proxied!Id(b)] = None]
        /\ reader' = [reader EXCEPT ![b] = "done"] /\ Proxied!ToPage(Proxied!Control("ws_close", b))
        /\ UNCHANGED <<toHost, clients, opc>>
    BY <1>15 DEF Proxied!ReaderEnds
  <2>2. \A a \in Proxied!Sock : /\ conns'[Proxied!Id(a)] = a => conns[Proxied!Id(a)] = a
                                /\ reader'[a] = "reading" => reader[a] = "reading"
    BY <1>a, <1>i, <2>1 DEF Proxied!TypeOK
  <2>3. \A a \in Proxied!Sock : Proxied!ToPageOf(a)' # {} => Proxied!Uses(a)
    BY <1>s, <1>u, <2>1, FrameFacts DEF Proxied!Control
  <2> QED BY <1>b, <1>h, <1>u, <2>1, <2>2, <2>3 DEF Proxied!Uses
<1>16. ASSUME Proxied!RequestStarts PROVE Proxied!OnePerId'
  BY <1>16, <1>c, <1>h, <1>p DEF Proxied!RequestStarts
<1>17. ASSUME Proxied!RequestEnds PROVE Proxied!OnePerId'
  BY <1>17, <1>c, <1>h, <1>p DEF Proxied!RequestEnds
<1>18. ASSUME Proxied!StopBegins, UNCHANGED Proxied!queues PROVE Proxied!OnePerId'
  BY <1>18, <1>c, <1>h, <1>p DEF Proxied!StopBegins
<1>19. ASSUME NEW b \in Proxied!Sock, Proxied!StopCloses(b) PROVE Proxied!OnePerId'
  BY <1>19, <1>c, <1>h, <1>p DEF Proxied!StopCloses
<1>20. ASSUME Proxied!StopClears PROVE Proxied!OnePerId'
  <2>1. conns' = [i \in Proxied!AllIds |-> None] /\ UNCHANGED <<toHost, toPage, clients, opc, reader>>
    BY <1>20 DEF Proxied!StopClears
  <2>2. \A a \in Proxied!Sock : conns'[Proxied!Id(a)] # a
    BY <1>i, <2>1
  <2> QED BY <1>b, <1>h, <1>p, <1>u, <2>1, <2>2 DEF Proxied!Uses
<1>21. ASSUME Proxied!StopEnds PROVE Proxied!OnePerId'
  BY <1>21, <1>c, <1>h, <1>p DEF Proxied!StopEnds
<1>22. ASSUME UNCHANGED Proxied!vars PROVE Proxied!OnePerId'
  BY <1>22, <1>c, <1>h, <1>p DEF Proxied!vars
<1> QED
  BY <1>1, <1>2, <1>3, <1>4, <1>5, <1>6, <1>7, <1>8, <1>9, <1>10, <1>11, <1>12, <1>13, <1>14, <1>15,
     <1>16, <1>17, <1>18, <1>19, <1>20, <1>21, <1>22, ProxyCases

\* The tables of both sides name each socket under its own id: an entry is
\* made when its id is not in use.
TablesKnown ==
  /\ \A i \in Proxied!AllIds : clients[i] # None => Proxied!Id(clients[i]) = i /\ bstate[clients[i]] \in {"connecting", "open"}
  /\ \A i \in Proxied!AllIds : conns[i] # None => Proxied!Id(conns[i]) = i /\ lstate[conns[i]] # "none"
  /\ \A b \in stops : lstate[b] # "none"
  /\ \A b \in Proxied!Sock : bstate[b] \in {"connecting", "open"} => clients[Proxied!Id(b)] = b

LEMMA TablesStep == Proxied!SessionInv /\ [Proxied!Next]_Proxied!vars => TablesKnown'
<1> SUFFICES ASSUME Proxied!SessionInv, [Proxied!Next]_Proxied!vars PROVE TablesKnown'
  OBVIOUS
<1>a. Proxied!TypeOK /\ Proxied!QueuesOK /\ Proxied!SocketsKnown /\ TablesKnown
  BY DEF Proxied!SessionInv, Proxied!SocketsKnown, TablesKnown
<1>i. \A b \in Proxied!Sock : Proxied!Id(b) \in Proxied!AllIds /\ b # None
  BY FrameFacts
<1>b. ASSUME UNCHANGED <<bstate, clients, conns, stops>>, \A b \in Proxied!Sock : lstate[b] # "none" => lstate'[b] # "none"
      PROVE  TablesKnown'
  <2>1. \A i \in Proxied!AllIds : conns[i] # None => conns[i] \in Proxied!Sock
    BY <1>a DEF Proxied!TypeOK
  <2>2. \A b \in stops : b \in Proxied!Sock
    BY <1>a DEF Proxied!TypeOK
  <2> QED BY <1>a, <1>b, <2>1, <2>2 DEF TablesKnown
<1>c. ASSUME UNCHANGED <<bstate, clients, lstate, stops>>, NEW j \in Proxied!AllIds, conns' = [conns EXCEPT ![j] = None]
      PROVE  TablesKnown'
  <2>1. \A i \in Proxied!AllIds : conns'[i] # None => conns'[i] = conns[i]
    BY <1>a, <1>c DEF Proxied!TypeOK
  <2> QED BY <1>a, <1>c, <2>1 DEF TablesKnown
<1>d. ASSUME NEW b \in Proxied!Sock, clients[Proxied!Id(b)] = b, bstate' = [bstate EXCEPT ![b] = "closed"],
             clients' = [clients EXCEPT ![Proxied!Id(b)] = None], UNCHANGED <<conns, lstate, stops>>
      PROVE  TablesKnown'
  <2>1. \A i \in Proxied!AllIds : clients'[i] # None => i # Proxied!Id(b) /\ clients'[i] = clients[i] /\ clients[i] \in Proxied!Sock
    BY <1>a, <1>i, <1>d DEF Proxied!TypeOK
  <2>2. \A i \in Proxied!AllIds : clients'[i] # None => clients[i] # b
    BY <1>a, <1>i, <2>1 DEF TablesKnown
  <2>3. \A a \in Proxied!Sock : a # b => bstate'[a] = bstate[a]
    BY <1>a, <1>d DEF Proxied!TypeOK
  <2>4. \A a \in Proxied!Sock : bstate'[a] \in {"connecting", "open"} => a # b
    BY <1>a, <1>d DEF Proxied!TypeOK
  <2>5. \A a \in Proxied!Sock : a # b /\ clients[Proxied!Id(a)] = a => clients'[Proxied!Id(a)] = a
    BY <1>a, <1>i, <1>d DEF Proxied!TypeOK
  <2>6. \A i \in Proxied!AllIds : clients'[i] # None => Proxied!Id(clients'[i]) = i /\ bstate'[clients'[i]] \in {"connecting", "open"}
    BY <1>a, <2>1, <2>2, <2>3 DEF TablesKnown
  <2>7. \A a \in Proxied!Sock : bstate'[a] \in {"connecting", "open"} => clients'[Proxied!Id(a)] = a
    BY <1>a, <2>3, <2>4, <2>5 DEF TablesKnown
  <2> QED BY <1>a, <1>d, <2>6, <2>7 DEF TablesKnown
<1> USE DEF Proxied!queues, Proxied!pages, Proxied!calls, Proxied!locals, Proxied!counts
<1>1. ASSUME Proxied!PageReceives PROVE TablesKnown'
  <2> DEFINE f == Head(toPage)
             b == clients[f.id]
  <2>1. f.id \in Proxied!AllIds /\ UNCHANGED <<conns, lstate, stops>>
    BY <1>1, <1>a, PageReceivesCases DEF Proxied!PageFrame
  <2>2. \/ UNCHANGED <<bstate, clients>>
        \/ b \in Proxied!Sock /\ bstate' = [bstate EXCEPT ![b] = "open"] /\ UNCHANGED clients
        \/ b \in Proxied!Sock /\ bstate' = [bstate EXCEPT ![b] = "closed"] /\ clients' = [clients EXCEPT ![f.id] = None]
    BY <1>1, <1>a, PageReceivesCases
  <2>3. b \in Proxied!Sock => f.id = Proxied!Id(b) /\ bstate[b] \in {"connecting", "open"}
    BY <1>a, <1>i, <2>1 DEF TablesKnown
  <2> HIDE DEF f, b
  <2>4. CASE UNCHANGED <<bstate, clients>>
    BY <1>a, <2>1, <2>4 DEF TablesKnown
  <2>5. CASE b \in Proxied!Sock /\ bstate' = [bstate EXCEPT ![b] = "open"] /\ UNCHANGED clients
    <3>1. \A a \in Proxied!Sock : /\ bstate[a] \in {"connecting", "open"} => bstate'[a] \in {"connecting", "open"}
                                  /\ bstate'[a] \in {"connecting", "open"} => bstate[a] \in {"connecting", "open"}
      BY <1>a, <2>3, <2>5 DEF Proxied!TypeOK
    <3>2. \A i \in Proxied!AllIds : clients[i] # None => clients[i] \in Proxied!Sock
      BY <1>a DEF Proxied!TypeOK
    <3> QED BY <1>a, <2>1, <2>5, <3>1, <3>2 DEF TablesKnown
  <2>6. CASE b \in Proxied!Sock /\ bstate' = [bstate EXCEPT ![b] = "closed"] /\ clients' = [clients EXCEPT ![f.id] = None]
    BY <1>a, <1>d, <2>1, <2>3, <2>6 DEF TablesKnown
  <2> QED BY <2>2, <2>4, <2>5, <2>6
<1>2. ASSUME Proxied!Fetches PROVE TablesKnown'
  BY <1>2, <1>b DEF Proxied!Fetches
<1>3. ASSUME Proxied!PageLeaves PROVE TablesKnown'
  BY <1>3, <1>b DEF Proxied!PageLeaves
<1>4. ASSUME NEW b \in Proxied!Sock, Proxied!Opens(b) PROVE TablesKnown'
  <2>1. /\ clients[Proxied!Id(b)] = None /\ bstate' = [bstate EXCEPT ![b] = "connecting"]
        /\ clients' = [clients EXCEPT ![Proxied!Id(b)] = b] /\ UNCHANGED <<conns, lstate, stops>>
    BY <1>4 DEF Proxied!Opens, Proxied!InUse
  <2>2. \A i \in Proxied!AllIds : clients'[i] # None => (i = Proxied!Id(b) /\ clients'[i] = b) \/ clients'[i] = clients[i]
    BY <1>a, <1>i, <2>1 DEF Proxied!TypeOK
  <2>3. \A a \in Proxied!Sock : a # b => bstate'[a] = bstate[a]
    BY <1>a, <2>1 DEF Proxied!TypeOK
  <2>4. bstate'[b] = "connecting" /\ clients'[Proxied!Id(b)] = b
    BY <1>a, <1>i, <2>1 DEF Proxied!TypeOK
  <2>5. \A a \in Proxied!Sock : clients[Proxied!Id(a)] = a => clients'[Proxied!Id(a)] = a
    BY <1>a, <1>i, <2>1 DEF Proxied!TypeOK
  <2>6. \A i \in Proxied!AllIds : clients'[i] # None => Proxied!Id(clients'[i]) = i /\ bstate'[clients'[i]] \in {"connecting", "open"}
    <3>1. \A i \in Proxied!AllIds : clients[i] # None => clients[i] \in Proxied!Sock
      BY <1>a DEF Proxied!TypeOK
    <3> QED BY <1>a, <2>2, <2>3, <2>4, <3>1 DEF TablesKnown
  <2>7. \A a \in Proxied!Sock : bstate'[a] \in {"connecting", "open"} => clients'[Proxied!Id(a)] = a
    BY <1>a, <2>3, <2>4, <2>5 DEF TablesKnown
  <2> QED BY <1>a, <2>1, <2>6, <2>7 DEF TablesKnown
<1>5. ASSUME NEW b \in Proxied!Sock, Proxied!SendsText(b) PROVE TablesKnown'
  BY <1>5, <1>b DEF Proxied!SendsText
<1>6. ASSUME NEW b \in Proxied!Sock, Proxied!Closes(b) PROVE TablesKnown'
  BY <1>6, <1>a, <1>d DEF Proxied!Closes, TablesKnown
<1>7. ASSUME Proxied!HostReceives PROVE TablesKnown'
  <2> DEFINE f == Head(toHost)
  <2>1. UNCHANGED <<bstate, clients, stops>>
    BY <1>7, <1>a, HostReceivesCases
  <2>2. Proxied!RequestArrives(f) \/ Proxied!OpenArrives(f) \/ Proxied!TextArrives(f) => UNCHANGED <<conns, lstate>>
    BY DEF Proxied!RequestArrives, Proxied!OpenArrives, Proxied!TextArrives
  <2>3. CASE UNCHANGED <<conns, lstate>>
    BY <1>b, <2>1, <2>3
  <2>4. CASE f \in Proxied!HostFrame /\ Proxied!CloseArrives(f)
    <3>1. /\ f.id \in Proxied!AllIds /\ conns' = [conns EXCEPT ![f.id] = None]
          /\ lstate' = IF conns[f.id] # None THEN [lstate EXCEPT ![conns[f.id]] = "closed"] ELSE lstate
      BY <2>4 DEF Proxied!CloseArrives, Proxied!HostFrame
    <3> HIDE DEF f
    <3>2. \A i \in Proxied!AllIds : conns'[i] # None => conns'[i] = conns[i] /\ conns[i] \in Proxied!Sock
      BY <1>a, <3>1 DEF Proxied!TypeOK
    <3>3. \A b \in Proxied!Sock : lstate[b] # "none" => lstate'[b] # "none"
      BY <1>a, <3>1 DEF Proxied!TypeOK
    <3>4. \A b \in stops : b \in Proxied!Sock
      BY <1>a DEF Proxied!TypeOK
    <3> QED BY <1>a, <2>1, <3>2, <3>3, <3>4 DEF TablesKnown
  <2> QED BY <1>7, <1>a, <2>2, <2>3, <2>4, HostReceivesCases
<1>8. ASSUME Proxied!LinkDrops PROVE TablesKnown'
  BY <1>8, <1>b DEF Proxied!LinkDrops
<1>9. ASSUME NEW b \in Proxied!Sock, Proxied!OpenSucceeds(b) PROVE TablesKnown'
  <2>1. /\ lstate' = [lstate EXCEPT ![b] = "open"] /\ conns' = [conns EXCEPT ![Proxied!Id(b)] = b]
        /\ UNCHANGED <<bstate, clients, stops>>
    BY <1>9 DEF Proxied!OpenSucceeds
  <2>2. \A i \in Proxied!AllIds : conns'[i] # None => (i = Proxied!Id(b) /\ conns'[i] = b) \/ (conns'[i] = conns[i] /\ conns[i] \in Proxied!Sock)
    BY <1>a, <1>i, <2>1 DEF Proxied!TypeOK
  <2>3. lstate'[b] # "none" /\ \A a \in Proxied!Sock : lstate[a] # "none" => lstate'[a] # "none"
    BY <1>a, <2>1 DEF Proxied!TypeOK
  <2>4. \A a \in stops : a \in Proxied!Sock
    BY <1>a DEF Proxied!TypeOK
  <2> QED BY <1>a, <2>1, <2>2, <2>3, <2>4 DEF TablesKnown
<1>10. ASSUME NEW b \in Proxied!Sock, Proxied!OpenFails(b) PROVE TablesKnown'
  BY <1>10, <1>b DEF Proxied!OpenFails
<1>11. ASSUME NEW b \in Proxied!Sock, Proxied!AppSendsImage(b) PROVE TablesKnown'
  BY <1>11, <1>b DEF Proxied!AppSendsImage
<1>12. ASSUME NEW b \in Proxied!Sock, Proxied!AppCloses(b) PROVE TablesKnown'
  BY <1>12, <1>a, <1>b DEF Proxied!AppCloses, Proxied!TypeOK
<1>13. ASSUME NEW b \in Proxied!Sock, Proxied!TextRaises(b) PROVE TablesKnown'
  BY <1>13, <1>c, <1>i DEF Proxied!TextRaises
<1>14. ASSUME NEW b \in Proxied!Sock, Proxied!SenderSends(b) PROVE TablesKnown'
  BY <1>14, <1>b DEF Proxied!SenderSends
<1>15. ASSUME NEW b \in Proxied!Sock, Proxied!ReaderEnds(b) PROVE TablesKnown'
  BY <1>15, <1>c, <1>i DEF Proxied!ReaderEnds
<1>16. ASSUME Proxied!RequestStarts PROVE TablesKnown'
  BY <1>16, <1>b DEF Proxied!RequestStarts
<1>17. ASSUME Proxied!RequestEnds PROVE TablesKnown'
  BY <1>17, <1>b DEF Proxied!RequestEnds
<1>18. ASSUME Proxied!StopBegins, UNCHANGED Proxied!queues PROVE TablesKnown'
  BY <1>18, <1>a DEF Proxied!StopBegins, TablesKnown
<1>19. ASSUME NEW b \in Proxied!Sock, Proxied!StopCloses(b) PROVE TablesKnown'
  <2>1. stops' \subseteq stops /\ stops \subseteq Proxied!Sock /\ UNCHANGED <<bstate, clients, conns>>
    BY <1>19, <1>a DEF Proxied!StopCloses, Proxied!TypeOK
  <2>2. \A a \in Proxied!Sock : lstate[a] # "none" => lstate'[a] # "none"
    BY <1>19, <1>a DEF Proxied!StopCloses, Proxied!TypeOK
  <2>3. \A i \in Proxied!AllIds : conns[i] # None => conns[i] \in Proxied!Sock
    BY <1>a DEF Proxied!TypeOK
  <2> QED BY <1>a, <2>1, <2>2, <2>3 DEF TablesKnown
<1>20. ASSUME Proxied!StopClears PROVE TablesKnown'
  BY <1>20, <1>a DEF Proxied!StopClears, TablesKnown
<1>21. ASSUME Proxied!StopEnds PROVE TablesKnown'
  BY <1>21, <1>b DEF Proxied!StopEnds
<1>22. ASSUME UNCHANGED Proxied!vars PROVE TablesKnown'
  BY <1>22, <1>b DEF Proxied!vars
<1> QED
  BY <1>1, <1>2, <1>3, <1>4, <1>5, <1>6, <1>7, <1>8, <1>9, <1>10, <1>11, <1>12, <1>13, <1>14, <1>15,
     <1>16, <1>17, <1>18, <1>19, <1>20, <1>21, <1>22, ProxyCases

\* A socket is opened once, and the page holds it to be open only if it was.
SocketKnown(b) ==
  /\ bstate[b] = "new" => opc[b] = "none" /\ Proxied!ToHostOf(b) = {}
  /\ bstate[b] = "open" => lstate[b] # "none"
  /\ \A k \in Proxied!ToHostOf(b) : toHost[k].what = "ws_open" =>
       /\ opc[b] = "none"
       /\ \A l \in Proxied!ToHostOf(b) : toHost[l].what = "ws_open" => k = l
  /\ \A k \in Proxied!ToPageOf(b) : toPage[k].what = "ws_ready" => lstate[b] # "none"
  /\ opc[b] \in {"none", "opening"} => lstate[b] = "none"

LEMMA SocketKnownStep == Proxied!SessionInv /\ [Proxied!Next]_Proxied!vars => \A b \in Proxied!Sock : SocketKnown(b)'
<1> SUFFICES ASSUME Proxied!SessionInv, [Proxied!Next]_Proxied!vars, NEW b \in Proxied!Sock PROVE SocketKnown(b)'
  OBVIOUS
<1>a. Proxied!TypeOK /\ Proxied!QueuesOK /\ Proxied!OnePerId /\ Proxied!SocketsKnown /\ SocketKnown(b)
  BY DEF Proxied!SessionInv, Proxied!SocketsKnown, SocketKnown
<1>i. \A c \in Proxied!Sock : Proxied!Id(c) \in Proxied!AllIds /\ c # None
  BY FrameFacts
<1>h. /\ toHost' = toHost \/ toHost' = <<>> => \A k \in Proxied!ToHostOf(b)' : k \in Proxied!ToHostOf(b) /\ toHost'[k] = toHost[k]
      /\ \A m \in Proxied!HostFrame \cup {Proxied!Other("http"), Proxied!Other("leave")} :
           Proxied!ToHost(m) /\ (m \in Proxied!HostFrame => m.from # b) =>
             \A k \in Proxied!ToHostOf(b)' : k \in Proxied!ToHostOf(b) /\ toHost'[k] = toHost[k]
  BY <1>a, HostQueue
<1>p. toPage' = toPage \/ toPage' = <<>> => \A k \in Proxied!ToPageOf(b)' : k \in Proxied!ToPageOf(b) /\ toPage'[k] = toPage[k]
  BY <1>a, PageQueue
<1>q. ASSUME NEW m \in Proxied!PageFrame, Proxied!ToPage(m), m.what # "ws_ready" \/ m.from # b
      PROVE  \A k \in Proxied!ToPageOf(b)' : toPage'[k].what = "ws_ready" => k \in Proxied!ToPageOf(b) /\ toPage'[k] = toPage[k]
  BY <1>a, <1>q, PageQueue
<1>b. ASSUME UNCHANGED <<opc>>, bstate'[b] = bstate[b],
             lstate[b] # "none" => lstate'[b] # "none", lstate[b] = "none" => lstate'[b] = "none",
             \A k \in Proxied!ToHostOf(b)' : k \in Proxied!ToHostOf(b) /\ toHost'[k] = toHost[k],
             \A k \in Proxied!ToPageOf(b)' : toPage'[k].what = "ws_ready" => k \in Proxied!ToPageOf(b) /\ toPage'[k] = toPage[k]
      PROVE  SocketKnown(b)'
  BY <1>a, <1>b DEF SocketKnown
<1> USE DEF Proxied!queues, Proxied!pages, Proxied!calls, Proxied!locals, Proxied!counts
<1>1. ASSUME Proxied!PageReceives PROVE SocketKnown(b)'
  <2> DEFINE f == Head(toPage)
             c == clients[f.id]
  <2>1. /\ UNCHANGED <<toHost, opc, lstate>> /\ toPage # <<>> /\ toPage' = Tail(toPage)
        /\ f \in Proxied!PageFrame /\ f = toPage[1] /\ 1 \in DOMAIN toPage
    BY <1>1, <1>a, PageReceivesCases
  <2>2. /\ \A k \in Proxied!ToPageOf(b)' : k + 1 \in Proxied!ToPageOf(b) /\ toPage'[k] = toPage[k + 1]
        /\ Proxied!ToHostOf(b)' = Proxied!ToHostOf(b)
    BY <1>a, <2>1, HostQueue, PageQueue
  <2>3. bstate'[b] = "new" => bstate[b] = "new"
    BY <1>1, <1>a, PageReceivesCases DEF Proxied!TypeOK
  <2>4. bstate'[b] = "open" => lstate[b] # "none"
    <3>1. CASE bstate' = bstate
      BY <1>a, <3>1 DEF SocketKnown
    <3>2. CASE c \in Proxied!Sock /\ bstate' = [bstate EXCEPT ![c] = "closed"]
      BY <1>a, <3>2 DEF SocketKnown, Proxied!TypeOK
    <3>3. CASE c \in Proxied!Sock /\ f.what = "ws_ready" /\ bstate' = [bstate EXCEPT ![c] = "open"]
      <4>1. CASE c # b
        BY <1>a, <3>3, <4>1 DEF SocketKnown, Proxied!TypeOK
      <4>2. CASE c = b
        <5>1. f.from \in Proxied!Sock /\ f.id = Proxied!Id(f.from) /\ f.id \in Proxied!AllIds
          BY <2>1 DEF Proxied!PageFrame
        <5>2. 1 \in Proxied!ToPageOf(f.from)
          BY <2>1 DEF Proxied!ToPageOf
        <5>3. Proxied!Id(b) = f.id
          BY <1>a, <1>i, <4>2, <5>1 DEF Proxied!SocketsKnown
        <5>4. Proxied!Uses(f.from) /\ Proxied!Uses(b)
          BY <4>2, <5>2, <5>3 DEF Proxied!Uses
        <5>5. f.from = b
          BY <1>a, <5>1, <5>3, <5>4 DEF Proxied!OnePerId
        <5> QED BY <1>a, <2>1, <3>3, <5>2, <5>5 DEF SocketKnown
      <4> QED BY <4>1, <4>2
    <3> QED BY <1>1, <1>a, <3>1, <3>2, <3>3, PageReceivesCases
  <2> HIDE DEF f, c
  <2> QED BY <1>a, <2>1, <2>2, <2>3, <2>4 DEF SocketKnown
<1>2. ASSUME Proxied!Fetches PROVE SocketKnown(b)'
  BY <1>2, <1>b, <1>h, <1>p, OtherFacts DEF Proxied!Fetches
<1>3. ASSUME Proxied!PageLeaves PROVE SocketKnown(b)'
  BY <1>3, <1>b, <1>h, <1>p, OtherFacts DEF Proxied!PageLeaves
<1>4. ASSUME NEW a \in Proxied!Sock, Proxied!Opens(a) PROVE SocketKnown(b)'
  <2>1. /\ bstate[a] = "new" /\ bstate' = [bstate EXCEPT ![a] = "connecting"] /\ Proxied!ToHost(Proxied!Control("ws_open", a))
        /\ UNCHANGED <<toPage, opc, lstate>>
    BY <1>4 DEF Proxied!Opens
  <2>2. Proxied!Control("ws_open", a) \in Proxied!HostFrame /\ Proxied!Control("ws_open", a).from = a
    BY FrameFacts DEF Proxied!Control
  <2>3. CASE a # b
    <3>1. bstate'[b] = bstate[b]
      BY <1>a, <2>1, <2>3 DEF Proxied!TypeOK
    <3>2. \A k \in Proxied!ToHostOf(b)' : k \in Proxied!ToHostOf(b) /\ toHost'[k] = toHost[k]
      BY <1>h, <2>1, <2>2, <2>3
    <3> QED BY <1>b, <1>p, <2>1, <3>1, <3>2
  <2>4. CASE a = b
    <3>1. \A k \in Proxied!ToHostOf(b)' : k = Len(toHost) + 1
      BY <1>a, <2>1, <2>2, <2>4, HostQueue DEF SocketKnown
    <3>2. bstate'[b] = "connecting" /\ opc[b] = "none"
      BY <1>a, <2>1, <2>4 DEF Proxied!TypeOK, SocketKnown
    <3> QED BY <1>a, <1>p, <2>1, <3>1, <3>2 DEF SocketKnown
  <2> QED BY <2>3, <2>4
<1>5. ASSUME NEW a \in Proxied!Sock, Proxied!SendsText(a) PROVE SocketKnown(b)'
  <2> DEFINE m == Proxied!Frame("ws_text", a, texts[a] + 1)
  <2>1. m \in Proxied!HostFrame /\ m.from = a /\ m.what = "ws_text"
    <3>1. texts[a] + 1 \in 0 .. Texts
      BY <1>5, <1>a, ProxiedAssumption DEF Proxied!SendsText, Proxied!TypeOK, Proxied!ConstantsAssumption
    <3> QED BY <3>1, FrameFacts
  <2>2. bstate[a] = "open" /\ Proxied!ToHost(m) /\ UNCHANGED <<toPage, bstate, opc, lstate>>
    BY <1>5 DEF Proxied!SendsText
  <2> HIDE DEF m
  <2>3. \A k \in Proxied!ToHostOf(b)' : \/ k \in Proxied!ToHostOf(b) /\ toHost'[k] = toHost[k]
                                        \/ a = b /\ toHost'[k].what = "ws_text"
    BY <1>a, <2>1, <2>2, HostQueue
  <2> QED BY <1>a, <1>p, <2>2, <2>3 DEF SocketKnown
<1>6. ASSUME NEW a \in Proxied!Sock, Proxied!Closes(a) PROVE SocketKnown(b)'
  <2> DEFINE m == Proxied!Control("ws_close", a)
  <2>1. m \in Proxied!HostFrame /\ m.from = a /\ m.what = "ws_close"
    BY FrameFacts DEF Proxied!Control
  <2>2. /\ bstate[a] \in {"connecting", "open"} /\ bstate' = [bstate EXCEPT ![a] = "closed"] /\ Proxied!ToHost(m)
        /\ UNCHANGED <<toPage, opc, lstate>>
    BY <1>6 DEF Proxied!Closes
  <2> HIDE DEF m
  <2>3. \A k \in Proxied!ToHostOf(b)' : \/ k \in Proxied!ToHostOf(b) /\ toHost'[k] = toHost[k]
                                        \/ a = b /\ toHost'[k].what = "ws_close"
    BY <1>a, <2>1, <2>2, HostQueue
  <2>4. (bstate'[b] = bstate[b] /\ a # b) \/ (bstate'[b] = "closed" /\ a = b)
    BY <1>a, <2>2 DEF Proxied!TypeOK
  <2> QED BY <1>a, <1>p, <2>2, <2>3, <2>4 DEF SocketKnown
<1>7. ASSUME Proxied!HostReceives PROVE SocketKnown(b)'
  <2> DEFINE f == Head(toHost)
  <2>1. /\ UNCHANGED <<toPage, bstate>> /\ toHost # <<>> /\ toHost' = Tail(toHost)
        /\ f = toHost[1] /\ 1 \in DOMAIN toHost
    BY <1>7, <1>a, HostReceivesCases
  <2>2. \A k \in Proxied!ToHostOf(b)' : k + 1 \in Proxied!ToHostOf(b) /\ 1 < k + 1 /\ k \in Nat /\ toHost'[k] = toHost[k + 1]
    BY <1>a, <2>1, HostQueue
  <2>3. \A k, l \in Proxied!ToHostOf(b)' : toHost'[k].what = "ws_open" /\ toHost'[l].what = "ws_open" => k = l
    <3>1. \A k, l \in Proxied!ToHostOf(b)' : toHost'[k].what = "ws_open" /\ toHost'[l].what = "ws_open" => k + 1 = l + 1
      BY <1>a, <2>2 DEF SocketKnown
    <3> QED BY <2>2, <3>1
  <2>4. \A k \in Proxied!ToHostOf(b)' : toHost'[k].what = "ws_open" => opc[b] = "none"
    BY <1>a, <2>2 DEF SocketKnown
  <2>5. bstate[b] = "new" => Proxied!ToHostOf(b)' = {}
    BY <1>a, <2>2 DEF SocketKnown
  <2>6. CASE opc'[b] = opc[b] /\ (lstate'[b] = "none" <=> lstate[b] = "none")
    BY <1>a, <1>p, <2>1, <2>3, <2>4, <2>5, <2>6 DEF SocketKnown
  <2>7. CASE f \in Proxied!HostFrame /\ f.what = "ws_open" /\ Proxied!OpenArrives(f)
    <3>1. CASE f.from = b
      <4>1. 1 \in Proxied!ToHostOf(b)
        BY <2>1, <2>7, <3>1 DEF Proxied!ToHostOf
      <4>2. \A k \in Proxied!ToHostOf(b)' : toHost'[k].what # "ws_open"
        <5>1. \A l \in Proxied!ToHostOf(b) : toHost[l].what = "ws_open" => 1 = l
          BY <1>a, <2>1, <2>7, <4>1 DEF SocketKnown
        <5> QED BY <2>2, <5>1
      <4>3. opc'[b] = "opening" /\ lstate' = lstate
        BY <1>a, <2>7, <3>1 DEF Proxied!OpenArrives, Proxied!TypeOK
      <4>4. lstate[b] = "none" /\ bstate[b] # "new"
        BY <1>a, <2>1, <2>7, <4>1 DEF SocketKnown
      <4> QED BY <1>a, <1>p, <2>1, <4>2, <4>3, <4>4 DEF SocketKnown
    <3>2. CASE f.from # b
      <4>1. opc'[b] = opc[b] /\ lstate' = lstate
        BY <1>a, <2>7, <3>2 DEF Proxied!OpenArrives, Proxied!TypeOK
      <4> QED BY <2>6, <4>1
    <3> QED BY <3>1, <3>2
  <2>8. CASE f \in Proxied!HostFrame /\ Proxied!CloseArrives(f)
    <3>1. /\ f.id \in Proxied!AllIds /\ opc' = opc
          /\ lstate' = IF conns[f.id] # None THEN [lstate EXCEPT ![conns[f.id]] = "closed"] ELSE lstate
      BY <2>8 DEF Proxied!CloseArrives, Proxied!HostFrame
    <3> HIDE DEF f
    <3>2. lstate'[b] = "none" <=> lstate[b] = "none"
      BY <1>a, <3>1 DEF Proxied!TypeOK, Proxied!SocketsKnown
    <3> QED BY <2>6, <3>1, <3>2
  <2>9. Proxied!RequestArrives(f) \/ Proxied!TextArrives(f) => UNCHANGED <<opc, lstate>>
    BY DEF Proxied!RequestArrives, Proxied!TextArrives
  <2> QED BY <1>7, <1>a, <2>6, <2>7, <2>8, <2>9, HostReceivesCases
<1>8. ASSUME Proxied!LinkDrops PROVE SocketKnown(b)'
  BY <1>8, <1>b, <1>h, <1>p DEF Proxied!LinkDrops
<1>9. ASSUME NEW a \in Proxied!Sock, Proxied!OpenSucceeds(a) PROVE SocketKnown(b)'
  <2>1. /\ opc[a] = "opening" /\ opc' = [opc EXCEPT ![a] = "done"] /\ lstate' = [lstate EXCEPT ![a] = "open"]
        /\ Proxied!ToPage(Proxied!Control("ws_ready", a)) /\ UNCHANGED <<toHost, bstate>>
    BY <1>9 DEF Proxied!OpenSucceeds
  <2>2. Proxied!Control("ws_ready", a) \in Proxied!PageFrame /\ Proxied!Control("ws_ready", a).from = a
    BY FrameFacts DEF Proxied!Control
  <2>3. CASE a = b
    <3>1. opc'[b] = "done" /\ lstate'[b] = "open"
      BY <1>a, <2>1, <2>3 DEF Proxied!TypeOK
    <3> QED BY <1>a, <1>h, <2>1, <2>3, <3>1 DEF SocketKnown
  <2>4. CASE a # b
    <3>1. opc'[b] = opc[b] /\ lstate'[b] = lstate[b]
      BY <1>a, <2>1, <2>4 DEF Proxied!TypeOK
    <3>2. \A k \in Proxied!ToPageOf(b)' : toPage'[k].what = "ws_ready" => k \in Proxied!ToPageOf(b) /\ toPage'[k] = toPage[k]
      BY <1>q, <2>1, <2>2, <2>4
    <3> QED BY <1>a, <1>h, <2>1, <3>1, <3>2 DEF SocketKnown
  <2> QED BY <2>3, <2>4
<1>10. ASSUME NEW a \in Proxied!Sock, Proxied!OpenFails(a) PROVE SocketKnown(b)'
  <2>1. /\ opc[a] = "opening" /\ opc' = [opc EXCEPT ![a] = "done"]
        /\ Proxied!ToPage(Proxied!Control("ws_close", a)) /\ UNCHANGED <<toHost, bstate, lstate>>
    BY <1>10 DEF Proxied!OpenFails
  <2>2. \A k \in Proxied!ToPageOf(b)' : toPage'[k].what = "ws_ready" => k \in Proxied!ToPageOf(b) /\ toPage'[k] = toPage[k]
    BY <1>q, <2>1, FrameFacts DEF Proxied!Control
  <2>3. opc'[b] = opc[b] \/ (opc'[b] = "done" /\ opc[b] = "opening")
    BY <1>a, <2>1 DEF Proxied!TypeOK
  <2> QED BY <1>a, <1>h, <2>1, <2>2, <2>3 DEF SocketKnown
<1>11. ASSUME NEW a \in Proxied!Sock, Proxied!AppSendsImage(a) PROVE SocketKnown(b)'
  BY <1>11, <1>b, <1>h, <1>p DEF Proxied!AppSendsImage
<1>12. ASSUME NEW a \in Proxied!Sock, Proxied!AppCloses(a) PROVE SocketKnown(b)'
  <2>1. lstate'[b] = "none" <=> lstate[b] = "none"
    BY <1>12, <1>a DEF Proxied!AppCloses, Proxied!TypeOK
  <2> QED BY <1>12, <1>b, <1>h, <1>p, <2>1 DEF Proxied!AppCloses
<1>13. ASSUME NEW a \in Proxied!Sock, Proxied!TextRaises(a) PROVE SocketKnown(b)'
  BY <1>13, <1>b, <1>h, <1>p DEF Proxied!TextRaises
<1>14. ASSUME NEW a \in Proxied!Sock, Proxied!SenderSends(a) PROVE SocketKnown(b)'
  <2>1. Proxied!Frame("binary", a, latest[a]) \in Proxied!PageFrame /\ Proxied!Frame("binary", a, latest[a]).what = "binary"
    BY <1>a, FrameFacts DEF Proxied!TypeOK
  <2>2. Proxied!ToPage(Proxied!Frame("binary", a, latest[a])) /\ UNCHANGED <<toHost, bstate, opc, lstate>>
    BY <1>14 DEF Proxied!SenderSends
  <2>3. \A k \in Proxied!ToPageOf(b)' : toPage'[k].what = "ws_ready" => k \in Proxied!ToPageOf(b) /\ toPage'[k] = toPage[k]
    BY <1>q, <2>1, <2>2
  <2> QED BY <1>b, <1>h, <2>2, <2>3
<1>15. ASSUME NEW a \in Proxied!Sock, Proxied!ReaderEnds(a) PROVE SocketKnown(b)'
  <2>1. Proxied!ToPage(Proxied!Control("ws_close", a)) /\ UNCHANGED <<toHost, bstate, opc, lstate>>
    BY <1>15 DEF Proxied!ReaderEnds
  <2>2. \A k \in Proxied!ToPageOf(b)' : toPage'[k].what = "ws_ready" => k \in Proxied!ToPageOf(b) /\ toPage'[k] = toPage[k]
    BY <1>q, <2>1, FrameFacts DEF Proxied!Control
  <2> QED BY <1>b, <1>h, <2>1, <2>2
<1>16. ASSUME Proxied!RequestStarts PROVE SocketKnown(b)'
  BY <1>16, <1>b, <1>h, <1>p DEF Proxied!RequestStarts
<1>17. ASSUME Proxied!RequestEnds PROVE SocketKnown(b)'
  BY <1>17, <1>b, <1>h, <1>p DEF Proxied!RequestEnds
<1>18. ASSUME Proxied!StopBegins, UNCHANGED Proxied!queues PROVE SocketKnown(b)'
  BY <1>18, <1>b, <1>h, <1>p DEF Proxied!StopBegins
<1>19. ASSUME NEW a \in Proxied!Sock, Proxied!StopCloses(a) PROVE SocketKnown(b)'
  <2>1. lstate'[b] = "none" <=> lstate[b] = "none"
    BY <1>19, <1>a DEF Proxied!StopCloses, Proxied!TypeOK, Proxied!SocketsKnown
  <2> QED BY <1>19, <1>b, <1>h, <1>p, <2>1 DEF Proxied!StopCloses
<1>20. ASSUME Proxied!StopClears PROVE SocketKnown(b)'
  BY <1>20, <1>b, <1>h, <1>p DEF Proxied!StopClears
<1>21. ASSUME Proxied!StopEnds PROVE SocketKnown(b)'
  BY <1>21, <1>b, <1>h, <1>p DEF Proxied!StopEnds
<1>22. ASSUME UNCHANGED Proxied!vars PROVE SocketKnown(b)'
  BY <1>22, <1>b, <1>h, <1>p DEF Proxied!vars
<1> QED
  BY <1>1, <1>2, <1>3, <1>4, <1>5, <1>6, <1>7, <1>8, <1>9, <1>10, <1>11, <1>12, <1>13, <1>14, <1>15,
     <1>16, <1>17, <1>18, <1>19, <1>20, <1>21, <1>22, ProxyCases

\* The text of socket b lies on the link in its order.
TextsFollow(b) ==
  /\ gotText[b] <= texts[b]
  /\ lstate[b] = "none" => texts[b] = 0
  /\ \A k \in Proxied!TextsOf(b) :
       /\ toHost[k].n \in 1 .. texts[b]
       /\ \A l \in Proxied!TextsOf(b) : k < l => toHost[k].n < toHost[l].n
  /\ conns[Proxied!Id(b)] = b /\ lstate[b] = "open" /\ link # "lost" =>
       /\ \A k \in Proxied!TextsOf(b) : gotText[b] < toHost[k].n
       /\ \A n \in gotText[b] + 1 .. texts[b] : \E k \in Proxied!TextsOf(b) : toHost[k].n = n

\* A text frame is taken by the socket it is for, and is the next one.
LEMMA TextTaken ==
  ASSUME Proxied!SessionInv, toHost # <<>>, Head(toHost) \in Proxied!HostFrame, Head(toHost).what = "ws_text",
         conns[Head(toHost).id] # None, lstate[conns[Head(toHost).id]] = "open"
  PROVE  /\ Head(toHost).from = conns[Head(toHost).id] /\ 1 \in Proxied!TextsOf(Head(toHost).from)
         /\ Head(toHost).n = gotText[Head(toHost).from] + 1
<1> DEFINE f == Head(toHost)
           b == f.from
           c == conns[f.id]
<1>a. Proxied!TypeOK /\ Proxied!QueuesOK /\ Proxied!OnePerId /\ Proxied!SocketsKnown
  BY DEF Proxied!SessionInv
<1>1. f = toHost[1] /\ 1 \in DOMAIN toHost /\ b \in Proxied!Sock /\ f.id = Proxied!Id(b) /\ f.id \in Proxied!AllIds
  <2>1. f = toHost[1] /\ 1 \in DOMAIN toHost
    BY <1>a, QueueFacts DEF Proxied!QueuesOK
  <2> QED BY <2>1 DEF Proxied!HostFrame
<1>2. 1 \in Proxied!TextsOf(b) /\ 1 \in Proxied!ToHostOf(b)
  BY <1>1 DEF Proxied!TextsOf, Proxied!ToHostOf
<1>3. c \in Proxied!Sock /\ Proxied!Id(c) = f.id
  BY <1>a, <1>1 DEF Proxied!SocketsKnown, Proxied!TypeOK
<1>4. Proxied!Uses(b) /\ Proxied!Uses(c)
  BY <1>2, <1>3 DEF Proxied!Uses
<1>5. c = b
  BY <1>a, <1>1, <1>3, <1>4 DEF Proxied!OnePerId
<1>6. TextsFollow(b)
  BY <1>1 DEF Proxied!SessionInv, Proxied!TextsInOrder, TextsFollow
<1>7. link # "lost"
  BY <1>a DEF Proxied!QueuesOK
<1>8. /\ gotText[b] < f.n /\ f.n \in 1 .. texts[b]
      /\ \A n \in gotText[b] + 1 .. texts[b] : \E k \in Proxied!TextsOf(b) : toHost[k].n = n
  BY <1>1, <1>2, <1>3, <1>5, <1>6, <1>7 DEF TextsFollow
<1>9. \A k \in Proxied!TextsOf(b) : f.n <= toHost[k].n
  <2> SUFFICES ASSUME NEW k \in Proxied!TextsOf(b) PROVE f.n <= toHost[k].n
    OBVIOUS
  <2>1. k \in Nat /\ (k = 1 \/ 1 < k)
    <3>1. k \in DOMAIN toHost
      BY DEF Proxied!TextsOf, Proxied!ToHostOf
    <3> QED BY <1>a, <3>1, QueueFacts DEF Proxied!QueuesOK
  <2>2. toHost[k].n \in Nat /\ f.n \in Nat
    <3>1. toHost[k].n \in 1 .. texts[b]
      BY <1>6 DEF TextsFollow
    <3> QED BY <1>8, <3>1
  <2>3. 1 < k => f.n < toHost[k].n
    BY <1>1, <1>2, <1>6 DEF TextsFollow
  <2> QED BY <1>1, <2>1, <2>2, <2>3
<1>10. gotText[b] \in Nat /\ texts[b] \in Nat
  BY <1>a, <1>1, ProxiedAssumption DEF Proxied!TypeOK, Proxied!ConstantsAssumption
<1> HIDE DEF f, b, c
<1>11. f.n = gotText[b] + 1
  <2>1. gotText[b] + 1 \in gotText[b] + 1 .. texts[b]
    BY <1>8, <1>10
  <2>2. PICK k \in Proxied!TextsOf(b) : toHost[k].n = gotText[b] + 1
    BY <1>8, <2>1
  <2> QED BY <1>8, <1>9, <1>10, <2>2
<1> QED BY <1>2, <1>5, <1>11 DEF f, b, c

\* Every step keeps the text of each socket in order.
LEMMA TextsStep == Proxied!SessionInv /\ [Proxied!Next]_Proxied!vars => Proxied!TextsInOrder'
<1> SUFFICES ASSUME Proxied!SessionInv, [Proxied!Next]_Proxied!vars, NEW b \in Proxied!Sock PROVE TextsFollow(b)'
  BY DEF Proxied!TextsInOrder, TextsFollow
<1>a. Proxied!TypeOK /\ Proxied!QueuesOK /\ Proxied!OnePerId /\ Proxied!SocketsKnown /\ TextsFollow(b)
  BY DEF Proxied!SessionInv, Proxied!TextsInOrder, TextsFollow
<1>i. \A c \in Proxied!Sock : Proxied!Id(c) \in Proxied!AllIds /\ c # None
  BY FrameFacts
<1>n. gotText[b] \in Nat /\ texts[b] \in Nat
  BY <1>a, ProxiedAssumption DEF Proxied!TypeOK, Proxied!ConstantsAssumption
<1>b. ASSUME UNCHANGED <<toHost>>, gotText'[b] = gotText[b], texts'[b] = texts[b],
             lstate'[b] = "none" => lstate[b] = "none",
             conns'[Proxied!Id(b)] = b /\ lstate'[b] = "open" /\ link' # "lost" =>
               conns[Proxied!Id(b)] = b /\ lstate[b] = "open" /\ link # "lost"
      PROVE  TextsFollow(b)'
  <2>1. Proxied!TextsOf(b)' = Proxied!TextsOf(b)
    BY <1>b DEF Proxied!TextsOf, Proxied!ToHostOf
  <2> QED BY <1>a, <1>b, <2>1 DEF TextsFollow
<1>c. ASSUME NEW m \in Proxied!HostFrame \cup {Proxied!Other("http"), Proxied!Other("leave")}, Proxied!ToHost(m),
             m \in Proxied!HostFrame => m.what # "ws_text" \/ m.from # b,
             UNCHANGED <<gotText, conns, lstate>>, texts'[b] = texts[b], link # "lost"
      PROVE  TextsFollow(b)'
  <2>1. /\ \A k \in Proxied!TextsOf(b)' : k \in Proxied!TextsOf(b) /\ toHost'[k] = toHost[k]
        /\ \A k \in Proxied!TextsOf(b) : k \in Proxied!TextsOf(b)' /\ toHost'[k] = toHost[k]
    BY <1>a, <1>c, HostQueue DEF Proxied!TextsOf
  <2> QED BY <1>a, <1>c, <2>1 DEF TextsFollow
<1> USE DEF Proxied!queues, Proxied!pages, Proxied!calls, Proxied!locals, Proxied!counts
<1>1. ASSUME Proxied!PageReceives PROVE TextsFollow(b)'
  BY <1>1, <1>b DEF Proxied!PageReceives
<1>2. ASSUME Proxied!Fetches PROVE TextsFollow(b)'
  BY <1>2, <1>c, OtherFacts DEF Proxied!Fetches
<1>3. ASSUME Proxied!PageLeaves PROVE TextsFollow(b)'
  BY <1>3, <1>c, OtherFacts DEF Proxied!PageLeaves
<1>4. ASSUME NEW a \in Proxied!Sock, Proxied!Opens(a) PROVE TextsFollow(b)'
  BY <1>4, <1>c, FrameFacts DEF Proxied!Opens, Proxied!Control
<1>5. ASSUME NEW a \in Proxied!Sock, Proxied!SendsText(a) PROVE TextsFollow(b)'
  <2> DEFINE m == Proxied!Frame("ws_text", a, texts[a] + 1)
  <2>1. m \in Proxied!HostFrame /\ m.from = a /\ m.what = "ws_text" /\ m.n = texts[a] + 1
    <3>1. texts[a] + 1 \in 0 .. Texts
      BY <1>5, <1>a, ProxiedAssumption DEF Proxied!SendsText, Proxied!TypeOK, Proxied!ConstantsAssumption
    <3> QED BY <3>1, FrameFacts
  <2>2. /\ bstate[a] = "open" /\ Proxied!ToHost(m) /\ texts' = [texts EXCEPT ![a] = @ + 1] /\ link = "up"
        /\ UNCHANGED <<link, lstate, conns, gotText>>
    BY <1>5 DEF Proxied!SendsText
  <2> HIDE DEF m
  <2>3. CASE a # b
    <3>1. texts'[b] = texts[b]
      BY <1>a, <2>2, <2>3 DEF Proxied!TypeOK
    <3> QED BY <1>c, <2>1, <2>2, <2>3, <3>1
  <2>4. CASE a = b
    <3>1. texts'[b] = texts[b] + 1
      BY <1>a, <2>2, <2>4 DEF Proxied!TypeOK
    <3>2. /\ \A k \in Proxied!TextsOf(b)' : \/ k \in Proxied!TextsOf(b) /\ toHost'[k] = toHost[k]
                                            \/ k = Len(toHost) + 1 /\ toHost'[k].n = texts[b] + 1
          /\ \A k \in Proxied!TextsOf(b) : k \in Proxied!TextsOf(b)' /\ toHost'[k] = toHost[k] /\ k < Len(toHost) + 1
          /\ Len(toHost) + 1 \in Proxied!TextsOf(b)' /\ toHost'[Len(toHost) + 1].n = texts[b] + 1
      <4>1. \A k \in Proxied!TextsOf(b)' : \/ k \in Proxied!TextsOf(b) /\ toHost'[k] = toHost[k]
                                           \/ k = Len(toHost) + 1 /\ toHost'[k].n = texts[b] + 1
        BY <1>a, <2>1, <2>2, HostQueue DEF Proxied!TextsOf
      <4>2. \A k \in Proxied!TextsOf(b) : k \in Proxied!TextsOf(b)' /\ toHost'[k] = toHost[k] /\ k < Len(toHost) + 1
        BY <1>a, <2>1, <2>2, HostQueue DEF Proxied!TextsOf
      <4>3. Len(toHost) + 1 \in Proxied!ToHostOf(b)' /\ toHost'[Len(toHost) + 1] = m
        BY <1>a, <2>1, <2>2, <2>4, HostQueue
      <4>4. Len(toHost) + 1 \in Proxied!TextsOf(b)' /\ toHost'[Len(toHost) + 1].n = texts[b] + 1
        BY <2>1, <2>4, <4>3 DEF Proxied!TextsOf
      <4> QED BY <4>1, <4>2, <4>4
    <3>3. \A k \in Proxied!TextsOf(b) : k \in Nat /\ toHost[k].n \in 1 .. texts[b]
      <4>1. \A k \in Proxied!TextsOf(b) : k \in DOMAIN toHost
        BY DEF Proxied!TextsOf, Proxied!ToHostOf
      <4> QED BY <1>a, <4>1, QueueFacts DEF TextsFollow, Proxied!QueuesOK
    <3>4. Len(toHost) \in Nat
      BY <1>a, QueueFacts DEF Proxied!QueuesOK
    <3>5. \A k \in Proxied!TextsOf(b)' : toHost'[k].n \in 1 .. texts[b] + 1
      BY <1>n, <3>2, <3>3
    <3>6. \A k, l \in Proxied!TextsOf(b)' : k < l => toHost'[k].n < toHost'[l].n
      <4> SUFFICES ASSUME NEW k \in Proxied!TextsOf(b)', NEW l \in Proxied!TextsOf(b)', k < l PROVE toHost'[k].n < toHost'[l].n
        OBVIOUS
      <4>1. CASE k \in Proxied!TextsOf(b) /\ l \in Proxied!TextsOf(b)
        BY <1>a, <3>2, <4>1 DEF TextsFollow
      <4>2. CASE k \in Proxied!TextsOf(b) /\ l \notin Proxied!TextsOf(b)
        BY <1>n, <3>2, <3>3, <4>2
      <4>3. CASE k \notin Proxied!TextsOf(b)
        BY <3>2, <3>3, <3>4, <4>3
      <4> QED BY <4>1, <4>2, <4>3
    <3>7. lstate[b] # "none"
      BY <1>a, <2>2, <2>4 DEF Proxied!SocketsKnown
    <3>8. ASSUME conns[Proxied!Id(b)] = b, lstate[b] = "open", link # "lost"
          PROVE  /\ \A k \in Proxied!TextsOf(b)' : gotText[b] < toHost'[k].n
                 /\ \A n \in gotText[b] + 1 .. texts[b] + 1 : \E k \in Proxied!TextsOf(b)' : toHost'[k].n = n
      <4>1. \A k \in Proxied!TextsOf(b)' : gotText[b] < toHost'[k].n
        BY <1>a, <1>n, <3>2, <3>8 DEF TextsFollow
      <4>2. \A n \in gotText[b] + 1 .. texts[b] + 1 : n = texts[b] + 1 \/ n \in gotText[b] + 1 .. texts[b]
        BY <1>n
      <4>3. \A n \in gotText[b] + 1 .. texts[b] : \E k \in Proxied!TextsOf(b)' : toHost'[k].n = n
        BY <1>a, <3>2, <3>8 DEF TextsFollow
      <4> QED BY <3>2, <4>1, <4>2, <4>3
    <3>9. gotText[b] <= texts[b] + 1
      BY <1>a, <1>n DEF TextsFollow
    <3> QED BY <2>2, <3>1, <3>5, <3>6, <3>7, <3>8, <3>9 DEF TextsFollow
  <2> QED BY <2>3, <2>4
<1>6. ASSUME NEW a \in Proxied!Sock, Proxied!Closes(a) PROVE TextsFollow(b)'
  BY <1>6, <1>c, FrameFacts DEF Proxied!Closes, Proxied!Control
<1>7. ASSUME Proxied!HostReceives PROVE TextsFollow(b)'
  <2> DEFINE f == Head(toHost)
  <2>1. /\ UNCHANGED <<link, texts>> /\ toHost # <<>> /\ toHost' = Tail(toHost) /\ link # "lost"
        /\ f = toHost[1] /\ 1 \in DOMAIN toHost
    BY <1>7, <1>a, HostReceivesCases
  <2>2. /\ \A k \in Proxied!TextsOf(b)' : k + 1 \in Proxied!TextsOf(b) /\ 1 < k + 1 /\ k \in Nat /\ toHost'[k] = toHost[k + 1]
        /\ \A k \in Proxied!TextsOf(b) : k # 1 => k - 1 \in Proxied!TextsOf(b)' /\ toHost'[k - 1] = toHost[k]
    BY <1>a, <2>1, HostQueue DEF Proxied!TextsOf
  <2>3. \A k \in Proxied!TextsOf(b)' : /\ toHost'[k].n \in 1 .. texts[b]
                                       /\ \A l \in Proxied!TextsOf(b)' : k < l => toHost'[k].n < toHost'[l].n
    BY <1>a, <2>2 DEF TextsFollow
  <2>4. ASSUME gotText'[b] = gotText[b], lstate'[b] = "none" => lstate[b] = "none",
               conns'[Proxied!Id(b)] = b /\ lstate'[b] = "open" => conns[Proxied!Id(b)] = b /\ lstate[b] = "open" /\ 1 \notin Proxied!TextsOf(b)
        PROVE  TextsFollow(b)'
    <3>1. ASSUME conns[Proxied!Id(b)] = b, lstate[b] = "open", 1 \notin Proxied!TextsOf(b)
          PROVE  /\ \A k \in Proxied!TextsOf(b)' : gotText[b] < toHost'[k].n
                 /\ \A n \in gotText[b] + 1 .. texts[b] : \E k \in Proxied!TextsOf(b)' : toHost'[k].n = n
      <4>1. \A k \in Proxied!TextsOf(b)' : gotText[b] < toHost'[k].n
        BY <1>a, <2>1, <2>2, <3>1 DEF TextsFollow
      <4>2. \A n \in gotText[b] + 1 .. texts[b] : \E k \in Proxied!TextsOf(b) : k # 1 /\ toHost[k].n = n
        BY <1>a, <2>1, <3>1 DEF TextsFollow
      <4> QED BY <2>2, <4>1, <4>2
    <3> QED BY <1>a, <2>1, <2>3, <2>4, <3>1 DEF TextsFollow
  <2>5. CASE f = Proxied!Other("http") /\ Proxied!RequestArrives(f)
    <3>1. 1 \notin Proxied!TextsOf(b)
      BY <2>1, <2>5, OtherFacts DEF Proxied!TextsOf, Proxied!ToHostOf
    <3> QED BY <2>4, <2>5, <3>1 DEF Proxied!RequestArrives
  <2>6. CASE f \in Proxied!HostFrame /\ f.what = "ws_open" /\ Proxied!OpenArrives(f)
    <3>1. 1 \notin Proxied!TextsOf(b)
      BY <2>1, <2>6 DEF Proxied!TextsOf
    <3> QED BY <2>4, <2>6, <3>1 DEF Proxied!OpenArrives
  <2>7. CASE f \in Proxied!HostFrame /\ f.what = "ws_close" /\ Proxied!CloseArrives(f)
    <3>1. 1 \notin Proxied!TextsOf(b)
      BY <2>1, <2>7 DEF Proxied!TextsOf
    <3>2. /\ f.id \in Proxied!AllIds /\ conns' = [conns EXCEPT ![f.id] = None] /\ gotText' = gotText
          /\ lstate' = IF conns[f.id] # None THEN [lstate EXCEPT ![conns[f.id]] = "closed"] ELSE lstate
      BY <2>7 DEF Proxied!CloseArrives, Proxied!HostFrame
    <3> HIDE DEF f
    <3>3. /\ lstate'[b] = "none" => lstate[b] = "none"
          /\ lstate'[b] = "open" => lstate[b] = "open"
          /\ conns'[Proxied!Id(b)] = b => conns[Proxied!Id(b)] = b
      BY <1>a, <1>i, <3>2 DEF Proxied!TypeOK
    <3> QED BY <2>4, <3>1, <3>2, <3>3
  <2>8. CASE f \in Proxied!HostFrame /\ f.what = "ws_text" /\ Proxied!TextArrives(f)
    <3> DEFINE c == conns[f.id]
    <3>1. UNCHANGED <<conns, lstate>>
      BY <2>8 DEF Proxied!TextArrives
    <3>2. f.from \in Proxied!Sock /\ f.id = Proxied!Id(f.from) /\ f.id \in Proxied!AllIds /\ (1 \in Proxied!TextsOf(b) <=> f.from = b)
      <4>1. f.from \in Proxied!Sock /\ f.id = Proxied!Id(f.from) /\ f.id \in Proxied!AllIds
        BY <2>8 DEF Proxied!HostFrame
      <4> QED BY <2>1, <2>8, <4>1 DEF Proxied!TextsOf, Proxied!ToHostOf
    <3>3. CASE c # None /\ lstate[c] = "open"
      <4>1. f.from = c /\ f.n = gotText[c] + 1
        BY <2>1, <2>8, <3>3, TextTaken
      <4>2. gotText' = [gotText EXCEPT ![c] = f.n]
        BY <2>8, <3>3 DEF Proxied!TextArrives
      <4> HIDE DEF c, f
      <4>3. CASE c # b
        <5>1. gotText'[b] = gotText[b]
          BY <1>a, <4>2, <4>3 DEF Proxied!TypeOK
        <5> QED BY <2>4, <3>1, <3>2, <4>1, <4>3, <5>1
      <4>4. CASE c = b
        <5>1. gotText'[b] = gotText[b] + 1
          BY <1>a, <4>1, <4>2, <4>4 DEF Proxied!TypeOK
        <5>2. 1 \in Proxied!TextsOf(b) /\ toHost[1].n = gotText[b] + 1
          BY <2>1, <3>2, <4>1, <4>4
        <5>3. \A k \in Proxied!TextsOf(b)' : gotText[b] + 1 < toHost'[k].n
          BY <1>a, <2>2, <5>2 DEF TextsFollow
        <5>4. ASSUME conns[Proxied!Id(b)] = b, lstate[b] = "open"
              PROVE  \A n \in (gotText[b] + 1) + 1 .. texts[b] : \E k \in Proxied!TextsOf(b)' : toHost'[k].n = n
          <6> SUFFICES ASSUME NEW n \in (gotText[b] + 1) + 1 .. texts[b] PROVE \E k \in Proxied!TextsOf(b)' : toHost'[k].n = n
            OBVIOUS
          <6>1. n \in gotText[b] + 1 .. texts[b] /\ n # gotText[b] + 1
            BY <1>n
          <6>2. PICK k \in Proxied!TextsOf(b) : toHost[k].n = n
            BY <1>a, <2>1, <5>4, <6>1 DEF TextsFollow
          <6> QED BY <2>2, <5>2, <6>1, <6>2
        <5>5. gotText[b] + 1 <= texts[b]
          <6>1. toHost[1].n \in 1 .. texts[b]
            BY <1>a, <5>2 DEF TextsFollow
          <6> QED BY <1>n, <5>2, <6>1
        <5> QED BY <1>a, <2>1, <2>3, <3>1, <5>1, <5>3, <5>4, <5>5 DEF TextsFollow
      <4> QED BY <4>3, <4>4
    <3>4. CASE ~(c # None /\ lstate[c] = "open")
      <4>1. gotText' = gotText
        BY <2>8, <3>4 DEF Proxied!TextArrives
      <4>2. conns[Proxied!Id(b)] = b /\ lstate[b] = "open" => 1 \notin Proxied!TextsOf(b)
        BY <1>i, <3>2, <3>4
      <4> HIDE DEF c, f
      <4> QED BY <2>4, <3>1, <4>1, <4>2
    <3> QED BY <3>3, <3>4
  <2> QED BY <1>7, <1>a, <2>5, <2>6, <2>7, <2>8, HostReceivesCases
<1>8. ASSUME Proxied!LinkDrops PROVE TextsFollow(b)'
  <2>1. Proxied!TextsOf(b)' = {} /\ link' = "lost" /\ UNCHANGED <<gotText, texts, lstate, conns>>
    BY <1>8 DEF Proxied!LinkDrops, Proxied!TextsOf, Proxied!ToHostOf
  <2> QED BY <1>a, <2>1 DEF TextsFollow
<1>9. ASSUME NEW a \in Proxied!Sock, Proxied!OpenSucceeds(a) PROVE TextsFollow(b)'
  <2>1. /\ opc[a] = "opening" /\ lstate' = [lstate EXCEPT ![a] = "open"] /\ conns' = [conns EXCEPT ![Proxied!Id(a)] = a]
        /\ UNCHANGED <<link, toHost, gotText, texts>>
    BY <1>9 DEF Proxied!OpenSucceeds
  <2>2. CASE a # b
    <3>1. lstate'[b] = lstate[b] /\ (conns'[Proxied!Id(b)] = b => conns[Proxied!Id(b)] = b)
      BY <1>a, <1>i, <2>1, <2>2 DEF Proxied!TypeOK
    <3> QED BY <1>b, <2>1, <3>1
  <2>3. CASE a = b
    <3>1. lstate[b] = "none" /\ lstate'[b] = "open"
      BY <1>a, <2>1, <2>3 DEF Proxied!SocketsKnown, Proxied!TypeOK
    <3>2. texts[b] = 0 /\ gotText[b] = 0
      BY <1>a, <1>n, <3>1 DEF TextsFollow
    <3>3. Proxied!TextsOf(b)' = Proxied!TextsOf(b) /\ Proxied!TextsOf(b) = {}
      <4>1. Proxied!TextsOf(b)' = Proxied!TextsOf(b)
        BY <2>1 DEF Proxied!TextsOf, Proxied!ToHostOf
      <4>2. \A k \in Proxied!TextsOf(b) : toHost[k].n \in 1 .. 0
        BY <1>a, <3>2 DEF TextsFollow
      <4> QED BY <4>1, <4>2
    <3> QED BY <2>1, <3>1, <3>2, <3>3 DEF TextsFollow
  <2> QED BY <2>2, <2>3
<1>10. ASSUME NEW a \in Proxied!Sock, Proxied!OpenFails(a) PROVE TextsFollow(b)'
  BY <1>10, <1>b DEF Proxied!OpenFails
<1>11. ASSUME NEW a \in Proxied!Sock, Proxied!AppSendsImage(a) PROVE TextsFollow(b)'
  BY <1>11, <1>b DEF Proxied!AppSendsImage
<1>12. ASSUME NEW a \in Proxied!Sock, Proxied!AppCloses(a) PROVE TextsFollow(b)'
  BY <1>12, <1>a, <1>b DEF Proxied!AppCloses, Proxied!TypeOK
<1>13. ASSUME NEW a \in Proxied!Sock, Proxied!TextRaises(a) PROVE TextsFollow(b)'
  BY <1>13, <1>a, <1>b, <1>i DEF Proxied!TextRaises, Proxied!TypeOK
<1>14. ASSUME NEW a \in Proxied!Sock, Proxied!SenderSends(a) PROVE TextsFollow(b)'
  BY <1>14, <1>b DEF Proxied!SenderSends
<1>15. ASSUME NEW a \in Proxied!Sock, Proxied!ReaderEnds(a) PROVE TextsFollow(b)'
  BY <1>15, <1>a, <1>b, <1>i DEF Proxied!ReaderEnds, Proxied!TypeOK
<1>16. ASSUME Proxied!RequestStarts PROVE TextsFollow(b)'
  BY <1>16, <1>b DEF Proxied!RequestStarts
<1>17. ASSUME Proxied!RequestEnds PROVE TextsFollow(b)'
  BY <1>17, <1>b DEF Proxied!RequestEnds
<1>18. ASSUME Proxied!StopBegins, UNCHANGED Proxied!queues PROVE TextsFollow(b)'
  BY <1>18, <1>b DEF Proxied!StopBegins
<1>19. ASSUME NEW a \in Proxied!Sock, Proxied!StopCloses(a) PROVE TextsFollow(b)'
  BY <1>19, <1>a, <1>b DEF Proxied!StopCloses, Proxied!TypeOK
<1>20. ASSUME Proxied!StopClears PROVE TextsFollow(b)'
  BY <1>20, <1>b, <1>i DEF Proxied!StopClears
<1>21. ASSUME Proxied!StopEnds PROVE TextsFollow(b)'
  BY <1>21, <1>b DEF Proxied!StopEnds
<1>22. ASSUME UNCHANGED Proxied!vars PROVE TextsFollow(b)'
  BY <1>22, <1>b DEF Proxied!vars
<1> QED
  BY <1>1, <1>2, <1>3, <1>4, <1>5, <1>6, <1>7, <1>8, <1>9, <1>10, <1>11, <1>12, <1>13, <1>14, <1>15,
     <1>16, <1>17, <1>18, <1>19, <1>20, <1>21, <1>22, ProxyCases

\* The binary frames of socket b lie on the link in their order.
ImagesFollow(b) ==
  /\ gotImage[b] <= images[b]
  /\ lstate[b] = "none" => images[b] = 0
  /\ \A k \in Proxied!ImagesOf(b) :
       /\ gotImage[b] < toPage[k].n /\ toPage[k].n <= images[b]
       /\ \A l \in Proxied!ImagesOf(b) : k < l => toPage[k].n < toPage[l].n
  /\ latest[b] # 0 =>
       /\ reader[b] = "reading"
       /\ gotImage[b] < latest[b] /\ latest[b] <= images[b]
       /\ \A k \in Proxied!ImagesOf(b) : toPage[k].n < latest[b]

\* A binary frame is taken by the socket it is for, and is newer than the last.
LEMMA ImageTaken ==
  ASSUME Proxied!SessionInv, toPage # <<>>, Head(toPage) \in Proxied!PageFrame, Head(toPage).what = "binary",
         clients[Head(toPage).id] # None
  PROVE  /\ Head(toPage).from = clients[Head(toPage).id] /\ 1 \in Proxied!ImagesOf(Head(toPage).from)
         /\ gotImage[Head(toPage).from] < Head(toPage).n
<1> DEFINE f == Head(toPage)
           b == f.from
           c == clients[f.id]
<1>a. Proxied!TypeOK /\ Proxied!QueuesOK /\ Proxied!OnePerId /\ Proxied!SocketsKnown
  BY DEF Proxied!SessionInv
<1>1. f = toPage[1] /\ 1 \in DOMAIN toPage /\ b \in Proxied!Sock /\ f.id = Proxied!Id(b) /\ f.id \in Proxied!AllIds
  <2>1. f = toPage[1] /\ 1 \in DOMAIN toPage
    BY <1>a, QueueFacts DEF Proxied!QueuesOK
  <2> QED BY <2>1 DEF Proxied!PageFrame
<1>2. 1 \in Proxied!ImagesOf(b) /\ 1 \in Proxied!ToPageOf(b)
  BY <1>1 DEF Proxied!ImagesOf, Proxied!ToPageOf
<1>3. c \in Proxied!Sock /\ Proxied!Id(c) = f.id
  BY <1>a, <1>1 DEF Proxied!SocketsKnown, Proxied!TypeOK
<1>4. Proxied!Uses(b) /\ Proxied!Uses(c)
  BY <1>2, <1>3 DEF Proxied!Uses
<1>5. c = b
  BY <1>a, <1>1, <1>3, <1>4 DEF Proxied!OnePerId
<1>6. gotImage[b] < toPage[1].n
  BY <1>1, <1>2 DEF Proxied!SessionInv, Proxied!ImagesInOrder
<1> QED BY <1>1, <1>2, <1>5, <1>6

\* Every step keeps the binary frames of each socket in order.
LEMMA ImagesStep == Proxied!SessionInv /\ [Proxied!Next]_Proxied!vars => Proxied!ImagesInOrder'
<1> SUFFICES ASSUME Proxied!SessionInv, [Proxied!Next]_Proxied!vars, NEW b \in Proxied!Sock PROVE ImagesFollow(b)'
  BY DEF Proxied!ImagesInOrder, ImagesFollow
<1>a. Proxied!TypeOK /\ Proxied!QueuesOK /\ Proxied!OnePerId /\ Proxied!SocketsKnown /\ ImagesFollow(b)
  BY DEF Proxied!SessionInv, Proxied!ImagesInOrder, ImagesFollow
<1>i. \A c \in Proxied!Sock : Proxied!Id(c) \in Proxied!AllIds /\ c # None
  BY FrameFacts
<1>n. gotImage[b] \in Nat /\ images[b] \in Nat /\ latest[b] \in Nat
  BY <1>a, ProxiedAssumption DEF Proxied!TypeOK, Proxied!ConstantsAssumption
<1>b. ASSUME \A k \in Proxied!ImagesOf(b)' : k \in Proxied!ImagesOf(b) /\ toPage'[k] = toPage[k],
             gotImage'[b] = gotImage[b], images'[b] = images[b],
             latest'[b] = latest[b] \/ latest'[b] = 0,
             latest'[b] # 0 => reader'[b] = reader[b],
             lstate'[b] = "none" => lstate[b] = "none"
      PROVE  ImagesFollow(b)'
  <2>1. \A k \in Proxied!ImagesOf(b)' : /\ gotImage'[b] < toPage'[k].n /\ toPage'[k].n <= images'[b]
                                        /\ \A l \in Proxied!ImagesOf(b)' : k < l => toPage'[k].n < toPage'[l].n
    BY <1>a, <1>b DEF ImagesFollow
  <2>2. latest'[b] # 0 => /\ reader'[b] = "reading"
                          /\ gotImage'[b] < latest'[b] /\ latest'[b] <= images'[b]
                          /\ \A k \in Proxied!ImagesOf(b)' : toPage'[k].n < latest'[b]
    BY <1>a, <1>b DEF ImagesFollow
  <2>3. gotImage'[b] <= images'[b] /\ (lstate'[b] = "none" => images'[b] = 0)
    BY <1>a, <1>b DEF ImagesFollow
  <2> QED BY <2>1, <2>2, <2>3 DEF ImagesFollow
<1>c. toPage' = toPage \/ toPage' = <<>> =>
        \A k \in Proxied!ImagesOf(b)' : k \in Proxied!ImagesOf(b) /\ toPage'[k] = toPage[k]
  BY <1>a, PageQueue DEF Proxied!ImagesOf
<1>d. \A m \in Proxied!PageFrame : Proxied!ToPage(m) /\ (m.what # "binary" \/ m.from # b) =>
        \A k \in Proxied!ImagesOf(b)' : k \in Proxied!ImagesOf(b) /\ toPage'[k] = toPage[k]
  BY <1>a, PageQueue DEF Proxied!ImagesOf
<1> USE DEF Proxied!queues, Proxied!pages, Proxied!calls, Proxied!locals, Proxied!counts
<1>1. ASSUME Proxied!PageReceives PROVE ImagesFollow(b)'
  <2> DEFINE f == Head(toPage)
             c == clients[f.id]
  <2>1. /\ UNCHANGED <<images, latest, reader, lstate>> /\ toPage # <<>> /\ toPage' = Tail(toPage)
        /\ f = toPage[1] /\ 1 \in DOMAIN toPage /\ f \in Proxied!PageFrame
    BY <1>1, <1>a, PageReceivesCases
  <2>2. \A k \in Proxied!ImagesOf(b)' : k + 1 \in Proxied!ImagesOf(b) /\ 1 < k + 1 /\ k \in Nat /\ toPage'[k] = toPage[k + 1]
    BY <1>a, <2>1, PageQueue DEF Proxied!ImagesOf
  <2>3. \A k, l \in Proxied!ImagesOf(b)' : k < l => toPage'[k].n < toPage'[l].n
    BY <1>a, <2>2 DEF ImagesFollow
  <2>4. \A k \in Proxied!ImagesOf(b)' : /\ gotImage[b] < toPage'[k].n /\ toPage'[k].n <= images[b]
                                        /\ latest[b] # 0 => toPage'[k].n < latest[b]
    BY <1>a, <2>2 DEF ImagesFollow
  <2>5. ASSUME gotImage'[b] = gotImage[b] PROVE ImagesFollow(b)'
    BY <1>a, <2>1, <2>3, <2>4, <2>5 DEF ImagesFollow
  <2>6. ASSUME c \in Proxied!Sock, f.what = "binary", gotImage' = [gotImage EXCEPT ![c] = f.n] PROVE ImagesFollow(b)'
    <3>1. f.from = c /\ 1 \in Proxied!ImagesOf(f.from)
      BY <1>i, <2>1, <2>6, ImageTaken
    <3>2. CASE c # b
      <4> HIDE DEF f, c
      <4>1. gotImage'[b] = gotImage[b]
        BY <1>a, <2>6, <3>2 DEF Proxied!TypeOK
      <4> QED BY <2>5, <4>1
    <3>3. CASE c = b
      <4>1. 1 \in Proxied!ImagesOf(b) /\ toPage[1].n = f.n
        BY <2>1, <3>1, <3>3
      <4> HIDE DEF f, c
      <4>2. gotImage'[b] = toPage[1].n
        BY <1>a, <2>6, <3>3, <4>1 DEF Proxied!TypeOK
      <4>3. toPage[1].n <= images[b] /\ (latest[b] # 0 => toPage[1].n < latest[b])
        BY <1>a, <4>1 DEF ImagesFollow
      <4>4. \A k \in Proxied!ImagesOf(b)' : toPage[1].n < toPage'[k].n
        BY <1>a, <2>2, <4>1 DEF ImagesFollow
      <4> QED BY <1>a, <2>1, <2>3, <2>4, <4>2, <4>3, <4>4 DEF ImagesFollow
    <3> QED BY <3>2, <3>3
  <2>7. gotImage' = gotImage \/ (c \in Proxied!Sock /\ f.what = "binary" /\ gotImage' = [gotImage EXCEPT ![c] = f.n])
    BY <1>1, <1>a, PageReceivesCases
  <2> HIDE DEF f, c
  <2> QED BY <2>5, <2>6, <2>7
<1>2. ASSUME Proxied!Fetches PROVE ImagesFollow(b)'
  BY <1>2, <1>b, <1>c DEF Proxied!Fetches
<1>3. ASSUME Proxied!PageLeaves PROVE ImagesFollow(b)'
  BY <1>3, <1>b, <1>c DEF Proxied!PageLeaves
<1>4. ASSUME NEW a \in Proxied!Sock, Proxied!Opens(a) PROVE ImagesFollow(b)'
  BY <1>4, <1>b, <1>c DEF Proxied!Opens
<1>5. ASSUME NEW a \in Proxied!Sock, Proxied!SendsText(a) PROVE ImagesFollow(b)'
  BY <1>5, <1>b, <1>c DEF Proxied!SendsText
<1>6. ASSUME NEW a \in Proxied!Sock, Proxied!Closes(a) PROVE ImagesFollow(b)'
  BY <1>6, <1>b, <1>c DEF Proxied!Closes
<1>7. ASSUME Proxied!HostReceives PROVE ImagesFollow(b)'
  <2> DEFINE f == Head(toHost)
  <2>1. UNCHANGED <<toPage, images, gotImage, latest, reader>>
    BY <1>7, <1>a, HostReceivesCases
  <2>2. /\ f.id \in Proxied!AllIds \/ lstate' = lstate
        /\ \/ lstate' = lstate
           \/ \E c : lstate' = [lstate EXCEPT ![c] = "closed"]
    BY <1>7, <1>a, HostReceivesCases DEF Proxied!RequestArrives, Proxied!OpenArrives, Proxied!TextArrives,
       Proxied!CloseArrives, Proxied!HostFrame
  <2> HIDE DEF f
  <2>3. lstate'[b] = "none" => lstate[b] = "none"
    BY <1>a, <2>2 DEF Proxied!TypeOK
  <2> QED BY <1>b, <1>c, <2>1, <2>3
<1>8. ASSUME Proxied!LinkDrops PROVE ImagesFollow(b)'
  BY <1>8, <1>b, <1>c DEF Proxied!LinkDrops
<1>9. ASSUME NEW a \in Proxied!Sock, Proxied!OpenSucceeds(a) PROVE ImagesFollow(b)'
  <2>1. /\ opc[a] = "opening" /\ lstate' = [lstate EXCEPT ![a] = "open"]
        /\ reader' = [reader EXCEPT ![a] = IF link = "lost" THEN "none" ELSE "reading"]
        /\ UNCHANGED <<gotImage, images, latest>> /\ Proxied!ToPage(Proxied!Control("ws_ready", a))
    BY <1>9 DEF Proxied!OpenSucceeds
  <2>2. \A k \in Proxied!ImagesOf(b)' : k \in Proxied!ImagesOf(b) /\ toPage'[k] = toPage[k]
    BY <1>d, <2>1, FrameFacts DEF Proxied!Control
  <2>3. lstate'[b] = "none" => lstate[b] = "none"
    BY <1>a, <2>1 DEF Proxied!TypeOK
  <2>4. latest'[b] # 0 => reader'[b] = reader[b]
    <3>1. CASE a # b
      BY <1>a, <2>1, <3>1 DEF Proxied!TypeOK
    <3>2. CASE a = b
      <4>1. lstate[b] = "none"
        BY <1>a, <2>1, <3>2 DEF Proxied!SocketsKnown
      <4>2. latest[b] = 0
        BY <1>a, <1>n, <4>1 DEF ImagesFollow
      <4> QED BY <2>1, <4>2
    <3> QED BY <3>1, <3>2
  <2> QED BY <1>b, <2>1, <2>2, <2>3, <2>4
<1>10. ASSUME NEW a \in Proxied!Sock, Proxied!OpenFails(a) PROVE ImagesFollow(b)'
  <2>1. /\ UNCHANGED <<gotImage, images, latest, reader, lstate>> /\ Proxied!ToPage(Proxied!Control("ws_close", a))
    BY <1>10 DEF Proxied!OpenFails
  <2>2. \A k \in Proxied!ImagesOf(b)' : k \in Proxied!ImagesOf(b) /\ toPage'[k] = toPage[k]
    BY <1>d, <2>1, FrameFacts DEF Proxied!Control
  <2> QED BY <1>b, <2>1, <2>2
<1>11. ASSUME NEW a \in Proxied!Sock, Proxied!AppSendsImage(a) PROVE ImagesFollow(b)'
  <2>1. PICK n \in 1 .. Images : /\ Proxied!IsNextImage(n) /\ images' = [images EXCEPT ![a] = n]
                                 /\ latest' = [latest EXCEPT ![a] = n]
    BY <1>11 DEF Proxied!AppSendsImage
  <2>2. /\ lstate[a] = "open" /\ reader[a] = "reading"
        /\ UNCHANGED <<toPage, gotImage, reader, lstate>>
    BY <1>11 DEF Proxied!AppSendsImage
  <2>3. CASE a # b
    <3>1. images'[b] = images[b] /\ latest'[b] = latest[b]
      BY <1>a, <2>1, <2>3 DEF Proxied!TypeOK
    <3> QED BY <1>b, <1>c, <2>2, <3>1
  <2>4. CASE a = b
    <3>1. images'[b] = n /\ latest'[b] = n /\ images[b] < n /\ n \in Nat
      BY <1>a, <2>1, <2>4, ProxiedAssumption DEF Proxied!TypeOK, Proxied!IsNextImage,
         Proxied!ConstantsAssumption
    <3>2. \A k \in Proxied!ImagesOf(b)' : k \in Proxied!ImagesOf(b) /\ toPage'[k] = toPage[k] /\ toPage[k].n \in Nat
      <4>1. \A k \in Proxied!ImagesOf(b) : toPage[k] \in Proxied!PageFrame
        BY <1>a, PageQueue DEF Proxied!ImagesOf
      <4>2. \A k \in Proxied!ImagesOf(b) : toPage[k].n \in Nat
        BY <4>1, ProxiedAssumption DEF Proxied!PageFrame, Proxied!ConstantsAssumption
      <4> QED BY <1>c, <2>2, <4>2
    <3>3. /\ gotImage'[b] <= images'[b] /\ gotImage'[b] < latest'[b] /\ latest'[b] <= images'[b]
      BY <1>a, <1>n, <2>2, <3>1 DEF ImagesFollow
    <3>4. \A k \in Proxied!ImagesOf(b)' : gotImage'[b] < toPage'[k].n /\ toPage'[k].n < n
      BY <1>a, <1>n, <2>2, <3>1, <3>2 DEF ImagesFollow
    <3>5. \A k, l \in Proxied!ImagesOf(b)' : k < l => toPage'[k].n < toPage'[l].n
      BY <1>a, <3>2 DEF ImagesFollow
    <3>6. lstate'[b] # "none" /\ reader'[b] = "reading"
      BY <2>2, <2>4
    <3>7. \A k \in Proxied!ImagesOf(b)' : toPage'[k].n <= images'[b] /\ toPage'[k].n < latest'[b]
      BY <3>1, <3>2, <3>4
    <3> QED BY <3>3, <3>4, <3>5, <3>6, <3>7 DEF ImagesFollow
  <2> QED BY <2>3, <2>4
<1>12. ASSUME NEW a \in Proxied!Sock, Proxied!AppCloses(a) PROVE ImagesFollow(b)'
  BY <1>12, <1>a, <1>b, <1>c DEF Proxied!AppCloses, Proxied!TypeOK
<1>13. ASSUME NEW a \in Proxied!Sock, Proxied!TextRaises(a) PROVE ImagesFollow(b)'
  <2>1. /\ reader' = [reader EXCEPT ![a] = "done"] /\ latest' = [latest EXCEPT ![a] = 0]
        /\ UNCHANGED <<toPage, gotImage, images, lstate>>
    BY <1>13 DEF Proxied!TextRaises
  <2>2. (latest'[b] = latest[b] /\ reader'[b] = reader[b]) \/ latest'[b] = 0
    BY <1>a, <2>1 DEF Proxied!TypeOK
  <2> QED BY <1>b, <1>c, <2>1, <2>2
<1>14. ASSUME NEW a \in Proxied!Sock, Proxied!SenderSends(a) PROVE ImagesFollow(b)'
  <2> DEFINE m == Proxied!Frame("binary", a, latest[a])
  <2>1. m \in Proxied!PageFrame /\ m.from = a /\ m.what = "binary" /\ m.n = latest[a]
    <3>1. latest[a] \in 0 .. Images
      BY <1>a DEF Proxied!TypeOK
    <3> QED BY <3>1, FrameFacts
  <2>2. /\ latest[a] # 0 /\ latest' = [latest EXCEPT ![a] = 0] /\ Proxied!ToPage(m)
        /\ UNCHANGED <<gotImage, images, reader, lstate>>
    BY <1>14 DEF Proxied!SenderSends
  <2> HIDE DEF m
  <2>3. CASE a # b
    <3>1. latest'[b] = latest[b]
      BY <1>a, <2>2, <2>3 DEF Proxied!TypeOK
    <3> QED BY <1>b, <1>d, <2>1, <2>2, <2>3, <3>1
  <2>4. CASE a = b
    <3>1. latest'[b] = 0
      BY <1>a, <2>2, <2>4 DEF Proxied!TypeOK
    <3>2. /\ \A k \in Proxied!ImagesOf(b)' : \/ k \in Proxied!ImagesOf(b) /\ toPage'[k] = toPage[k]
                                             \/ k = Len(toPage) + 1 /\ toPage'[k].n = latest[b]
          /\ \A k \in Proxied!ImagesOf(b) : k < Len(toPage) + 1 /\ k \in Nat
      BY <1>a, <2>1, <2>2, <2>4, PageQueue DEF Proxied!ImagesOf
    <3>3. Len(toPage) \in Nat
      BY <1>a, QueueFacts DEF Proxied!QueuesOK
    <3>4. /\ gotImage[b] < latest[b] /\ latest[b] <= images[b]
          /\ \A k \in Proxied!ImagesOf(b) : /\ gotImage[b] < toPage[k].n /\ toPage[k].n <= images[b]
                                            /\ toPage[k].n < latest[b]
      BY <1>a, <2>2, <2>4 DEF ImagesFollow
    <3>5. \A k \in Proxied!ImagesOf(b)' : gotImage[b] < toPage'[k].n /\ toPage'[k].n <= images[b]
      BY <3>2, <3>4
    <3>6. \A k, l \in Proxied!ImagesOf(b)' : k < l => toPage'[k].n < toPage'[l].n
      <4> SUFFICES ASSUME NEW k \in Proxied!ImagesOf(b)', NEW l \in Proxied!ImagesOf(b)', k < l PROVE toPage'[k].n < toPage'[l].n
        OBVIOUS
      <4>1. CASE k \in Proxied!ImagesOf(b) /\ l \in Proxied!ImagesOf(b) /\ toPage'[k] = toPage[k] /\ toPage'[l] = toPage[l]
        BY <1>a, <4>1 DEF ImagesFollow
      <4>2. CASE k \in Proxied!ImagesOf(b) /\ toPage'[k] = toPage[k] /\ toPage'[l].n = latest[b]
        BY <3>4, <4>2
      <4>3. CASE k = Len(toPage) + 1
        BY <3>2, <3>3, <4>3
      <4> QED BY <3>2, <4>1, <4>2, <4>3
    <3> QED BY <1>a, <2>2, <3>1, <3>5, <3>6 DEF ImagesFollow
  <2> QED BY <2>3, <2>4
<1>15. ASSUME NEW a \in Proxied!Sock, Proxied!ReaderEnds(a) PROVE ImagesFollow(b)'
  <2>1. /\ reader' = [reader EXCEPT ![a] = "done"] /\ latest' = [latest EXCEPT ![a] = 0]
        /\ UNCHANGED <<gotImage, images, lstate>> /\ Proxied!ToPage(Proxied!Control("ws_close", a))
    BY <1>15 DEF Proxied!ReaderEnds
  <2>2. (latest'[b] = latest[b] /\ reader'[b] = reader[b]) \/ latest'[b] = 0
    BY <1>a, <2>1 DEF Proxied!TypeOK
  <2>3. \A k \in Proxied!ImagesOf(b)' : k \in Proxied!ImagesOf(b) /\ toPage'[k] = toPage[k]
    BY <1>d, <2>1, FrameFacts DEF Proxied!Control
  <2> QED BY <1>b, <2>1, <2>2, <2>3
<1>16. ASSUME Proxied!RequestStarts PROVE ImagesFollow(b)'
  BY <1>16, <1>b, <1>c DEF Proxied!RequestStarts
<1>17. ASSUME Proxied!RequestEnds PROVE ImagesFollow(b)'
  BY <1>17, <1>b, <1>c DEF Proxied!RequestEnds
<1>18. ASSUME Proxied!StopBegins, UNCHANGED Proxied!queues PROVE ImagesFollow(b)'
  BY <1>18, <1>b, <1>c DEF Proxied!StopBegins
<1>19. ASSUME NEW a \in Proxied!Sock, Proxied!StopCloses(a) PROVE ImagesFollow(b)'
  BY <1>19, <1>a, <1>b, <1>c DEF Proxied!StopCloses, Proxied!TypeOK
<1>20. ASSUME Proxied!StopClears PROVE ImagesFollow(b)'
  BY <1>20, <1>b, <1>c DEF Proxied!StopClears
<1>21. ASSUME Proxied!StopEnds PROVE ImagesFollow(b)'
  BY <1>21, <1>b, <1>c DEF Proxied!StopEnds
<1>22. ASSUME UNCHANGED Proxied!vars PROVE ImagesFollow(b)'
  BY <1>22, <1>b, <1>c DEF Proxied!vars
<1> QED
  BY <1>1, <1>2, <1>3, <1>4, <1>5, <1>6, <1>7, <1>8, <1>9, <1>10, <1>11, <1>12, <1>13, <1>14, <1>15,
     <1>16, <1>17, <1>18, <1>19, <1>20, <1>21, <1>22, ProxyCases

\* No step takes a frame to the wrong socket, or out of its order.
LEMMA NotWrongStep == Proxied!SessionInv /\ [Proxied!Next]_Proxied!vars => ~wrong'
<1> SUFFICES ASSUME Proxied!SessionInv, [Proxied!Next]_Proxied!vars PROVE ~wrong'
  OBVIOUS
<1>a. Proxied!TypeOK /\ Proxied!QueuesOK /\ ~wrong
  BY DEF Proxied!SessionInv
<1>q. ASSUME UNCHANGED wrong PROVE ~wrong'
  BY <1>a, <1>q
<1> USE DEF Proxied!counts
<1>1. ASSUME Proxied!PageReceives PROVE ~wrong'
  <2> DEFINE f == Head(toPage)
             c == clients[f.id]
  <2>1. toPage # <<>> /\ f \in Proxied!PageFrame
    BY <1>1, <1>a, PageReceivesCases
  <2>2. CASE c \in Proxied!Sock /\ f.what = "binary" /\ wrong' = (wrong \/ f.from # c \/ f.n <= gotImage[c])
    <3>1. f.from = c /\ gotImage[c] < f.n
      BY <2>1, <2>2, FrameFacts, ImageTaken
    <3>2. gotImage[c] \in Nat /\ f.n \in Nat
      BY <1>a, <2>1, <2>2, ProxiedAssumption DEF Proxied!TypeOK, Proxied!PageFrame, Proxied!ConstantsAssumption
    <3> HIDE DEF f, c
    <3>3. ~(f.n <= gotImage[c])
      BY <3>1, <3>2
    <3> QED BY <1>a, <2>2, <3>1, <3>3
  <2>3. \/ UNCHANGED wrong
        \/ c \in Proxied!Sock /\ f.what = "binary" /\ (wrong' = (wrong \/ f.from # c \/ f.n <= gotImage[c]))
    BY <1>1, <1>a, PageReceivesCases
  <2> QED BY <1>q, <2>2, <2>3
<1>2. ASSUME Proxied!HostReceives PROVE ~wrong'
  <2> DEFINE f == Head(toHost)
             c == conns[f.id]
             takes == c # None /\ lstate[c] = "open"
  <2>1. toHost # <<>>
    BY <1>2, <1>a, HostReceivesCases
  <2>2. CASE f \in Proxied!HostFrame /\ f.what = "ws_text" /\ Proxied!TextArrives(f)
    <3>1. wrong' = (wrong \/ (takes /\ (f.from # c \/ f.n # gotText[c] + 1)))
      BY <2>2 DEF Proxied!TextArrives
    <3>2. takes => f.from = c /\ f.n = gotText[c] + 1
      BY <2>1, <2>2, TextTaken
    <3> HIDE DEF f, c, takes
    <3> QED BY <1>a, <3>1, <3>2
  <2>3. UNCHANGED wrong \/ (f \in Proxied!HostFrame /\ f.what = "ws_text" /\ Proxied!TextArrives(f))
    BY <1>2, <1>a, HostReceivesCases DEF Proxied!RequestArrives, Proxied!OpenArrives, Proxied!CloseArrives
  <2> QED BY <1>q, <2>2, <2>3
<1>3. ASSUME Proxied!Fetches PROVE ~wrong'
  BY <1>3, <1>q DEF Proxied!Fetches
<1>4. ASSUME Proxied!PageLeaves PROVE ~wrong'
  BY <1>4, <1>q DEF Proxied!PageLeaves
<1>5. ASSUME NEW a \in Proxied!Sock, Proxied!Opens(a) PROVE ~wrong'
  BY <1>5, <1>q DEF Proxied!Opens
<1>6. ASSUME NEW a \in Proxied!Sock, Proxied!SendsText(a) PROVE ~wrong'
  BY <1>6, <1>q DEF Proxied!SendsText
<1>7. ASSUME NEW a \in Proxied!Sock, Proxied!Closes(a) PROVE ~wrong'
  BY <1>7, <1>q DEF Proxied!Closes
<1>8. ASSUME Proxied!LinkDrops PROVE ~wrong'
  BY <1>8, <1>q DEF Proxied!LinkDrops
<1>9. ASSUME NEW a \in Proxied!Sock, Proxied!OpenSucceeds(a) PROVE ~wrong'
  BY <1>9, <1>q DEF Proxied!OpenSucceeds
<1>10. ASSUME NEW a \in Proxied!Sock, Proxied!OpenFails(a) PROVE ~wrong'
  BY <1>10, <1>q DEF Proxied!OpenFails
<1>11. ASSUME NEW a \in Proxied!Sock, Proxied!AppSendsImage(a) PROVE ~wrong'
  BY <1>11, <1>q DEF Proxied!AppSendsImage
<1>12. ASSUME NEW a \in Proxied!Sock, Proxied!AppCloses(a) PROVE ~wrong'
  BY <1>12, <1>q DEF Proxied!AppCloses
<1>13. ASSUME NEW a \in Proxied!Sock, Proxied!TextRaises(a) PROVE ~wrong'
  BY <1>13, <1>q DEF Proxied!TextRaises
<1>14. ASSUME NEW a \in Proxied!Sock, Proxied!SenderSends(a) PROVE ~wrong'
  BY <1>14, <1>q DEF Proxied!SenderSends
<1>15. ASSUME NEW a \in Proxied!Sock, Proxied!ReaderEnds(a) PROVE ~wrong'
  BY <1>15, <1>q DEF Proxied!ReaderEnds
<1>16. ASSUME Proxied!RequestStarts PROVE ~wrong'
  BY <1>16, <1>q DEF Proxied!RequestStarts
<1>17. ASSUME Proxied!RequestEnds PROVE ~wrong'
  BY <1>17, <1>q DEF Proxied!RequestEnds
<1>18. ASSUME Proxied!StopBegins, UNCHANGED Proxied!queues PROVE ~wrong'
  BY <1>18, <1>q DEF Proxied!StopBegins
<1>19. ASSUME NEW a \in Proxied!Sock, Proxied!StopCloses(a) PROVE ~wrong'
  BY <1>19, <1>q DEF Proxied!StopCloses
<1>20. ASSUME Proxied!StopClears PROVE ~wrong'
  BY <1>20, <1>q DEF Proxied!StopClears
<1>21. ASSUME Proxied!StopEnds PROVE ~wrong'
  BY <1>21, <1>q DEF Proxied!StopEnds
<1>22. ASSUME UNCHANGED Proxied!vars PROVE ~wrong'
  BY <1>22, <1>q DEF Proxied!vars
<1> QED
  BY <1>1, <1>2, <1>3, <1>4, <1>5, <1>6, <1>7, <1>8, <1>9, <1>10, <1>11, <1>12, <1>13, <1>14, <1>15,
     <1>16, <1>17, <1>18, <1>19, <1>20, <1>21, <1>22, ProxyCases

\* A session begins with nothing opened and nothing sent.
LEMMA SessionInit == Proxied!Init => Proxied!SessionInv
<1> SUFFICES ASSUME Proxied!Init PROVE Proxied!SessionInv
  OBVIOUS
<1>1. \A b \in Proxied!Sock : b # None /\ Proxied!Id(b) \in Proxied!AllIds
  BY FrameFacts
<1>2. Proxied!TypeOK
  BY ProxiedAssumption DEF Proxied!Init, Proxied!TypeOK, Proxied!ConstantsAssumption
<1>3. Proxied!QueuesOK
  BY DEF Proxied!Init, Proxied!QueuesOK
<1>4. \A b \in Proxied!Sock : Proxied!ToHostOf(b) = {} /\ Proxied!ToPageOf(b) = {} /\ Proxied!TextsOf(b) = {} /\ Proxied!ImagesOf(b) = {}
  BY DEF Proxied!Init, Proxied!ToHostOf, Proxied!ToPageOf, Proxied!TextsOf, Proxied!ImagesOf
<1>5. Proxied!OnePerId
  BY <1>1, <1>4 DEF Proxied!Init, Proxied!OnePerId, Proxied!Uses
<1>6. Proxied!SocketsKnown
  BY <1>4 DEF Proxied!Init, Proxied!SocketsKnown
<1>7. Proxied!TextsInOrder
  BY <1>4 DEF Proxied!Init, Proxied!TextsInOrder
<1>8. Proxied!ImagesInOrder
  BY <1>4 DEF Proxied!Init, Proxied!ImagesInOrder
<1>9. Proxied!StopKnows
  BY DEF Proxied!Init, Proxied!StopKnows
<1>10. ~wrong
  BY DEF Proxied!Init
<1> QED BY <1>2, <1>3, <1>5, <1>6, <1>7, <1>8, <1>9, <1>10 DEF Proxied!SessionInv

\* Every step keeps the invariant of the session.
LEMMA SessionStep == Proxied!SessionInv /\ [Proxied!Next]_Proxied!vars => Proxied!SessionInv'
<1> SUFFICES ASSUME Proxied!SessionInv, [Proxied!Next]_Proxied!vars PROVE Proxied!SessionInv'
  OBVIOUS
<1>1. Proxied!SocketsKnown'
  <2>1. TablesKnown'
    BY TablesStep
  <2>2. \A b \in Proxied!Sock : SocketKnown(b)'
    BY SocketKnownStep
  <2> QED BY <2>1, <2>2 DEF Proxied!SocketsKnown, TablesKnown, SocketKnown
<1> QED
  BY <1>1, ProxyTypeStep, OnePerIdStep, TextsStep, ImagesStep, StopKnowsStep, NotWrongStep
    DEF Proxied!SessionInv

\* The invariant of the session holds in every state of it.
THEOREM SessionSafety == Proxied!Spec => []Proxied!SessionInv
BY SessionInit, SessionStep, PTL DEF Proxied!Spec

\* Frames of a proxied socket reach its other end only, text complete and in
\* order, binary frames never going back (FramesReachTheirSocket).
THEOREM SocketSafety == Proxied!Spec => []FramesReachTheirSocket
<1>1. Proxied!SessionInv => FramesReachTheirSocket
  BY DEF Proxied!SessionInv, FramesReachTheirSocket, Proxied!FramesReachTheirSocket
<1> QED BY <1>1, SessionSafety, PTL

\* A stopped session holds no local socket and no HTTP client but the late
\* ones (ProxyInv).
THEOREM ProxySafety == Proxied!Spec => []ProxyInv
<1>1. Proxied!SessionInv => ProxyInv
  BY DEF Proxied!SessionInv, ProxyInv, Proxied!ProxyInv, Proxied!StopKnows, Proxied!StoppedSessionHoldsNothing
<1> QED BY <1>1, SessionSafety, PTL
=============================================================================
