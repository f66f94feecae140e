------------------------ MODULE SessionClient_proofs ------------------------
(***************************************************************************)
(* Theorems about SessionClient, for any number of sockets and attempts,   *)
(* and about RelayMailbox and RelaySignaling, the instances Mailbox and    *)
(* Signaling of MCClients, for any number of devices and viewers.          *)
(***************************************************************************)
EXTENDS MCClients, SequenceTheorems, TLAPS

\* The actions, as a preservation proof splits them.
LEMMA NextCases ==
  ASSUME NEW P, [Next]_vars,
         Connect => P,
         Close => P,
         WakeOpen => P,
         WakeConnects => P,
         RetryFires => P,
         Beat => P,
         AckOverdue => P,
         LivenessFails => P,
         \A s \in Sock : Opens(s) => P,
         \A s \in Sock : Ack(s) => P,
         \A s \in Sock : Drops(s) => P,
         \A s \in Sock, code \in Codes : Closes(s, code) => P,
         UNCHANGED vars => P
  PROVE  P
BY DEF Next, Wake, Event

-----------------------------------------------------------------------------
(* Types *)

\* Setting a reconnect timer within the limit keeps the types.
LEMMA RetryTypes ==
  ASSUME TypeOK, SetRetry, attempts < MaxAttempts
  PROVE  /\ retry' \in BOOLEAN /\ strayRetry' \in 0 .. MaxStray /\ attempts' \in 0 .. MaxAttempts
<1>1. strayRetry' \in 0 .. MaxStray /\ attempts' \in 0 .. MaxAttempts
  BY ConstantsAssumption DEF SetRetry, TypeOK, DataTypes
<1> QED BY <1>1 DEF SetRetry

\* So does breaking a socket.
LEMMA ForceReconnectTypes ==
  ASSUME TypeOK, ForceReconnect, UNCHANGED <<ever, intentional, banner, overlap>>
  PROVE  TypeOK'
<1>1. retry' \in BOOLEAN /\ strayRetry' \in 0 .. MaxStray /\ attempts' \in 0 .. MaxAttempts
  <2>1. CASE UNCHANGED retries
    BY <2>1 DEF retries, TypeOK, FlagTypes, DataTypes
  <2>2. CASE attempts < MaxAttempts /\ SetRetry
    BY <2>2, RetryTypes
  <2> QED BY <2>1, <2>2 DEF ForceReconnect
<1>2. FlagTypes'
  BY <1>1 DEF ForceReconnect, StopHeartbeat, TypeOK, FlagTypes
<1>3. DataTypes'
  BY <1>1 DEF ForceReconnect, StopHeartbeat, TypeOK, DataTypes
<1> QED BY <1>2, <1>3 DEF TypeOK

\* Every step keeps the types.
LEMMA TypeStep == TypeOK /\ [Next]_vars => TypeOK'
<1> SUFFICES ASSUME TypeOK, [Next]_vars PROVE TypeOK'
  OBVIOUS
<1> USE ConstantsAssumption DEF sockets, timers, retries, health
<1>1. ASSUME Connect PROVE TypeOK'
  <2>1. FlagTypes'
    BY <1>1 DEF TypeOK, FlagTypes, Connect, Connects
  <2>2. DataTypes'
    BY <1>1 DEF TypeOK, DataTypes, Connect, Connects
  <2> QED BY <2>1, <2>2 DEF TypeOK
<1>2. ASSUME Close PROVE TypeOK'
  <2>1. FlagTypes'
    BY <1>2 DEF TypeOK, FlagTypes, Close, StopHeartbeat
  <2>2. DataTypes'
    BY <1>2 DEF TypeOK, DataTypes, Close, StopHeartbeat
  <2> QED BY <2>1, <2>2 DEF TypeOK
<1>3. ASSUME WakeOpen PROVE TypeOK'
  <2>1. FlagTypes'
    BY <1>3 DEF TypeOK, FlagTypes, WakeOpen, SendHeartbeat, IsOpen
  <2>2. DataTypes'
    BY <1>3 DEF TypeOK, DataTypes, WakeOpen, SendHeartbeat, IsOpen
  <2> QED BY <2>1, <2>2 DEF TypeOK
<1>4. ASSUME WakeConnects PROVE TypeOK'
  <2>1. FlagTypes'
    BY <1>4 DEF TypeOK, FlagTypes, WakeConnects, Connects
  <2>2. DataTypes'
    BY <1>4 DEF TypeOK, DataTypes, WakeConnects, Connects
  <2> QED BY <2>1, <2>2 DEF TypeOK
<1>5. ASSUME RetryFires PROVE TypeOK'
  <2>1. FlagTypes'
    BY <1>5 DEF TypeOK, FlagTypes, RetryFires, Connects
  <2>2. DataTypes'
    BY <1>5 DEF TypeOK, DataTypes, RetryFires, Connects
  <2> QED BY <2>1, <2>2 DEF TypeOK
<1>6. ASSUME Beat PROVE TypeOK'
  <2>1. CASE ForceReconnect
    BY <1>6, <2>1, ForceReconnectTypes DEF Beat
  <2>2. CASE ~ForceReconnect
    <3>1. FlagTypes'
      BY <1>6, <2>2 DEF TypeOK, FlagTypes, Beat
    <3>2. DataTypes'
      BY <1>6, <2>2 DEF TypeOK, DataTypes, Beat, SendHeartbeat, IsOpen
    <3> QED BY <3>1, <3>2 DEF TypeOK
  <2> QED BY <2>1, <2>2
<1>7. ASSUME AckOverdue PROVE TypeOK'
  <2>1. FlagTypes'
    BY <1>7 DEF TypeOK, FlagTypes, AckOverdue
  <2>2. DataTypes'
    BY <1>7 DEF TypeOK, DataTypes, AckOverdue
  <2> QED BY <2>1, <2>2 DEF TypeOK
<1>8. ASSUME LivenessFails PROVE TypeOK'
  <2>1. CASE ForceReconnect
    BY <1>8, <2>1, ForceReconnectTypes DEF LivenessFails
  <2>2. CASE ~ForceReconnect
    <3>1. FlagTypes'
      BY <1>8, <2>2 DEF TypeOK, FlagTypes, LivenessFails
    <3>2. DataTypes'
      BY <1>8, <2>2 DEF TypeOK, DataTypes, LivenessFails
    <3> QED BY <3>1, <3>2 DEF TypeOK
  <2> QED BY <2>1, <2>2
<1>9. ASSUME NEW s \in Sock, Opens(s) PROVE TypeOK'
  <2>1. FlagTypes'
    BY <1>9 DEF TypeOK, FlagTypes, Opens
  <2>2. DataTypes'
    BY <1>9 DEF TypeOK, DataTypes, Opens
  <2> QED BY <2>1, <2>2 DEF TypeOK
<1>10. ASSUME NEW s \in Sock, Ack(s) PROVE TypeOK'
  <2>1. FlagTypes'
    BY <1>10 DEF TypeOK, FlagTypes, Ack
  <2>2. DataTypes'
    BY <1>10 DEF TypeOK, DataTypes, Ack
  <2> QED BY <2>1, <2>2 DEF TypeOK
<1>11. ASSUME NEW s \in Sock, Drops(s) PROVE TypeOK'
  <2>1. FlagTypes'
    BY <1>11 DEF TypeOK, FlagTypes, Drops
  <2>2. DataTypes'
    BY <1>11 DEF TypeOK, DataTypes, Drops
  <2> QED BY <2>1, <2>2 DEF TypeOK
<1>12. ASSUME NEW s \in Sock, NEW code \in Codes, Closes(s, code) PROVE TypeOK'
  <2>1. retry' \in BOOLEAN /\ strayRetry' \in 0 .. MaxStray /\ attempts' \in 0 .. MaxAttempts
    <3>1. CASE UNCHANGED retries
      BY <3>1 DEF TypeOK, FlagTypes, DataTypes
    <3>2. CASE LossAt(code) = "no" /\ SetRetry
      <4>1. attempts < MaxAttempts
        BY <3>2 DEF LossAt, TypeOK, DataTypes
      <4> QED BY <3>2, <4>1, RetryTypes
    <3> QED BY <1>12, <3>1, <3>2 DEF Closes
  <2>2. FlagTypes'
    BY <1>12, <2>1 DEF TypeOK, FlagTypes, Closes, StopHeartbeat
  <2>3. LossAt(code) \in {"no", "not_found", "superseded", "dead_session", "exhausted"}
    BY DEF LossAt
  <2>4. DataTypes'
    BY <1>12, <2>1, <2>3 DEF TypeOK, DataTypes, Closes
  <2> QED BY <2>2, <2>4 DEF TypeOK
<1>13. ASSUME UNCHANGED vars PROVE TypeOK'
  <2>1. FlagTypes'
    BY <1>13 DEF TypeOK, FlagTypes, vars
  <2>2. DataTypes'
    BY <1>13 DEF TypeOK, DataTypes, vars
  <2> QED BY <2>1, <2>2 DEF TypeOK
<1> QED
  BY <1>1, <1>2, <1>3, <1>4, <1>5, <1>6, <1>7, <1>8, <1>9, <1>10, <1>11,
     <1>12, <1>13, NextCases

\* Every reachable state is well typed; in particular the attempts never
\* exceed their limit (onclose, llming-ws.js).
THEOREM TypeCorrect == Spec => []TypeOK
<1>1. Init => FlagTypes
  BY DEF Init, FlagTypes
<1>2. Init => DataTypes
  BY ConstantsAssumption DEF Init, DataTypes
<1> QED BY <1>1, <1>2, TypeStep, PTL DEF Spec, TypeOK

-----------------------------------------------------------------------------
(* One socket *)

\* Without overlapping connects a reconnect timer runs only after a socket
\* was there; SoleSocket does not say so itself.
RetryFollowsSocket == ~overlap /\ retry => current # None

Sole == SoleSocket /\ RetryFollowsSocket

\* Whatever leaves overlap, the sockets and the timers alone.
LEMMA SoleKept ==
  ASSUME Sole, UNCHANGED <<overlap, current, sock, beating, strayBeat, retry, strayRetry>>,
         intentional' => intentional
  PROVE  Sole'
BY DEF Sole, SoleSocket, RetryFollowsSocket, Over, IsOpen

\* A connect: if it overlaps nothing, all sockets were closed.
LEMMA SoleConnect ==
  ASSUME TypeOK, Sole, NEW s \in Sock, Connects(s), UNCHANGED timers,
         retry' => overlap, strayRetry' = strayRetry \/ overlap
  PROVE  Sole'
<1> SUFFICES ASSUME ~overlap' PROVE Sole'
  BY DEF Sole, SoleSocket, RetryFollowsSocket
<1>1. ~overlap /\ \A z \in Sock : Over(z)
  BY DEF Connects
<1>2. ~IsOpen
  BY <1>1 DEF IsOpen, Over, TypeOK, DataTypes
<1>3. ~beating' /\ ~strayBeat'
  BY <1>1, <1>2 DEF Sole, SoleSocket, timers
<1>4. \A z \in Sock : ~Over(z)' => z = current'
  BY <1>1 DEF Connects, Over, TypeOK, DataTypes
<1>5. ~IsOpen'
  BY <1>1 DEF Connects, IsOpen, TypeOK, DataTypes
<1>6. ~retry' /\ strayRetry' = 0
  BY <1>1 DEF Sole, SoleSocket
<1> QED BY <1>3, <1>4, <1>5, <1>6 DEF Sole, SoleSocket, RetryFollowsSocket

\* Breaking a socket, when its heartbeat runs or it is open.
LEMMA SoleForced ==
  ASSUME TypeOK, Sole, ForceReconnect, UNCHANGED <<intentional, overlap>>, ~overlap => IsOpen
  PROVE  Sole'
<1> SUFFICES ASSUME ~overlap PROVE Sole'
  BY DEF Sole, SoleSocket, RetryFollowsSocket
<1>1. current \in Sock /\ ~Over(current) /\ IsOpen
  BY ConstantsAssumption DEF IsOpen, Over, TypeOK, DataTypes
<1>2. sock' = [sock EXCEPT ![current] = "closing"] /\ UNCHANGED <<current, retry, strayRetry>>
  BY <1>1, ConstantsAssumption DEF ForceReconnect, retries
<1>3. ~retry /\ strayRetry = 0 /\ ~strayBeat
  BY <1>1 DEF Sole, SoleSocket
<1>4. ~beating' /\ ~strayBeat'
  BY <1>3 DEF ForceReconnect, StopHeartbeat
<1>5. ~IsOpen'
  BY <1>1, <1>2 DEF IsOpen, TypeOK, DataTypes
<1>6. \A z \in Sock : ~Over(z)' => z = current'
  BY <1>2 DEF Over, TypeOK, DataTypes, Sole, SoleSocket
<1> QED BY <1>2, <1>3, <1>4, <1>5, <1>6 DEF Sole, SoleSocket, RetryFollowsSocket

\* Every step keeps the one socket.
LEMMA SoleStep == TypeOK /\ Sole /\ [Next]_vars => Sole'
<1> SUFFICES ASSUME TypeOK, Sole, [Next]_vars PROVE Sole'
  OBVIOUS
<1> USE DEF sockets, timers, retries, health
<1>1. ASSUME Connect PROVE Sole'
  <2>1. PICK s \in Sock : Connects(s)
    BY <1>1 DEF Connect
  <2>2. retry' => overlap
    BY <1>1 DEF Connect, Sole, SoleSocket, RetryFollowsSocket
  <2> QED BY <1>1, <2>1, <2>2, SoleConnect DEF Connect
<1>2. ASSUME Close PROVE Sole'
  <2> SUFFICES ASSUME ~overlap PROVE Sole'
    BY <1>2 DEF Sole, SoleSocket, RetryFollowsSocket, Close
  <2>1. ~retry' /\ ~beating' /\ ~strayBeat' /\ strayRetry' = 0
    BY <1>2 DEF Close, StopHeartbeat, Sole, SoleSocket
  <2>2. \A z \in Sock : ~Over(z)' => z = current'
    BY <1>2 DEF Close, Over, TypeOK, DataTypes, Sole, SoleSocket
  <2>3. ~IsOpen'
    BY <1>2, ConstantsAssumption DEF Close, IsOpen, Over, TypeOK, DataTypes
  <2> QED BY <2>1, <2>2, <2>3 DEF Sole, SoleSocket, RetryFollowsSocket
<1>3. ASSUME WakeOpen PROVE Sole'
  BY <1>3, SoleKept DEF WakeOpen
<1>4. ASSUME WakeConnects PROVE Sole'
  <2>1. PICK s \in Sock : Connects(s)
    BY <1>4 DEF WakeConnects
  <2> QED BY <1>4, <2>1, SoleConnect DEF WakeConnects
<1>5. ASSUME RetryFires PROVE Sole'
  <2>1. PICK s \in Sock : Connects(s)
    BY <1>5 DEF RetryFires
  <2>2. CASE retry /\ retry' = FALSE /\ UNCHANGED strayRetry
    BY <1>5, <2>1, <2>2, SoleConnect DEF RetryFires
  <2>3. CASE strayRetry > 0
    <3>1. strayRetry # 0
      BY <2>3
    <3>2. overlap /\ overlap'
      BY <2>1, <3>1 DEF Sole, SoleSocket, Connects
    <3> QED BY <3>2 DEF Sole, SoleSocket, RetryFollowsSocket
  <2> QED BY <1>5, <2>2, <2>3 DEF RetryFires
<1>6. ASSUME Beat PROVE Sole'
  <2>1. ~overlap => IsOpen
    BY <1>6 DEF Beat, Sole, SoleSocket
  <2>2. CASE ForceReconnect
    BY <1>6, <2>1, <2>2, SoleForced DEF Beat
  <2>3. CASE ~ForceReconnect
    BY <1>6, <2>3, SoleKept DEF Beat
  <2> QED BY <2>2, <2>3
<1>7. ASSUME AckOverdue PROVE Sole'
  BY <1>7, SoleKept DEF AckOverdue
<1>8. ASSUME LivenessFails PROVE Sole'
  <2>1. CASE IsOpen /\ ForceReconnect
    BY <1>8, <2>1, SoleForced DEF LivenessFails
  <2>2. CASE ~(IsOpen /\ ForceReconnect)
    BY <1>8, <2>2, SoleKept DEF LivenessFails
  <2> QED BY <2>1, <2>2
<1>9. ASSUME NEW s \in Sock, Opens(s) PROVE Sole'
  <2> SUFFICES ASSUME ~overlap PROVE Sole'
    BY <1>9 DEF Sole, SoleSocket, RetryFollowsSocket, Opens
  <2>1. s = current /\ ~Over(s) /\ ~IsOpen
    BY <1>9 DEF Opens, Over, IsOpen, Sole, SoleSocket
  <2>2. ~retry /\ strayRetry = 0 /\ ~beating /\ ~strayBeat
    BY <2>1 DEF Sole, SoleSocket
  <2>3. ~retry' /\ strayRetry' = 0 /\ beating' /\ ~strayBeat'
    BY <1>9, <2>2 DEF Opens
  <2>4. IsOpen'
    BY <1>9, <2>1, ConstantsAssumption DEF Opens, IsOpen, TypeOK, DataTypes
  <2>5. \A z \in Sock : ~Over(z)' => z = current'
    BY <1>9, <2>1 DEF Opens, Over, TypeOK, DataTypes, Sole, SoleSocket
  <2> QED BY <2>3, <2>4, <2>5 DEF Sole, SoleSocket, RetryFollowsSocket
<1>10. ASSUME NEW s \in Sock, Ack(s) PROVE Sole'
  BY <1>10, SoleKept DEF Ack
<1>11. ASSUME NEW s \in Sock, Drops(s) PROVE Sole'
  BY <1>11, SoleKept DEF Drops
<1>12. ASSUME NEW s \in Sock, NEW code \in Codes, Closes(s, code) PROVE Sole'
  <2> SUFFICES ASSUME ~overlap PROVE Sole'
    BY <1>12 DEF Sole, SoleSocket, RetryFollowsSocket, Closes
  <2>1. s = current /\ ~Over(s)
    BY <1>12 DEF Closes, CodesOf, Sole, SoleSocket
  <2>2. ~retry /\ strayRetry = 0 /\ ~strayBeat
    BY <2>1 DEF Sole, SoleSocket
  <2>3. \A z \in Sock : Over(z)'
    BY <1>12, <2>1 DEF Closes, Over, TypeOK, DataTypes, Sole, SoleSocket
  <2>4. ~IsOpen' /\ ~beating' /\ ~strayBeat'
    BY <1>12, <2>1, <2>2 DEF Closes, StopHeartbeat, IsOpen, TypeOK, DataTypes
  <2>5. strayRetry' = 0 /\ (retry' => ~intentional')
    BY <1>12, <2>2 DEF Closes, SetRetry
  <2>6. current' # None
    BY <1>12, <2>1, ConstantsAssumption DEF Closes
  <2> QED BY <2>3, <2>4, <2>5, <2>6 DEF Sole, SoleSocket, RetryFollowsSocket
<1>13. ASSUME UNCHANGED vars PROVE Sole'
  BY <1>13, SoleKept DEF vars
<1> QED
  BY <1>1, <1>2, <1>3, <1>4, <1>5, <1>6, <1>7, <1>8, <1>9, <1>10, <1>11,
     <1>12, <1>13, NextCases

\* However many sockets there are: as long as no connect overlaps another
\* socket, there is one at a time, with one heartbeat while it is open, and
\* no reconnect timer runs beside it (llming-ws.js, connect and close).
THEOREM SoleSafety == Spec => []SoleSocket
<1>1. Init => Sole
  BY DEF Init, Sole, SoleSocket, RetryFollowsSocket, Over, IsOpen
<1> QED BY <1>1, SoleStep, TypeCorrect, PTL DEF Spec, Sole

-----------------------------------------------------------------------------
(* Something is always to happen *)

\* Connecting leaves a socket that is not over.
LEMMA ConnectMoves ==
  ASSUME TypeOK, NEW s \in Sock, Connects(s)
  PROVE  NeverStuck'
<1>1. ~Over(s)'
  BY DEF Connects, Over, TypeOK, DataTypes
<1> QED BY <1>1 DEF NeverStuck

\* Breaking a socket leaves its close event, a timer or a reason.
LEMMA ForceReconnectMoves ==
  ASSUME TypeOK, ForceReconnect
  PROVE  NeverStuck'
<1>1. CASE current # None /\ ~Over(current) /\ sock' = [sock EXCEPT ![current] = "closing"]
  <2>1. current \in Sock /\ sock'[current] = "closing"
    BY <1>1 DEF TypeOK, DataTypes
  <2> QED BY <2>1 DEF NeverStuck, Over
<1>2. CASE SetRetry
  BY <1>2 DEF SetRetry, NeverStuck
<1>3. CASE lost' = "exhausted"
  BY <1>3 DEF NeverStuck
<1> QED BY <1>1, <1>2, <1>3 DEF ForceReconnect

\* Every step leaves something to happen.
LEMMA StuckStep == TypeOK /\ NeverStuck /\ [Next]_vars => NeverStuck'
<1> SUFFICES ASSUME TypeOK, NeverStuck, [Next]_vars PROVE NeverStuck'
  OBVIOUS
<1> USE DEF sockets, timers, retries, health
<1>1. ASSUME Connect PROVE NeverStuck'
  BY <1>1, ConnectMoves DEF Connect
<1>2. ASSUME Close PROVE NeverStuck'
  BY <1>2 DEF Close, NeverStuck
<1>3. ASSUME WakeOpen PROVE NeverStuck'
  BY <1>3 DEF WakeOpen, NeverStuck, Over
<1>4. ASSUME WakeConnects PROVE NeverStuck'
  BY <1>4, ConnectMoves DEF WakeConnects
<1>5. ASSUME RetryFires PROVE NeverStuck'
  BY <1>5, ConnectMoves DEF RetryFires
<1>6. ASSUME Beat PROVE NeverStuck'
  <2>1. CASE ForceReconnect
    BY <2>1, ForceReconnectMoves
  <2>2. CASE ~ForceReconnect
    BY <1>6, <2>2 DEF Beat, NeverStuck, Over
  <2> QED BY <2>1, <2>2
<1>7. ASSUME AckOverdue PROVE NeverStuck'
  BY <1>7 DEF AckOverdue, NeverStuck, Over
<1>8. ASSUME LivenessFails PROVE NeverStuck'
  <2>1. CASE ForceReconnect
    BY <2>1, ForceReconnectMoves
  <2>2. CASE ~ForceReconnect
    BY <1>8, <2>2 DEF LivenessFails, NeverStuck, Over
  <2> QED BY <2>1, <2>2
<1>9. ASSUME NEW s \in Sock, Opens(s) PROVE NeverStuck'
  <2>1. ~Over(s)'
    BY <1>9 DEF Opens, Over, TypeOK, DataTypes
  <2> QED BY <2>1 DEF NeverStuck
<1>10. ASSUME NEW s \in Sock, Ack(s) PROVE NeverStuck'
  BY <1>10 DEF Ack, NeverStuck, Over
<1>11. ASSUME NEW s \in Sock, Drops(s) PROVE NeverStuck'
  BY <1>11 DEF Drops, NeverStuck, Over
<1>12. ASSUME NEW s \in Sock, NEW code \in Codes, Closes(s, code) PROVE NeverStuck'
  BY <1>12 DEF Closes, SetRetry, NeverStuck
<1>13. ASSUME UNCHANGED vars PROVE NeverStuck'
  BY <1>13 DEF vars, NeverStuck, Over
<1> QED
  BY <1>1, <1>2, <1>3, <1>4, <1>5, <1>6, <1>7, <1>8, <1>9, <1>10, <1>11,
     <1>12, <1>13, NextCases

\* Whatever closes, breaks or falls silent, and in whatever order: a client
\* that was neither closed nor told that its session is lost has a socket that
\* will report, or a timer that will connect (llming-ws.js, onclose and
\* _forceReconnect).
THEOREM StuckSafety == Spec => []NeverStuck
<1>1. Init => NeverStuck
  BY DEF Init, NeverStuck
<1> QED BY <1>1, StuckStep, TypeCorrect, PTL DEF Spec

-----------------------------------------------------------------------------
(* The mailbox of a relay room *)

\* The actions of RelayMailbox, as a preservation proof splits them.
LEMMA MailboxCases ==
  ASSUME NEW P, [Mailbox!Next]_(Mailbox!vars),
         \A d \in Devices : Mailbox!ConnectChecks(d) => P,
         \A d \in Devices : Mailbox!ConnectStores(d) => P,
         \A d \in Devices : Mailbox!Respond(d) => P,
         \A d \in Devices : Mailbox!ReadResponse(d) => P,
         Mailbox!Poll => P,
         Mailbox!PollLost => P,
         Mailbox!Renew => P,
         Mailbox!Alarm => P,
         Mailbox!Evict => P,
         Mailbox!Tick => P,
         UNCHANGED Mailbox!vars => P
  PROVE  P
BY DEF Mailbox!Next, Mailbox!Device

\* A clock that is capped keeps its type.
LEMMA OlderType ==
  ASSUME NEW cap \in Nat, NEW age \in -1 .. cap
  PROVE  Mailbox!Older(age, cap) \in -1 .. cap
BY DEF Mailbox!Older, Mailbox!Absent

\* A cleanup keeps the type of a table, and every entry that is not too old.
LEMMA CleanedTable ==
  ASSUME NEW box \in [Devices -> -1 .. Ttl + 1]
  PROVE  /\ Mailbox!Cleaned(box) \in [Devices -> -1 .. Ttl + 1]
         /\ \A d \in Devices : box[d] \in 0 .. Ttl => Mailbox!Cleaned(box)[d] = box[d]
         /\ Mailbox!Present(Mailbox!Cleaned(box)) \subseteq Mailbox!Present(box)
BY MailboxAssumption
   DEF Mailbox!ConstantsAssumption, Mailbox!Cleaned, Mailbox!Expired, Mailbox!Present, Mailbox!Absent

\* Every step of the mailbox keeps the types.
LEMMA MailboxTypeStep == Mailbox!TypeOK /\ [Mailbox!Next]_(Mailbox!vars) => Mailbox!TypeOK'
<1> SUFFICES ASSUME Mailbox!TypeOK, [Mailbox!Next]_(Mailbox!vars) PROVE Mailbox!TypeOK'
  OBVIOUS
<1> USE MailboxAssumption
    DEF Mailbox!ConstantsAssumption, Mailbox!TypeOK, Mailbox!mail, Mailbox!past, Mailbox!Absent
<1>1. ASSUME NEW d \in Devices, Mailbox!ConnectChecks(d) PROVE Mailbox!TypeOK'
  BY <1>1 DEF Mailbox!ConnectChecks
<1>2. ASSUME NEW d \in Devices, Mailbox!ConnectStores(d) PROVE Mailbox!TypeOK'
  BY <1>2 DEF Mailbox!ConnectStores
<1>3. ASSUME NEW d \in Devices, Mailbox!Respond(d) PROVE Mailbox!TypeOK'
  BY <1>3 DEF Mailbox!Respond, Mailbox!HandleRespond, Mailbox!Fault
<1>4. ASSUME NEW d \in Devices, Mailbox!ReadResponse(d) PROVE Mailbox!TypeOK'
  <2>1. pending' \in [Devices -> -1 .. Ttl + 1] /\ responses' \in [Devices -> -1 .. Ttl + 1]
    BY <1>4, CleanedTable DEF Mailbox!ReadResponse
  <2> QED BY <1>4, <2>1 DEF Mailbox!ReadResponse, Mailbox!Fault
<1>5. ASSUME Mailbox!Poll PROVE Mailbox!TypeOK'
  <2>1. responses' \in [Devices -> -1 .. Ttl + 1]
    BY <1>5, CleanedTable DEF Mailbox!Poll
  <2> QED BY <1>5, <2>1 DEF Mailbox!Poll, Mailbox!Present
<1>6. ASSUME Mailbox!PollLost PROVE Mailbox!TypeOK'
  <2>1. responses' \in [Devices -> -1 .. Ttl + 1]
    BY <1>6, CleanedTable DEF Mailbox!PollLost
  <2> QED BY <1>6, <2>1 DEF Mailbox!PollLost, Mailbox!Present, Mailbox!Fault
<1>7. ASSUME Mailbox!Renew PROVE Mailbox!TypeOK'
  BY <1>7 DEF Mailbox!Renew, Mailbox!HandleRegister
<1>8. ASSUME Mailbox!Alarm PROVE Mailbox!TypeOK'
  <2>1. pending' \in [Devices -> -1 .. Ttl + 1] /\ responses' \in [Devices -> -1 .. Ttl + 1]
    BY <1>8, CleanedTable DEF Mailbox!Alarm
  <2> QED BY <1>8, <2>1 DEF Mailbox!Alarm
<1>9. ASSUME Mailbox!Evict PROVE Mailbox!TypeOK'
  BY <1>9 DEF Mailbox!Evict, Mailbox!Present, Mailbox!Fault
<1>10. ASSUME Mailbox!Tick PROVE Mailbox!TypeOK'
  <2>1. /\ pending' \in [Devices -> -1 .. Ttl + 1]
        /\ responses' \in [Devices -> -1 .. Ttl + 1]
        /\ asked' \in [Devices -> -1 .. Ttl + 1]
        /\ pollAge' \in -1 .. MinPoll
    BY <1>10, OlderType DEF Mailbox!Tick
  <2> QED BY <1>10, <2>1 DEF Mailbox!Tick
<1>11. ASSUME UNCHANGED Mailbox!vars PROVE Mailbox!TypeOK'
  BY <1>11 DEF Mailbox!vars
<1> QED
  BY <1>1, <1>2, <1>3, <1>4, <1>5, <1>6, <1>7, <1>8, <1>9, <1>10, <1>11, MailboxCases

\* Every step of the mailbox keeps an alarm as long as there are entries: only
\* the alarm itself goes off, and it sets another one if anything is left.
LEMMA AlarmStep ==
  Mailbox!TypeOK /\ Mailbox!EntriesHaveAlarm /\ [Mailbox!Next]_(Mailbox!vars) => Mailbox!EntriesHaveAlarm'
<1> SUFFICES ASSUME Mailbox!TypeOK, Mailbox!EntriesHaveAlarm, [Mailbox!Next]_(Mailbox!vars)
             PROVE  Mailbox!EntriesHaveAlarm'
  OBVIOUS
<1> USE MailboxAssumption DEF Mailbox!ConstantsAssumption, Mailbox!mail, Mailbox!past, Mailbox!Absent
<1>a. ASSUME UNCHANGED alarm,
             \A d \in Devices : pending[d] = -1 => pending'[d] = -1,
             \A d \in Devices : responses[d] = -1 => responses'[d] = -1
      PROVE  Mailbox!EntriesHaveAlarm'
  BY <1>a DEF Mailbox!EntriesHaveAlarm, Mailbox!Present
<1>b. ASSUME alarm' = Interval PROVE Mailbox!EntriesHaveAlarm'
  BY <1>b DEF Mailbox!EntriesHaveAlarm
<1>1. ASSUME NEW d \in Devices, Mailbox!ConnectChecks(d) PROVE Mailbox!EntriesHaveAlarm'
  BY <1>1, <1>a DEF Mailbox!ConnectChecks
<1>2. ASSUME NEW d \in Devices, Mailbox!ConnectStores(d) PROVE Mailbox!EntriesHaveAlarm'
  BY <1>2, <1>b DEF Mailbox!ConnectStores
<1>3. ASSUME NEW d \in Devices, Mailbox!Respond(d) PROVE Mailbox!EntriesHaveAlarm'
  BY <1>3, <1>a, <1>b DEF Mailbox!Respond, Mailbox!HandleRespond
<1>4. ASSUME NEW d \in Devices, Mailbox!ReadResponse(d) PROVE Mailbox!EntriesHaveAlarm'
  BY <1>4, <1>a DEF Mailbox!ReadResponse, Mailbox!Cleaned, Mailbox!TypeOK
<1>5. ASSUME Mailbox!Poll PROVE Mailbox!EntriesHaveAlarm'
  BY <1>5, <1>a DEF Mailbox!Poll, Mailbox!Cleaned
<1>6. ASSUME Mailbox!PollLost PROVE Mailbox!EntriesHaveAlarm'
  BY <1>6, <1>a DEF Mailbox!PollLost, Mailbox!Cleaned
<1>7. ASSUME Mailbox!Renew PROVE Mailbox!EntriesHaveAlarm'
  BY <1>7, <1>a DEF Mailbox!Renew
<1>8. ASSUME Mailbox!Alarm PROVE Mailbox!EntriesHaveAlarm'
  BY <1>8 DEF Mailbox!Alarm, Mailbox!EntriesHaveAlarm, Mailbox!Present
<1>9. ASSUME Mailbox!Evict PROVE Mailbox!EntriesHaveAlarm'
  BY <1>9, <1>a DEF Mailbox!Evict
<1>10. ASSUME Mailbox!Tick PROVE Mailbox!EntriesHaveAlarm'
  <2>1. alarm # -1 => alarm' # -1
    BY <1>10 DEF Mailbox!Tick, Mailbox!TypeOK
  <2>2. /\ \A d \in Devices : pending[d] = -1 => pending'[d] = -1
        /\ \A d \in Devices : responses[d] = -1 => responses'[d] = -1
    BY <1>10 DEF Mailbox!Tick, Mailbox!Older
  <2> QED BY <2>1, <2>2 DEF Mailbox!EntriesHaveAlarm, Mailbox!Present
<1>11. ASSUME UNCHANGED Mailbox!vars PROVE Mailbox!EntriesHaveAlarm'
  BY <1>11, <1>a DEF Mailbox!vars
<1> QED
  BY <1>1, <1>2, <1>3, <1>4, <1>5, <1>6, <1>7, <1>8, <1>9, <1>10, <1>11, MailboxCases

\* Every step keeps a wish known by an entry that is not older than it.
LEMMA WishStep ==
  Mailbox!TypeOK /\ Mailbox!WishHasYoungEntry /\ [Mailbox!Next]_(Mailbox!vars) => Mailbox!WishHasYoungEntry'
<1> SUFFICES ASSUME Mailbox!TypeOK, Mailbox!WishHasYoungEntry, [Mailbox!Next]_(Mailbox!vars),
                    NEW e \in Devices, asked'[e] \in 0 .. Ttl
             PROVE  \/ pending'[e] \in 0 .. asked'[e]
                    \/ responses'[e] \in 0 .. asked'[e]
                    \/ e \in todo' \cup forgotten'
  BY DEF Mailbox!WishHasYoungEntry
<1> DEFINE Known == \/ pending'[e] \in 0 .. asked'[e]
                    \/ responses'[e] \in 0 .. asked'[e]
                    \/ e \in todo' \cup forgotten'
<1> USE MailboxAssumption DEF Mailbox!ConstantsAssumption, Mailbox!mail, Mailbox!past, Mailbox!Absent
<1>a. ASSUME UNCHANGED asked PROVE asked[e] \in 0 .. Ttl /\ asked'[e] = asked[e]
  BY <1>a
<1>b. asked[e] \in 0 .. Ttl => \/ pending[e] \in 0 .. asked[e]
                               \/ responses[e] \in 0 .. asked[e]
                               \/ e \in todo \cup forgotten
  BY DEF Mailbox!WishHasYoungEntry
<1>1. ASSUME NEW d \in Devices, Mailbox!ConnectChecks(d) PROVE Known
  BY <1>1, <1>a, <1>b DEF Mailbox!ConnectChecks
<1>2. ASSUME NEW d \in Devices, Mailbox!ConnectStores(d) PROVE Known
  <2>1. CASE e = d
    BY <1>2, <2>1 DEF Mailbox!ConnectStores, Mailbox!TypeOK
  <2>2. CASE e # d
    BY <1>2, <2>2, <1>b DEF Mailbox!ConnectStores, Mailbox!TypeOK
  <2> QED BY <2>1, <2>2
<1>3. ASSUME NEW d \in Devices, Mailbox!Respond(d) PROVE Known
  <2>1. asked' = asked
    BY <1>3 DEF Mailbox!Respond
  <2>2. CASE e = d
    BY <1>3, <2>1, <2>2, <1>a DEF Mailbox!Respond, Mailbox!HandleRespond, Mailbox!TypeOK, Mailbox!Wishing
  <2>3. CASE e # d
    BY <1>3, <2>1, <2>3, <1>b DEF Mailbox!Respond, Mailbox!HandleRespond, Mailbox!TypeOK
  <2> QED BY <2>2, <2>3
<1>4. ASSUME NEW d \in Devices, Mailbox!ReadResponse(d) PROVE Known
  <2> DEFINE rest == Mailbox!Cleaned(responses)
  <2>1. /\ pending[e] \in 0 .. Ttl => pending'[e] = pending[e]
        /\ responses[e] \in 0 .. Ttl => rest[e] = responses[e]
        /\ rest \in [Devices -> -1 .. Ttl + 1]
    BY <1>4, CleanedTable DEF Mailbox!ReadResponse, Mailbox!TypeOK
  <2>2. CASE e = d
    <3>1. CASE rest[d] = -1
      <4>1. UNCHANGED <<asked, todo, forgotten>>
        BY <1>4, <3>1 DEF Mailbox!ReadResponse
      <4>2. responses[e] \notin 0 .. Ttl
        BY <2>1, <2>2, <3>1
      <4> QED BY <4>1, <4>2, <2>1, <1>a, <1>b DEF Mailbox!TypeOK
    <3>2. CASE rest[d] # -1
      BY <1>4, <2>2, <3>2 DEF Mailbox!ReadResponse, Mailbox!TypeOK, Mailbox!Wishing
    <3> QED BY <3>1, <3>2
  <2>3. CASE e # d
    <3>1. asked'[e] = asked[e] /\ responses'[e] = rest[e]
      BY <1>4, <2>1, <2>3 DEF Mailbox!ReadResponse, Mailbox!TypeOK
    <3>2. e \in todo \cup forgotten => e \in todo' \cup forgotten'
      BY <1>4, <2>3 DEF Mailbox!ReadResponse
    <3> QED BY <2>1, <3>1, <3>2, <1>b DEF Mailbox!TypeOK
  <2> QED BY <2>2, <2>3
<1>5. ASSUME Mailbox!Poll \/ Mailbox!PollLost PROVE Known
  <2>1. /\ pending[e] \in 0 .. Ttl => e \in Mailbox!Present(Mailbox!Cleaned(pending))
        /\ responses[e] \in 0 .. Ttl => responses'[e] = responses[e]
    <3>1. responses' = Mailbox!Cleaned(responses)
      BY <1>5 DEF Mailbox!Poll, Mailbox!PollLost
    <3> QED BY <3>1, CleanedTable DEF Mailbox!Present, Mailbox!TypeOK
  <2>2. /\ asked' = asked
        /\ e \in todo \cup forgotten \cup Mailbox!Present(Mailbox!Cleaned(pending))
           => e \in todo' \cup forgotten'
    BY <1>5, <1>a DEF Mailbox!Poll, Mailbox!PollLost, Mailbox!Wishing
  <2> QED BY <2>1, <2>2, <1>a, <1>b DEF Mailbox!TypeOK
<1>6. ASSUME Mailbox!Renew PROVE Known
  BY <1>6, <1>a, <1>b DEF Mailbox!Renew
<1>7. ASSUME Mailbox!Alarm PROVE Known
  <2>1. /\ pending[e] \in 0 .. Ttl => pending'[e] = pending[e]
        /\ responses[e] \in 0 .. Ttl => responses'[e] = responses[e]
    BY <1>7, CleanedTable DEF Mailbox!Alarm, Mailbox!TypeOK
  <2>2. UNCHANGED <<asked, todo, forgotten>>
    BY <1>7 DEF Mailbox!Alarm
  <2> QED BY <2>1, <2>2, <1>a, <1>b DEF Mailbox!TypeOK
<1>8. ASSUME Mailbox!Evict PROVE Known
  <2>1. /\ UNCHANGED <<asked, todo>>
        /\ e \in forgotten \cup Mailbox!Present(pending) \cup Mailbox!Present(responses)
           => e \in forgotten'
    BY <1>8, <1>a DEF Mailbox!Evict, Mailbox!Wishing
  <2> QED BY <2>1, <1>a, <1>b DEF Mailbox!Present
<1>9. ASSUME Mailbox!Tick PROVE Known
  <2>1. /\ asked'[e] = Mailbox!Older(asked[e], Ttl + 1)
        /\ pending'[e] = Mailbox!Older(pending[e], Ttl + 1)
        /\ responses'[e] = Mailbox!Older(responses[e], Ttl + 1)
        /\ todo' = todo /\ forgotten' = forgotten \cap Mailbox!Wishing'
    BY <1>9 DEF Mailbox!Tick
  <2>2. asked[e] \in 0 .. Ttl /\ asked'[e] = asked[e] + 1
    BY <2>1 DEF Mailbox!Older, Mailbox!TypeOK
  <2>3. e \in todo \cup forgotten => e \in todo' \cup forgotten'
    BY <2>1 DEF Mailbox!Wishing
  <2> QED BY <2>1, <2>2, <2>3, <1>b DEF Mailbox!Older, Mailbox!TypeOK
<1>10. ASSUME UNCHANGED Mailbox!vars PROVE Known
  BY <1>10, <1>a, <1>b DEF Mailbox!vars
<1> QED
  BY <1>1, <1>2, <1>3, <1>4, <1>5, <1>6, <1>7, <1>8, <1>9, <1>10, MailboxCases

\* A device's wish does not vanish from the room: whatever other devices, the
\* cleanups and the alarm do, it is pending, with the host, answered or lost to
\* a fault until it is older than its time to live; and entries never lack an
\* alarm (SignalRelay's /connect, /pending, /respond and /response, index.js).
THEOREM MailboxSafety == Mailbox!Spec => []WishIsKnown
<1>1. Mailbox!Init => Mailbox!MailboxInv
  BY MailboxAssumption
     DEF Mailbox!ConstantsAssumption, Mailbox!Init, Mailbox!MailboxInv, Mailbox!TypeOK,
         Mailbox!EntriesHaveAlarm, Mailbox!WishHasYoungEntry, Mailbox!Present, Mailbox!Absent
<1>2. Mailbox!MailboxInv /\ [Mailbox!Next]_(Mailbox!vars) => Mailbox!MailboxInv'
  BY MailboxTypeStep, AlarmStep, WishStep DEF Mailbox!MailboxInv
<1>3. Mailbox!MailboxInv => WishIsKnown
  BY MailboxAssumption
     DEF Mailbox!ConstantsAssumption, Mailbox!MailboxInv, Mailbox!TypeOK, Mailbox!WishHasYoungEntry,
         WishIsKnown, Mailbox!WishIsKnown, Mailbox!Present, Mailbox!Absent
<1> QED BY <1>1, <1>2, <1>3, PTL DEF Mailbox!Spec

-----------------------------------------------------------------------------
(* Sequences *)

\* The elements of two sequences, and whether they are distinct.
LEMMA ConcatElements ==
  ASSUME NEW S, NEW s \in Seq(S), NEW t \in Seq(S)
  PROVE  /\ Signaling!ToSet(s \o t) = Signaling!ToSet(s) \cup Signaling!ToSet(t)
         /\ Signaling!IsInjective(s \o t)
              <=> /\ Signaling!IsInjective(s) /\ Signaling!IsInjective(t)
                  /\ Signaling!ToSet(s) \cap Signaling!ToSet(t) = {}
<1> DEFINE c == s \o t
<1>1. /\ DOMAIN s = 1 .. Len(s) /\ DOMAIN t = 1 .. Len(t) /\ DOMAIN c = 1 .. (Len(s) + Len(t))
      /\ Len(s) \in Nat /\ Len(t) \in Nat
  BY ConcatProperties, LenProperties
<1>2. /\ \A i \in 1 .. Len(s) : i \in 1 .. (Len(s) + Len(t)) /\ c[i] = s[i]
      /\ \A i \in 1 .. Len(t) : Len(s) + i \in 1 .. (Len(s) + Len(t)) /\ c[Len(s) + i] = t[i]
  BY <1>1, ConcatProperties
<1>3. \A k \in 1 .. (Len(s) + Len(t)) :
        \/ k \in 1 .. Len(s) /\ c[k] = s[k]
        \/ k - Len(s) \in 1 .. Len(t) /\ c[k] = t[k - Len(s)]
  BY <1>1, ConcatProperties
<1> HIDE DEF c
<1>4. Signaling!ToSet(c) = Signaling!ToSet(s) \cup Signaling!ToSet(t)
  <2>1. ASSUME NEW x \in Signaling!ToSet(c) PROVE x \in Signaling!ToSet(s) \cup Signaling!ToSet(t)
    BY <1>1, <1>3, <2>1 DEF Signaling!ToSet
  <2>2. Signaling!ToSet(s) \subseteq Signaling!ToSet(c)
    BY <1>1, <1>2 DEF Signaling!ToSet
  <2>3. ASSUME NEW j \in 1 .. Len(t) PROVE t[j] \in Signaling!ToSet(c)
    <3>1. Len(s) + j \in DOMAIN c /\ c[Len(s) + j] = t[j]
      BY <1>1, <1>2
    <3> QED BY <3>1 DEF Signaling!ToSet
  <2>4. Signaling!ToSet(t) \subseteq Signaling!ToSet(c)
    BY <1>1, <2>3 DEF Signaling!ToSet
  <2> QED BY <2>1, <2>2, <2>4
<1>5. ASSUME Signaling!IsInjective(c)
      PROVE  /\ Signaling!IsInjective(s) /\ Signaling!IsInjective(t)
             /\ Signaling!ToSet(s) \cap Signaling!ToSet(t) = {}
  <2>1. Signaling!IsInjective(s)
    BY <1>1, <1>2, <1>5 DEF Signaling!IsInjective
  <2>2. Signaling!IsInjective(t)
    <3> SUFFICES ASSUME NEW i \in 1 .. Len(t), NEW j \in 1 .. Len(t), t[i] = t[j] PROVE i = j
      BY <1>1 DEF Signaling!IsInjective
    <3>1. Len(s) + i = Len(s) + j
      BY <1>1, <1>2, <1>5 DEF Signaling!IsInjective
    <3> QED BY <1>1, <3>1
  <2>3. ASSUME NEW i \in 1 .. Len(s), NEW j \in 1 .. Len(t), s[i] = t[j] PROVE FALSE
    <3>1. i = Len(s) + j
      BY <1>1, <1>2, <1>5, <2>3 DEF Signaling!IsInjective
    <3> QED BY <1>1, <3>1
  <2> QED BY <1>1, <2>1, <2>2, <2>3 DEF Signaling!ToSet
<1>6. ASSUME Signaling!IsInjective(s), Signaling!IsInjective(t),
             Signaling!ToSet(s) \cap Signaling!ToSet(t) = {}
      PROVE  Signaling!IsInjective(c)
  <2> SUFFICES ASSUME NEW i \in DOMAIN c, NEW j \in DOMAIN c, c[i] = c[j] PROVE i = j
    BY DEF Signaling!IsInjective
  <2>1. \A m \in 1 .. Len(s), n \in 1 .. Len(t) : s[m] # t[n]
    BY <1>1, <1>6 DEF Signaling!ToSet
  <2>2. CASE i \in 1 .. Len(s) /\ c[i] = s[i]
    BY <1>1, <1>3, <1>6, <2>1, <2>2 DEF Signaling!IsInjective
  <2>3. CASE i - Len(s) \in 1 .. Len(t) /\ c[i] = t[i - Len(s)]
    <3>1. j - Len(s) \in 1 .. Len(t) /\ c[j] = t[j - Len(s)]
      BY <1>1, <1>3, <2>1, <2>3
    <3>2. i - Len(s) = j - Len(s)
      BY <1>1, <1>6, <2>3, <3>1 DEF Signaling!IsInjective
    <3> QED BY <1>1, <3>2
  <2> QED BY <1>1, <1>3, <2>2, <2>3
<1> QED BY <1>4, <1>5, <1>6 DEF c

\* A single element.
LEMMA SingletonElements ==
  ASSUME NEW e
  PROVE  Signaling!ToSet(<<e>>) = {e} /\ Signaling!IsInjective(<<e>>)
<1>1. DOMAIN <<e>> = {1} /\ <<e>>[1] = e
  OBVIOUS
<1> QED BY <1>1, Zenon DEF Signaling!ToSet, Signaling!IsInjective

\* An element is appended.
LEMMA AppendElements ==
  ASSUME NEW S, NEW s \in Seq(S), NEW e \in S
  PROVE  /\ Signaling!ToSet(Append(s, e)) = Signaling!ToSet(s) \cup {e}
         /\ Signaling!IsInjective(Append(s, e))
              <=> Signaling!IsInjective(s) /\ e \notin Signaling!ToSet(s)
<1> DEFINE one == <<e>>
<1>1. one \in Seq(S) /\ Append(s, e) = s \o one
  BY AppendIsConcat
<1>2. Signaling!ToSet(one) = {e} /\ Signaling!IsInjective(one)
  BY SingletonElements
<1> HIDE DEF one
<1> QED BY <1>1, <1>2, ConcatElements

\* The first element is taken away.
LEMMA TailElements ==
  ASSUME NEW S, NEW s \in Seq(S), s # <<>>
  PROVE  /\ Signaling!ToSet(s) = {Head(s)} \cup Signaling!ToSet(Tail(s))
         /\ Signaling!IsInjective(s)
              <=> Signaling!IsInjective(Tail(s)) /\ Head(s) \notin Signaling!ToSet(Tail(s))
<1> DEFINE one == <<Head(s)>>
           rest == Tail(s)
           whole == one \o rest
<1>1. one \in Seq(S) /\ rest \in Seq(S) /\ s = whole
  BY HeadTailProperties, ConcatProperties
<1>2. Signaling!ToSet(one) = {Head(s)} /\ Signaling!IsInjective(one)
  BY SingletonElements
<1> HIDE DEF one, rest
<1>3. /\ Signaling!ToSet(whole) = Signaling!ToSet(one) \cup Signaling!ToSet(rest)
      /\ Signaling!IsInjective(whole)
           <=> /\ Signaling!IsInjective(one) /\ Signaling!IsInjective(rest)
               /\ Signaling!ToSet(one) \cap Signaling!ToSet(rest) = {}
  BY <1>1, ConcatElements
<1> HIDE DEF whole
<1>4. Signaling!ToSet(s) = {Head(s)} \cup Signaling!ToSet(rest)
  BY <1>1, <1>2, <1>3
<1>5. Signaling!IsInjective(s) <=> Signaling!IsInjective(rest) /\ Head(s) \notin Signaling!ToSet(rest)
  BY <1>1, <1>2, <1>3
<1> QED BY <1>4, <1>5 DEF rest

-----------------------------------------------------------------------------
(* Signaling through a relay room *)

\* The actions of RelaySignaling, as a preservation proof splits them.
LEMMA SignalingCases ==
  ASSUME NEW P, [Signaling!Next]_(Signaling!vars),
         \A v \in Viewers : Signaling!Connect(v) => P,
         \A v \in Viewers : Signaling!Offer(v) => P,
         \A v \in Viewers : Signaling!TakeAnswer(v) => P,
         \A v \in Viewers : Signaling!GiveUp(v) => P,
         \A v \in Viewers : Signaling!ReceiveOffer(v) => P,
         \A v \in Viewers : Signaling!SocketCloses(v) => P,
         \A v \in Viewers : Signaling!PeerEnds(v) => P,
         Signaling!Evict => P,
         Signaling!GrantLapses => P,
         Signaling!Renew => P,
         Signaling!Poll => P,
         Signaling!PollLost => P,
         Signaling!BatchDone => P,
         Signaling!RegisterPeer => P,
         Signaling!CreateSession => P,
         Signaling!NegotiationFails => P,
         Signaling!SendAnswer => P,
         Signaling!SendFails => P,
         Signaling!StopBegins => P,
         Signaling!LoopCancelled => P,
         Signaling!StopEnds => P,
         UNCHANGED Signaling!vars => P
  PROVE  P
BY DEF Signaling!Next, Signaling!Viewer, Signaling!Relay, Signaling!Handle, Signaling!Stop

\* The types are inductive with the order of the offers, which says that an
\* offer under way has its socket.
LEMMA SignalingTypeStep ==
  Signaling!TypeOK /\ Signaling!OffersInOrder /\ [Signaling!Next]_(Signaling!vars) => Signaling!TypeOK'
<1> SUFFICES ASSUME Signaling!TypeOK, Signaling!OffersInOrder, [Signaling!Next]_(Signaling!vars)
             PROVE  Signaling!TypeOK'
  OBVIOUS
<1> USE SignalingAssumption
    DEF Signaling!ConstantsAssumption, Signaling!TypeOK, Signaling!viewer, Signaling!wire,
        Signaling!relay, Signaling!conns, Signaling!loop, Signaling!past, Signaling!Fault
<1>1. ASSUME NEW v \in Viewers, Signaling!Connect(v) PROVE Signaling!TypeOK'
  BY <1>1 DEF Signaling!Connect
<1>2. ASSUME NEW v \in Viewers, Signaling!Offer(v) PROVE Signaling!TypeOK'
  BY <1>2 DEF Signaling!Offer, Signaling!OffersInOrder
<1>3. ASSUME NEW v \in Viewers, Signaling!TakeAnswer(v) PROVE Signaling!TypeOK'
  <2>1. Head(down[v]) \in Viewers /\ Tail(down[v]) \in Seq(Viewers)
    BY <1>3, HeadTailProperties DEF Signaling!TakeAnswer
  <2> QED BY <1>3, <2>1 DEF Signaling!TakeAnswer
<1>4. ASSUME NEW v \in Viewers, Signaling!GiveUp(v) PROVE Signaling!TypeOK'
  BY <1>4 DEF Signaling!GiveUp
<1>5. ASSUME NEW v \in Viewers, Signaling!ReceiveOffer(v) PROVE Signaling!TypeOK'
  <2>1. down' \in [Viewers -> Seq(Viewers)] /\ inbox' \in Seq(Viewers) /\ outbox' \in Seq(Viewers)
    <3>1. down[v] \o outbox \in Seq(Viewers) /\ Append(inbox, v) \in Seq(Viewers)
      BY ConcatProperties, AppendProperties
    <3>2. CASE UNCHANGED <<inbox, outbox, down>>
      BY <3>2
    <3>3. CASE inbox' = Append(inbox, v) /\ down' = [down EXCEPT ![v] = @ \o outbox] /\ outbox' = <<>>
      BY <3>1, <3>3, EmptySeq
    <3> QED BY <1>5, <3>2, <3>3 DEF Signaling!ReceiveOffer
  <2> QED BY <1>5, <2>1 DEF Signaling!ReceiveOffer
<1>6. ASSUME NEW v \in Viewers, Signaling!SocketCloses(v) PROVE Signaling!TypeOK'
  BY <1>6 DEF Signaling!SocketCloses
<1>7. ASSUME NEW v \in Viewers, Signaling!PeerEnds(v) PROVE Signaling!TypeOK'
  BY <1>7 DEF Signaling!PeerEnds
<1>8. ASSUME Signaling!Evict PROVE Signaling!TypeOK'
  BY <1>8 DEF Signaling!Evict
<1>9. ASSUME Signaling!GrantLapses PROVE Signaling!TypeOK'
  <2>1. sgrant' = FALSE
    BY <1>9 DEF Signaling!GrantLapses
  <2>2. sgrant' \in BOOLEAN
    BY <2>1
  <2>3. sfaults' \in 0 .. MaxFaults
    BY <1>9 DEF Signaling!GrantLapses
  <2> QED BY <1>9, <2>2, <2>3 DEF Signaling!GrantLapses
<1>10. ASSUME Signaling!Renew PROVE Signaling!TypeOK'
  BY <1>10 DEF Signaling!Renew
<1>11. ASSUME Signaling!Poll PROVE Signaling!TypeOK'
  BY <1>11 DEF Signaling!Poll
<1>12. ASSUME Signaling!PollLost PROVE Signaling!TypeOK'
  BY <1>12 DEF Signaling!PollLost
<1>13. ASSUME Signaling!BatchDone PROVE Signaling!TypeOK'
  BY <1>13 DEF Signaling!BatchDone
<1>14. ASSUME Signaling!RegisterPeer PROVE Signaling!TypeOK'
  BY <1>14, HeadTailProperties DEF Signaling!RegisterPeer
<1>15. ASSUME Signaling!CreateSession PROVE Signaling!TypeOK'
  BY <1>15, HeadTailProperties DEF Signaling!CreateSession
<1>16. ASSUME Signaling!NegotiationFails PROVE Signaling!TypeOK'
  BY <1>16 DEF Signaling!NegotiationFails
<1>a. ASSUME NEW a \in Viewers, Signaling!Deliver(a)
      PROVE  down' \in [Viewers -> Seq(Viewers)] /\ outbox' \in Seq(Viewers)
  <2>1. \A v \in Viewers : Append(down[v], a) \in Seq(Viewers)
    BY AppendProperties
  <2>2. Append(outbox, a) \in Seq(Viewers)
    BY AppendProperties
  <2> QED BY <1>a, <2>1, <2>2 DEF Signaling!Deliver
<1>17. ASSUME Signaling!SendAnswer PROVE Signaling!TypeOK'
  <2>1. Head(batch) \in Viewers /\ Tail(batch) \in Seq(Viewers)
    BY <1>17, HeadTailProperties DEF Signaling!SendAnswer
  <2>2. down' \in [Viewers -> Seq(Viewers)] /\ outbox' \in Seq(Viewers)
    BY <1>17, <1>a, <2>1 DEF Signaling!SendAnswer
  <2> QED BY <1>17, <2>1, <2>2 DEF Signaling!SendAnswer
<1>18. ASSUME Signaling!SendFails PROVE Signaling!TypeOK'
  <2>1. Head(batch) \in Viewers
    BY <1>18, HeadTailProperties DEF Signaling!SendFails
  <2>2. down' \in [Viewers -> Seq(Viewers)] /\ outbox' \in Seq(Viewers)
    BY <1>18, <1>a, <2>1 DEF Signaling!SendFails
  <2> QED BY <1>18, <2>2 DEF Signaling!SendFails
<1>19. ASSUME Signaling!StopBegins PROVE Signaling!TypeOK'
  BY <1>19 DEF Signaling!StopBegins
<1>20. ASSUME Signaling!LoopCancelled PROVE Signaling!TypeOK'
  BY <1>20 DEF Signaling!LoopCancelled
<1>21. ASSUME Signaling!StopEnds PROVE Signaling!TypeOK'
  BY <1>21 DEF Signaling!StopEnds
<1>22. ASSUME UNCHANGED Signaling!vars PROVE Signaling!TypeOK'
  BY <1>22 DEF Signaling!vars
<1> QED
  BY <1>1, <1>2, <1>3, <1>4, <1>5, <1>6, <1>7, <1>8, <1>9, <1>10, <1>11, <1>12, <1>13, <1>14,
     <1>15, <1>16, <1>17, <1>18, <1>19, <1>20, <1>21, <1>22, SignalingCases

\* Nothing a step does brings a stopped host's peers back.
LEMMA StoppedStep ==
  Signaling!StoppedHostHasNoPeers /\ [Signaling!Next]_(Signaling!vars) => Signaling!StoppedHostHasNoPeers'
<1> SUFFICES ASSUME Signaling!StoppedHostHasNoPeers, [Signaling!Next]_(Signaling!vars), running' = "no"
             PROVE  peers' = {} /\ sessions' = {} /\ hpc' = "ended"
  BY DEF Signaling!StoppedHostHasNoPeers
<1> USE DEF Signaling!StoppedHostHasNoPeers, Signaling!viewer, Signaling!wire, Signaling!relay,
            Signaling!conns, Signaling!loop, Signaling!past
<1> DEFINE Gone == peers' = {} /\ sessions' = {} /\ hpc' = "ended"
<1>1. ASSUME NEW v \in Viewers,
             \/ Signaling!Connect(v) \/ Signaling!Offer(v) \/ Signaling!TakeAnswer(v) \/ Signaling!GiveUp(v)
             \/ Signaling!ReceiveOffer(v) \/ Signaling!SocketCloses(v) \/ Signaling!PeerEnds(v)
      PROVE  Gone
  BY <1>1 DEF Signaling!Connect, Signaling!Offer, Signaling!TakeAnswer, Signaling!GiveUp,
              Signaling!ReceiveOffer, Signaling!SocketCloses, Signaling!PeerEnds
<1>2. ASSUME \/ Signaling!Evict \/ Signaling!GrantLapses \/ Signaling!Renew
             \/ Signaling!Poll \/ Signaling!PollLost
      PROVE  Gone
  BY <1>2 DEF Signaling!Evict, Signaling!GrantLapses, Signaling!Renew, Signaling!Poll, Signaling!PollLost
<1>3. ASSUME \/ Signaling!BatchDone \/ Signaling!RegisterPeer \/ Signaling!CreateSession
             \/ Signaling!NegotiationFails \/ Signaling!SendAnswer \/ Signaling!SendFails
      PROVE  Gone
  BY <1>3 DEF Signaling!BatchDone, Signaling!RegisterPeer, Signaling!CreateSession,
              Signaling!NegotiationFails, Signaling!SendAnswer, Signaling!SendFails
<1>4. ASSUME Signaling!StopBegins \/ Signaling!LoopCancelled \/ Signaling!StopEnds PROVE Gone
  BY <1>4 DEF Signaling!StopBegins, Signaling!LoopCancelled, Signaling!StopEnds
<1>5. ASSUME UNCHANGED Signaling!vars PROVE Gone
  BY <1>5 DEF Signaling!vars
<1> QED BY <1>1, <1>2, <1>3, <1>4, <1>5, SignalingCases

\* Nothing is in an empty queue.
LEMMA NoElements == Signaling!ToSet(<<>>) = {} /\ Signaling!IsInjective(<<>>)
BY DEF Signaling!ToSet, Signaling!IsInjective

\* Every step keeps the order of the offers.
LEMMA OrderStep ==
  Signaling!TypeOK /\ Signaling!OffersInOrder /\ [Signaling!Next]_(Signaling!vars) => Signaling!OffersInOrder'
<1> SUFFICES ASSUME Signaling!TypeOK, Signaling!OffersInOrder, [Signaling!Next]_(Signaling!vars)
             PROVE  Signaling!OffersInOrder'
  OBVIOUS
<1> USE DEF Signaling!viewer, Signaling!wire, Signaling!relay, Signaling!conns, Signaling!loop,
            Signaling!past, Signaling!Fault
<1>a. ASSUME UNCHANGED <<inbox, batch, hpc, handled>>,
             arriving' \subseteq arriving,
             \A v \in Viewers : vpc'[v] \in {"idle", "open"} => vpc[v] \in {"idle", "open"},
             \A v \in Viewers : vpc'[v] \in {"open", "waiting"} => v \in connected'
      PROVE  Signaling!OffersInOrder'
  BY <1>a DEF Signaling!OffersInOrder, Signaling!Queued, Signaling!ToHandle
<1>b. ASSUME UNCHANGED <<vpc, arriving, connected, handled>>,
             Signaling!IsInjective(inbox'), Signaling!IsInjective(Signaling!ToHandle'),
             Signaling!ToSet(inbox') \cap Signaling!ToSet(Signaling!ToHandle') = {},
             Signaling!Queued' \subseteq Signaling!Queued,
             hpc' # "answering", hpc' \in {"polling", "ended"} => batch' = <<>>
      PROVE  Signaling!OffersInOrder'
  BY <1>b DEF Signaling!OffersInOrder
<1>1. ASSUME NEW v \in Viewers, Signaling!Connect(v) PROVE Signaling!OffersInOrder'
  BY <1>1, <1>a DEF Signaling!Connect, Signaling!TypeOK, Signaling!OffersInOrder
<1>2. ASSUME NEW v \in Viewers, Signaling!Offer(v) PROVE Signaling!OffersInOrder'
  <2>1. UNCHANGED <<inbox, batch, hpc, handled, connected>> /\ Signaling!Queued' = Signaling!Queued
    BY <1>2 DEF Signaling!Offer, Signaling!Queued, Signaling!ToHandle
  <2>2. v \notin handled \cup Signaling!Queued
    BY <1>2 DEF Signaling!Offer, Signaling!OffersInOrder
  <2>3. arriving' = arriving \cup {v}
    BY <1>2 DEF Signaling!Offer
  <2>4. \A w \in Viewers : /\ vpc'[w] \in {"idle", "open"} => w # v /\ vpc[w] \in {"idle", "open"}
                           /\ vpc'[w] \in {"open", "waiting"} => w \in connected
    BY <1>2 DEF Signaling!Offer, Signaling!TypeOK, Signaling!OffersInOrder
  <2> QED BY <2>1, <2>2, <2>3, <2>4 DEF Signaling!OffersInOrder, Signaling!ToHandle
<1>3. ASSUME NEW v \in Viewers, Signaling!TakeAnswer(v) PROVE Signaling!OffersInOrder'
  BY <1>3, <1>a DEF Signaling!TakeAnswer, Signaling!TypeOK, Signaling!OffersInOrder
<1>4. ASSUME NEW v \in Viewers, Signaling!GiveUp(v) PROVE Signaling!OffersInOrder'
  BY <1>4, <1>a DEF Signaling!GiveUp, Signaling!TypeOK, Signaling!OffersInOrder
<1>5. ASSUME NEW v \in Viewers, Signaling!ReceiveOffer(v) PROVE Signaling!OffersInOrder'
  <2>1. UNCHANGED <<vpc, connected, batch, hpc, handled>> /\ arriving' = arriving \ {v} /\ v \in arriving
    BY <1>5 DEF Signaling!ReceiveOffer
  <2>2. CASE UNCHANGED inbox
    BY <2>1, <2>2, <1>a DEF Signaling!OffersInOrder
  <2>3. CASE inbox' = Append(inbox, v)
    <3>1. /\ Signaling!ToSet(inbox') = Signaling!ToSet(inbox) \cup {v}
          /\ Signaling!IsInjective(inbox') <=> Signaling!IsInjective(inbox) /\ v \notin Signaling!ToSet(inbox)
      BY <2>3, AppendElements DEF Signaling!TypeOK
    <3>2. Signaling!ToHandle' = Signaling!ToHandle /\ Signaling!Queued' = Signaling!Queued \cup {v}
      BY <2>1, <3>1 DEF Signaling!Queued, Signaling!ToHandle
    <3>3. v \notin Signaling!Queued \cup handled /\ v \notin Signaling!ToSet(inbox)
      BY <2>1 DEF Signaling!OffersInOrder, Signaling!Queued
    <3>4. v \notin Signaling!ToSet(Signaling!ToHandle)
      BY <2>1 DEF Signaling!OffersInOrder, Signaling!Queued
    <3>5. vpc[v] \notin {"idle", "open"}
      BY <2>1 DEF Signaling!OffersInOrder
    <3> QED BY <2>1, <3>1, <3>2, <3>3, <3>4, <3>5 DEF Signaling!OffersInOrder
  <2> QED BY <1>5, <2>2, <2>3 DEF Signaling!ReceiveOffer
<1>6. ASSUME NEW v \in Viewers, Signaling!SocketCloses(v) PROVE Signaling!OffersInOrder'
  BY <1>6, <1>a DEF Signaling!SocketCloses, Signaling!OffersInOrder
<1>7. ASSUME \/ \E v \in Viewers : Signaling!PeerEnds(v)
             \/ Signaling!GrantLapses \/ Signaling!Renew \/ Signaling!StopBegins \/ Signaling!StopEnds
      PROVE  Signaling!OffersInOrder'
  BY <1>7, <1>a
     DEF Signaling!PeerEnds, Signaling!GrantLapses, Signaling!Renew, Signaling!StopBegins,
         Signaling!StopEnds, Signaling!OffersInOrder
<1>8. ASSUME Signaling!Evict \/ Signaling!PollLost PROVE Signaling!OffersInOrder'
  <2>1. inbox' = <<>> /\ UNCHANGED <<vpc, arriving, connected, handled, batch, hpc>>
    BY <1>8 DEF Signaling!Evict, Signaling!PollLost
  <2>2. Signaling!ToHandle' = Signaling!ToHandle
    BY <2>1 DEF Signaling!ToHandle
  <2>3. Signaling!Queued' \subseteq Signaling!Queued
    BY <2>1, <2>2, NoElements DEF Signaling!Queued
  <2> QED BY <2>1, <2>2, <2>3, NoElements DEF Signaling!OffersInOrder
<1>9. ASSUME Signaling!Poll PROVE Signaling!OffersInOrder'
  <2>1. /\ inbox' = <<>> /\ UNCHANGED <<vpc, arriving, connected, handled>>
        /\ Signaling!ToHandle' = inbox /\ hpc' = "handling"
    BY <1>9 DEF Signaling!Poll, Signaling!ToHandle
  <2> QED BY <2>1, <1>b, NoElements DEF Signaling!OffersInOrder, Signaling!Queued
<1>10. ASSUME Signaling!BatchDone PROVE Signaling!OffersInOrder'
  <2>1. UNCHANGED <<vpc, arriving, connected, handled, inbox>> /\ Signaling!ToHandle' = Signaling!ToHandle
    BY <1>10 DEF Signaling!BatchDone, Signaling!ToHandle
  <2>2. hpc' = "polling" /\ batch' = <<>>
    BY <1>10 DEF Signaling!BatchDone
  <2> QED BY <2>1, <2>2, <1>b DEF Signaling!OffersInOrder, Signaling!Queued
<1>11. ASSUME Signaling!RegisterPeer PROVE Signaling!OffersInOrder'
  <2>1. /\ UNCHANGED <<vpc, arriving, connected, handled, inbox>> /\ Signaling!ToHandle' = Signaling!ToHandle
        /\ hpc' = "negotiating"
    BY <1>11 DEF Signaling!RegisterPeer, Signaling!ToHandle
  <2> QED BY <2>1, <1>b DEF Signaling!OffersInOrder, Signaling!Queued
<1>12. ASSUME Signaling!CreateSession PROVE Signaling!OffersInOrder'
  <2>1. /\ UNCHANGED <<vpc, arriving, connected, inbox, batch>> /\ handled' = handled \cup {Head(batch)}
        /\ Signaling!ToHandle = batch /\ Signaling!ToHandle' = Tail(batch) /\ hpc' = "answering"
    BY <1>12 DEF Signaling!CreateSession, Signaling!ToHandle
  <2>2. /\ Signaling!ToSet(batch) = {Head(batch)} \cup Signaling!ToSet(Tail(batch))
        /\ Signaling!IsInjective(Tail(batch)) /\ Head(batch) \notin Signaling!ToSet(Tail(batch))
    BY <1>12, <2>1, TailElements
       DEF Signaling!CreateSession, Signaling!TypeOK, Signaling!OffersInOrder
  <2>3. Signaling!Queued = Signaling!Queued' \cup {Head(batch)} /\ Head(batch) \notin Signaling!Queued'
    BY <2>1, <2>2 DEF Signaling!Queued, Signaling!OffersInOrder
  <2>4. /\ Signaling!IsInjective(inbox') /\ Signaling!IsInjective(Signaling!ToHandle')
        /\ Signaling!ToSet(inbox') \cap Signaling!ToSet(Signaling!ToHandle') = {}
    BY <2>1, <2>2 DEF Signaling!OffersInOrder
  <2>5. arriving' \cap Signaling!Queued' = {} /\ (arriving' \cup Signaling!Queued') \cap handled' = {}
    BY <2>1, <2>3 DEF Signaling!OffersInOrder
  <2>6. handled' \cup arriving' \cup Signaling!Queued' = handled \cup arriving \cup Signaling!Queued
    BY <2>1, <2>3
  <2> QED BY <2>1, <2>4, <2>5, <2>6 DEF Signaling!OffersInOrder
<1>13. ASSUME Signaling!NegotiationFails \/ Signaling!SendFails \/ Signaling!LoopCancelled
       PROVE  Signaling!OffersInOrder'
  <2>1. /\ UNCHANGED <<vpc, arriving, connected, handled, inbox>>
        /\ batch' = <<>> /\ hpc' \in {"polling", "ended"}
    BY <1>13 DEF Signaling!NegotiationFails, Signaling!SendFails, Signaling!LoopCancelled
  <2>2. Signaling!ToHandle' = <<>>
    BY <2>1 DEF Signaling!ToHandle
  <2>3. Signaling!Queued' \subseteq Signaling!Queued
    BY <2>1, <2>2, NoElements DEF Signaling!Queued
  <2> QED BY <2>1, <2>2, <2>3, <1>b, NoElements DEF Signaling!OffersInOrder
<1>14. ASSUME Signaling!SendAnswer PROVE Signaling!OffersInOrder'
  <2>1. /\ UNCHANGED <<vpc, arriving, connected, handled, inbox>>
        /\ Signaling!ToHandle' = Signaling!ToHandle /\ hpc' = "handling"
    BY <1>14 DEF Signaling!SendAnswer, Signaling!ToHandle
  <2> QED BY <2>1, <1>b DEF Signaling!OffersInOrder, Signaling!Queued
<1>15. ASSUME UNCHANGED Signaling!vars PROVE Signaling!OffersInOrder'
  BY <1>15, <1>a DEF Signaling!vars, Signaling!OffersInOrder
<1> QED
  BY <1>1, <1>2, <1>3, <1>4, <1>5, <1>6, <1>7, <1>8, <1>9, <1>10, <1>11, <1>12, <1>13, <1>14,
     <1>15, SignalingCases

\* In the beginning nothing is under way.
LEMMA SignalingInit ==
  Signaling!Init => Signaling!TypeOK /\ Signaling!StoppedHostHasNoPeers /\ Signaling!OffersInOrder
<1> SUFFICES ASSUME Signaling!Init
             PROVE  Signaling!TypeOK /\ Signaling!StoppedHostHasNoPeers /\ Signaling!OffersInOrder
  OBVIOUS
<1>1. Signaling!TypeOK
  <2>1. <<>> \in Seq(Viewers)
    BY EmptySeq
  <2>2. /\ down \in [Viewers -> Seq(Viewers)] /\ inbox \in Seq(Viewers)
        /\ outbox \in Seq(Viewers) /\ batch \in Seq(Viewers)
    BY <2>1 DEF Signaling!Init
  <2>3. sfaults \in 0 .. MaxFaults
    BY SignalingAssumption DEF Signaling!ConstantsAssumption, Signaling!Init
  <2>4. sgrant \in BOOLEAN /\ crowded \in BOOLEAN /\ gaveUp \in BOOLEAN
    BY DEF Signaling!Init
  <2> QED BY <2>2, <2>3, <2>4 DEF Signaling!Init, Signaling!TypeOK
<1>2. Signaling!OffersInOrder
  BY NoElements DEF Signaling!Init, Signaling!OffersInOrder, Signaling!Queued, Signaling!ToHandle
<1> QED BY <1>1, <1>2 DEF Signaling!Init, Signaling!StoppedHostHasNoPeers

\* However many viewers meet in the room and whatever is lost: the host makes at
\* most one peer for an offer, and a host that stopped has no peers or sessions
\* left (SignalRelay._handleSdpInbox, index.js; RelayHost._loop and stop,
\* relay_host.py).
THEOREM SignalingSafety == Signaling!Spec => []SignalingInv
<1> DEFINE Inv == Signaling!TypeOK /\ Signaling!StoppedHostHasNoPeers /\ Signaling!OffersInOrder
<1>1. Inv /\ [Signaling!Next]_(Signaling!vars) => Inv'
  BY SignalingTypeStep, StoppedStep, OrderStep
<1>2. Inv => SignalingInv
  <2> SUFFICES ASSUME Inv PROVE Signaling!OfferHandledOnce
    BY DEF SignalingInv, Signaling!SignalingInv
  <2>1. Signaling!ToHandle \in Seq(Viewers)
    BY HeadTailProperties DEF Signaling!ToHandle, Signaling!TypeOK
  <2>2. /\ Signaling!ToSet(Signaling!Waiting) = Signaling!Queued
        /\ Signaling!IsInjective(Signaling!Waiting)
    BY <2>1, ConcatElements
       DEF Signaling!Waiting, Signaling!Queued, Signaling!OffersInOrder, Signaling!TypeOK
  <2> QED BY <2>2 DEF Signaling!OfferHandledOnce, Signaling!OffersInOrder
<1> QED BY <1>1, <1>2, SignalingInit, PTL DEF Signaling!Spec

\* Every step keeps the answers with their viewer.
LEMMA AnswersStep ==
  /\ Signaling!TypeOK /\ Signaling!OffersInOrder /\ Signaling!AnswersMeetTheirViewer
  /\ [Signaling!Next]_(Signaling!vars)
  => Signaling!AnswersMeetTheirViewer'
<1> SUFFICES ASSUME Signaling!TypeOK, Signaling!OffersInOrder, Signaling!AnswersMeetTheirViewer,
                    [Signaling!Next]_(Signaling!vars), ~crowded', ~gaveUp'
             PROVE  Signaling!AnswersMeetTheirViewer'
  BY DEF Signaling!AnswersMeetTheirViewer
<1> DEFINE Under == Signaling!Unanswered
           Met == Signaling!AnswersMeetTheirViewer'
<1> USE DEF Signaling!viewer, Signaling!wire, Signaling!relay, Signaling!conns, Signaling!loop,
            Signaling!past, Signaling!Fault
\* Steps that send no answer and let no offer begin.
<1>a. ASSUME ~crowded, ~gaveUp,
             UNCHANGED <<vgot, down>>, outbox' = <<>>, connected' \subseteq connected,
             Signaling!Unanswered' \subseteq Signaling!Unanswered,
             \A v \in Signaling!Unanswered : vpc'[v] = vpc[v],
             \A v \in Viewers : vpc'[v] \in {"idle", "open"} => vpc[v] \in {"idle", "open"}
      PROVE  Met
  <2>1. /\ \A v, w \in connected' : v = w
        /\ \A v \in Viewers : /\ vgot'[v] \subseteq {v} /\ down'[v] \in Seq({v})
                              /\ vpc'[v] \in {"idle", "open"} => down'[v] = <<>>
    BY <1>a DEF Signaling!AnswersMeetTheirViewer
  <2>2. \A v \in Signaling!Unanswered' : vpc'[v] = "waiting" /\ down'[v] = <<>>
    BY <1>a DEF Signaling!AnswersMeetTheirViewer
  <2> QED BY <1>a, <2>1, <2>2 DEF Signaling!AnswersMeetTheirViewer
<1>b. ASSUME ~crowded, ~gaveUp
      PROVE  /\ \A v, w \in connected : v = w
             /\ outbox = <<>>
             /\ \A v \in Viewers : /\ vgot[v] \subseteq {v} /\ down[v] \in Seq({v})
                                   /\ vpc[v] \in {"idle", "open"} => down[v] = <<>>
             /\ \A v \in Signaling!Unanswered : vpc[v] = "waiting" /\ down[v] = <<>>
  BY <1>b DEF Signaling!AnswersMeetTheirViewer
<1>1. ASSUME NEW v \in Viewers, Signaling!Connect(v) PROVE Met
  <2>1. /\ ~crowded /\ ~gaveUp /\ UNCHANGED <<vgot, down, outbox>>
        /\ Signaling!Unanswered' = Signaling!Unanswered
        /\ vpc[v] = "idle" /\ \A w \in Viewers : w # v => vpc'[w] = vpc[w]
        /\ connected' = connected \/ (connected = {} /\ connected' = {v})
    <3>1. ~crowded /\ (sgrant => connected = {})
      BY <1>1, Zenon DEF Signaling!Connect
    <3>2. connected' = connected \cup {v} \/ connected' = connected
      BY <1>1 DEF Signaling!Connect
    <3>3. \A w \in Viewers : w # v => vpc'[w] = vpc[w]
      BY <1>1 DEF Signaling!Connect, Signaling!TypeOK
    <3>4. /\ ~gaveUp /\ UNCHANGED <<vgot, down, outbox>> /\ vpc[v] = "idle"
          /\ Signaling!Unanswered' = Signaling!Unanswered
      BY <1>1 DEF Signaling!Connect, Signaling!Unanswered
    <3>5. connected' = connected \/ (connected = {} /\ connected' = {v})
      <4>1. connected' # connected => sgrant
        BY <1>1 DEF Signaling!Connect
      <4>2. CASE connected' # connected
        BY <3>1, <3>2, <4>1, <4>2
      <4> QED BY <4>2
    <3> QED BY <3>1, <3>3, <3>4, <3>5
  <2>2. \A w \in Viewers : vpc'[w] \in {"idle", "open"} => vpc[w] \in {"idle", "open"}
    BY <2>1
  <2>3. \A w \in Signaling!Unanswered : w # v
    BY <1>b, <2>1
  <2>4. Signaling!Unanswered \subseteq Viewers
    BY DEF Signaling!Unanswered, Signaling!TypeOK, Signaling!ToSet
  <2>5. \A w \in Signaling!Unanswered : vpc'[w] = vpc[w]
    BY <2>1, <2>3, <2>4
  <2> QED BY <1>b, <2>1, <2>2, <2>5 DEF Signaling!AnswersMeetTheirViewer
<1>2. ASSUME NEW v \in Viewers, Signaling!Offer(v) PROVE Met
  <2>1. /\ ~crowded /\ ~gaveUp /\ UNCHANGED <<vgot, down, outbox, connected>>
        /\ Signaling!Unanswered' = Signaling!Unanswered \cup {v}
        /\ vpc[v] = "open" /\ vpc' = [vpc EXCEPT ![v] = "waiting"]
    BY <1>2 DEF Signaling!Offer, Signaling!Unanswered
  <2>2. \A w \in Viewers : /\ vpc'[w] \in {"idle", "open"} => vpc[w] \in {"idle", "open"}
                           /\ vpc[w] = "waiting" => vpc'[w] = "waiting"
    BY <2>1 DEF Signaling!TypeOK
  <2>3. vpc'[v] = "waiting" /\ down[v] = <<>>
    BY <1>b, <2>1 DEF Signaling!TypeOK
  <2>4. Signaling!Unanswered \subseteq Viewers
    BY DEF Signaling!Unanswered, Signaling!TypeOK, Signaling!ToSet
  <2> QED BY <1>b, <2>1, <2>2, <2>3, <2>4 DEF Signaling!AnswersMeetTheirViewer
<1>3. ASSUME NEW v \in Viewers, Signaling!TakeAnswer(v) PROVE Met
  <2>1. /\ ~crowded /\ ~gaveUp /\ UNCHANGED <<outbox, connected>>
        /\ Signaling!Unanswered' = Signaling!Unanswered
        /\ down[v] # <<>> /\ vpc' = [vpc EXCEPT ![v] = "done"]
        /\ vgot' = [vgot EXCEPT ![v] = @ \cup {Head(down[v])}]
        /\ down' = [down EXCEPT ![v] = Tail(@)]
    BY <1>3 DEF Signaling!TakeAnswer, Signaling!Unanswered
  <2>2. Head(down[v]) = v /\ Tail(down[v]) \in Seq({v})
    <3>1. down[v] \in Seq({v})
      BY <1>b, <2>1
    <3> QED BY <2>1, <3>1, HeadTailProperties
  <2>3. v \notin Signaling!Unanswered
    BY <1>b, <2>1
  <2>4. \A w \in Viewers : /\ vgot'[w] \subseteq {w} /\ down'[w] \in Seq({w})
                           /\ vpc'[w] \in {"idle", "open"} => down'[w] = <<>>
    BY <1>b, <2>1, <2>2 DEF Signaling!TypeOK
  <2>5. Signaling!Unanswered \subseteq Viewers
    BY DEF Signaling!Unanswered, Signaling!TypeOK, Signaling!ToSet
  <2>6. \A w \in Signaling!Unanswered : vpc'[w] = "waiting" /\ down'[w] = <<>>
    BY <1>b, <2>1, <2>3, <2>5 DEF Signaling!TypeOK
  <2> QED BY <1>b, <2>1, <2>4, <2>6 DEF Signaling!AnswersMeetTheirViewer
<1>4. ASSUME NEW v \in Viewers, Signaling!GiveUp(v) PROVE Met
  BY <1>4 DEF Signaling!GiveUp
<1>5. ASSUME NEW v \in Viewers, Signaling!ReceiveOffer(v) PROVE Met
  <2>1. /\ ~crowded /\ ~gaveUp /\ UNCHANGED <<vpc, vgot, connected, batch>>
        /\ v \in arriving /\ arriving' = arriving \ {v}
    BY <1>5 DEF Signaling!ReceiveOffer
  <2>2. down' = down /\ outbox' = <<>>
    <3>1. CASE UNCHANGED <<inbox, outbox, down>>
      BY <1>b, <2>1, <3>1
    <3>2. CASE outbox' = <<>> /\ down' = [down EXCEPT ![v] = @ \o outbox]
      <4>1. down[v] \in Seq(Viewers) /\ outbox = <<>> /\ down \in [Viewers -> Seq(Viewers)]
        BY <1>b, <2>1 DEF Signaling!TypeOK
      <4>2. down[v] \o outbox = down[v]
        BY <4>1, ConcatEmptySeq
      <4> QED BY <3>2, <4>1, <4>2
    <3> QED BY <1>5, <3>1, <3>2 DEF Signaling!ReceiveOffer
  <2>3. Signaling!Unanswered' \subseteq Signaling!Unanswered
    <3>1. Signaling!ToSet(inbox') \subseteq Signaling!ToSet(inbox) \cup {v}
      <4>1. inbox' = inbox \/ inbox' = Append(inbox, v)
        BY <1>5 DEF Signaling!ReceiveOffer
      <4>2. Signaling!ToSet(Append(inbox, v)) = Signaling!ToSet(inbox) \cup {v}
        BY AppendElements DEF Signaling!TypeOK
      <4> QED BY <4>1, <4>2
    <3> QED BY <2>1, <3>1 DEF Signaling!Unanswered
  <2> QED BY <2>1, <2>2, <2>3, <1>a
<1>6. ASSUME NEW v \in Viewers, Signaling!SocketCloses(v) PROVE Met
  BY <1>6, <1>a, <1>b DEF Signaling!SocketCloses, Signaling!Unanswered
<1>7. ASSUME \/ \E v \in Viewers : Signaling!PeerEnds(v)
             \/ Signaling!GrantLapses \/ Signaling!Renew \/ Signaling!StopBegins \/ Signaling!StopEnds
             \/ Signaling!BatchDone \/ Signaling!RegisterPeer \/ Signaling!CreateSession
      PROVE  Met
  <2>1. UNCHANGED <<Signaling!viewer, Signaling!wire, Signaling!relay, batch, crowded, gaveUp>>
    BY <1>7
       DEF Signaling!PeerEnds, Signaling!GrantLapses, Signaling!Renew, Signaling!StopBegins,
           Signaling!StopEnds, Signaling!BatchDone, Signaling!RegisterPeer, Signaling!CreateSession
  <2> QED BY <2>1, <1>a, <1>b DEF Signaling!Unanswered
<1>8. ASSUME \/ Signaling!Evict \/ Signaling!PollLost \/ Signaling!Poll
             \/ Signaling!NegotiationFails \/ Signaling!LoopCancelled
      PROVE  Met
  <2>1. /\ UNCHANGED <<Signaling!viewer, Signaling!wire, connected, crowded, gaveUp>>
        /\ outbox' \in {outbox, <<>>}
        /\ inbox' \in {inbox, <<>>} /\ batch' \in {batch, inbox, <<>>}
    BY <1>8
       DEF Signaling!Evict, Signaling!PollLost, Signaling!Poll, Signaling!NegotiationFails,
           Signaling!LoopCancelled
  <2>2. Signaling!Unanswered' \subseteq Signaling!Unanswered
    BY <2>1, NoElements DEF Signaling!Unanswered
  <2> QED BY <2>1, <2>2, <1>a, <1>b
\* The answer goes to the one viewer of the room, whose offer it answers.
<1>c. ASSUME ~crowded, ~gaveUp, hpc = "answering", Signaling!Deliver(Head(batch)),
             UNCHANGED <<vpc, vgot, arriving, connected, inbox>>, batch' \in {Tail(batch), <<>>}
      PROVE  Met
  <2> DEFINE a == Head(batch)
  <2>1. /\ a \in Viewers /\ Signaling!ToSet(batch) = {a} \cup Signaling!ToSet(Tail(batch))
        /\ a \in Signaling!Unanswered /\ batch # <<>>
    BY <1>c, HeadTailProperties, TailElements DEF Signaling!TypeOK, Signaling!Unanswered
  <2>2. a \in connected /\ connected = {a} /\ vpc[a] = "waiting"
    <3>1. vpc[a] = "waiting"
      BY <1>b, <1>c, <2>1
    <3>2. a \in connected
      BY <2>1, <3>1 DEF Signaling!OffersInOrder
    <3> QED BY <1>b, <1>c, <3>1, <3>2
  <2>3. /\ outbox' = <<>>
        /\ \A w \in Viewers : down'[w] = IF w = a THEN Append(down[a], a) ELSE down[w]
    BY <1>b, <1>c, <2>2 DEF Signaling!Deliver
  <2>4. Append(down[a], a) \in Seq({a})
    BY <1>b, <1>c, <2>1, AppendProperties
  <2>5. Signaling!Unanswered' \subseteq Signaling!Unanswered \ {a}
    <3>1. Signaling!ToHandle = Tail(batch) /\ a \in handled
      BY <1>c DEF Signaling!ToHandle, Signaling!OffersInOrder
    <3>2. a \notin arriving \cup Signaling!ToSet(inbox) \cup Signaling!ToSet(Tail(batch))
      BY <3>1 DEF Signaling!OffersInOrder, Signaling!Queued
    <3> QED BY <1>c, <2>1, <3>2, NoElements DEF Signaling!Unanswered
  <2>6. \A w \in Viewers : /\ vgot'[w] \subseteq {w} /\ down'[w] \in Seq({w})
                           /\ vpc'[w] \in {"idle", "open"} => down'[w] = <<>>
    BY <1>b, <1>c, <2>2, <2>3, <2>4
  <2>7. Signaling!Unanswered \subseteq Viewers
    BY DEF Signaling!Unanswered, Signaling!TypeOK, Signaling!ToSet
  <2>8. \A w \in Signaling!Unanswered' : vpc'[w] = "waiting" /\ down'[w] = <<>>
    BY <1>b, <1>c, <2>3, <2>5, <2>7
  <2> QED BY <1>b, <1>c, <2>3, <2>6, <2>8 DEF Signaling!AnswersMeetTheirViewer
<1>9. ASSUME Signaling!SendAnswer PROVE Met
  BY <1>9, <1>c DEF Signaling!SendAnswer
<1>10. ASSUME Signaling!SendFails PROVE Met
  <2>1. CASE Signaling!Deliver(Head(batch))
    BY <1>10, <2>1, <1>c DEF Signaling!SendFails
  <2>2. CASE UNCHANGED <<down, outbox>>
    <3>1. Signaling!Unanswered' \subseteq Signaling!Unanswered
      BY <1>10, NoElements DEF Signaling!SendFails, Signaling!Unanswered
    <3> QED BY <1>10, <2>2, <3>1, <1>a, <1>b DEF Signaling!SendFails
  <2> QED BY <1>10, <2>1, <2>2 DEF Signaling!SendFails
<1>11. ASSUME UNCHANGED Signaling!vars PROVE Met
  BY <1>11, <1>a, <1>b DEF Signaling!vars, Signaling!Unanswered
<1> QED
  BY <1>1, <1>2, <1>3, <1>4, <1>5, <1>6, <1>7, <1>8, <1>9, <1>10, <1>11, SignalingCases

\* In a room that never held two viewers at once and whose viewers stayed,
\* a viewer only ever takes the answer to its own offer, though answers carry no
\* id: whatever was buffered, lost or sent again (viewer.html; _handleSdpSend,
\* index.js).
THEOREM AnswerSafety == Signaling!Spec => []LoneViewerGetsOwnAnswer
<1> DEFINE Inv == Signaling!TypeOK /\ Signaling!OffersInOrder /\ Signaling!AnswersMeetTheirViewer
<1>1. Signaling!Init => Signaling!AnswersMeetTheirViewer
  <2>1. \A v : <<>> \in Seq({v})
    BY EmptySeq
  <2> QED BY <2>1, NoElements
          DEF Signaling!Init, Signaling!AnswersMeetTheirViewer, Signaling!Unanswered
<1>2. Inv /\ [Signaling!Next]_(Signaling!vars) => Inv'
  BY SignalingTypeStep, OrderStep, AnswersStep
<1>3. Inv => LoneViewerGetsOwnAnswer
  BY DEF LoneViewerGetsOwnAnswer, Signaling!LoneViewerGetsOwnAnswer, Signaling!AnswersMeetTheirViewer
<1> QED BY <1>1, <1>2, <1>3, SignalingInit, PTL DEF Signaling!Spec

=============================================================================
