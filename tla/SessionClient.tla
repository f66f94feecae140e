---------------------------- MODULE SessionClient ----------------------------
(***************************************************************************)
(* LlmingWebSocket (static/llming-ws.js), the browser's end of a session:  *)
(* it reconnects when its socket closes, sends heartbeats, breaks a socket *)
(* that stays silent, and checks the socket when its page wakes up.        *)
(*                                                                         *)
(* Every callback runs to its end on the page's event loop, so each is an  *)
(* action.  Timers fire in any order: browsers delay those of pages in the *)
(* background.  A socket that is closed and forgotten may stand for a new  *)
(* one, so that the number of connections has no bound.                    *)
(***************************************************************************)
EXTENDS Integers, FiniteSets

CONSTANTS
  Sock,         \* WebSocket objects that exist at a time (bound)
  None,
  MaxAttempts,  \* maxReconnectAttempts
  MaxStray      \* bound: reconnect timers that nothing refers to

ASSUME ConstantsAssumption ==
  /\ None \notin Sock
  /\ {MaxAttempts, MaxStray} \subseteq Nat

VARIABLES
  current,     \* this.ws
  sock,        \* socket -> readyState, or "none"
  dead,        \* sockets whose connection was dropped without anybody noticing
  acks,        \* sockets that an ack is on its way to
  beating,     \* _heartbeatTimer is running
  strayBeat,   \* so is an interval that _heartbeatTimer was overwritten on
  ackTimer, livenessTimer,
  retry,       \* _reconnectTimer is running
  strayRetry,  \* reconnect timers that _reconnectTimer was overwritten on
  attempts,    \* _reconnectAttempts
  ever,        \* _everConnected
  intentional, \* _intentionalClose
  awaiting,    \* _awaitingAck
  missed,      \* _missedAcks, up to 2
  warned,      \* _ackWarningShown
  banner,      \* what the banner says
  lost,        \* the reason onSessionLost was last called with
  \* History
  overlap      \* connect() ran before the socket of the last one was closed

sockets == <<current, sock, dead, acks>>
timers == <<beating, strayBeat, ackTimer, livenessTimer>>
retries == <<retry, strayRetry, attempts>>
health == <<awaiting, missed, warned>>
vars == <<sockets, timers, retries, ever, intentional, health, banner, lost, overlap>>

Init ==
  /\ current = None
  /\ sock = [s \in Sock |-> "none"]
  /\ dead = {} /\ acks = {}
  /\ beating = FALSE /\ strayBeat = FALSE
  /\ ackTimer = FALSE /\ livenessTimer = FALSE
  /\ retry = FALSE /\ strayRetry = 0
  /\ attempts = 0
  /\ ever = FALSE
  /\ intentional = FALSE
  /\ awaiting = FALSE /\ missed = 0 /\ warned = FALSE
  /\ banner = "hidden"
  /\ lost = "no"
  /\ overlap = FALSE

Over(s) == sock[s] \in {"none", "closed"}
IsOpen == current # None /\ sock[current] = "open"

-----------------------------------------------------------------------------
(* Helpers of the callbacks *)

\* connect(): this.ws now is a new socket s.
Connects(s) ==
  /\ Over(s) /\ s # current
  /\ current' = s
  /\ sock' = [sock EXCEPT ![s] = "connecting"]
  /\ dead' = dead \ {s}
  /\ acks' = acks \ {s}
  /\ intentional' = FALSE
  /\ lost' = "no"
  /\ overlap' = (overlap \/ \E z \in Sock : ~Over(z))

\* _stopHeartbeat
StopHeartbeat ==
  /\ beating' = FALSE
  /\ ackTimer' = FALSE
  /\ livenessTimer' = FALSE
  /\ UNCHANGED strayBeat

\* A reconnect timer is set, whether or not one is running.
SetRetry ==
  /\ attempts' = attempts + 1
  /\ retry' = TRUE
  /\ strayRetry' = IF retry THEN strayRetry + 1 ELSE strayRetry
  /\ retry => strayRetry < MaxStray

\* send({type: "heartbeat"}): nothing if the socket is not open.
SendHeartbeat == acks' = IF IsOpen /\ current \notin dead THEN acks \cup {current} ELSE acks

\* _forceReconnect: an open socket is closed and its close event will do the
\* rest; a closed one has no event left.
ForceReconnect ==
  /\ ~intentional
  /\ StopHeartbeat
  /\ awaiting' = FALSE /\ missed' = 0
  /\ \/ /\ current # None /\ ~Over(current)
        /\ sock' = [sock EXCEPT ![current] = "closing"]
        /\ UNCHANGED <<retries, lost>>
     \/ /\ current = None \/ Over(current)
        /\ \/ attempts < MaxAttempts /\ SetRetry /\ UNCHANGED lost
           \/ attempts >= MaxAttempts /\ lost' = "exhausted" /\ UNCHANGED retries
        /\ UNCHANGED sock
  /\ UNCHANGED <<current, dead, acks, warned>>

-----------------------------------------------------------------------------
(* Calls of the application and wake-ups of the page *)

\* connect(), once and again after close().
Connect ==
  /\ current = None \/ intentional
  /\ \E s \in Sock : Connects(s)
  /\ UNCHANGED <<timers, retries, ever, health, banner>>

\* Mutant: the reconnect timer goes on.
CloseLeavingTimer ==
  /\ intentional' = TRUE
  /\ StopHeartbeat
  /\ banner' = "hidden"
  /\ sock' = IF current # None /\ ~Over(current) THEN [sock EXCEPT ![current] = "closing"] ELSE sock
  /\ UNCHANGED <<current, dead, acks, retries, ever, health, lost, overlap>>

\* close()
Close ==
  /\ intentional' = TRUE
  /\ retry' = FALSE
  /\ StopHeartbeat
  /\ banner' = "hidden"
  /\ sock' = IF current # None /\ ~Over(current) THEN [sock EXCEPT ![current] = "closing"] ELSE sock
  /\ UNCHANGED <<current, dead, acks, strayRetry, attempts, ever, health, lost, overlap>>

\* _checkLiveness finds the socket open and asks for an ack ...
WakeOpen ==
  /\ ~intentional
  /\ IsOpen
  /\ awaiting' = TRUE
  /\ SendHeartbeat
  /\ livenessTimer' = TRUE
  /\ UNCHANGED <<current, sock, dead, beating, strayBeat, ackTimer, retries, ever,
                 intentional, missed, warned, banner, lost, overlap>>

\* ... or not open, and connects at once, also where one is being opened.
WakeConnects ==
  /\ ~intentional
  /\ ~IsOpen
  /\ retry' = FALSE
  /\ attempts' = 0
  /\ \E s \in Sock : Connects(s)
  /\ UNCHANGED <<timers, strayRetry, ever, health, banner>>

-----------------------------------------------------------------------------
(* Timers *)

\* A reconnect timer fires; a stray one does the same.
RetryFires ==
  /\ \/ retry /\ retry' = FALSE /\ UNCHANGED strayRetry
     \/ strayRetry > 0 /\ strayRetry' = strayRetry - 1 /\ UNCHANGED retry
  /\ \E s \in Sock : Connects(s)
  /\ UNCHANGED <<timers, attempts, ever, health, banner>>

\* Mutant: every heartbeat starts the count of missed acks again.
BeatForgets ==
  /\ beating \/ strayBeat
  /\ awaiting' = TRUE
  /\ missed' = IF awaiting THEN 1 ELSE 0
  /\ ackTimer' = TRUE
  /\ SendHeartbeat
  /\ UNCHANGED <<current, sock, dead, beating, strayBeat, livenessTimer, retries, ever,
                 intentional, warned, banner, lost, overlap>>

\* The heartbeat interval: the second heartbeat without an ack breaks the
\* socket instead of being followed by a third.
Beat ==
  /\ beating \/ strayBeat
  /\ \/ /\ ~(awaiting /\ missed >= 1)
        /\ awaiting' = TRUE
        /\ missed' = IF awaiting THEN 1 ELSE missed
        /\ ackTimer' = TRUE
        /\ SendHeartbeat
        /\ UNCHANGED <<current, sock, dead, beating, strayBeat, livenessTimer, retries, warned, lost>>
     \/ awaiting /\ missed >= 1 /\ ForceReconnect
     \/ /\ awaiting /\ missed >= 1 /\ intentional
        /\ missed' = 2
        /\ UNCHANGED <<sockets, timers, retries, awaiting, warned, lost>>
  /\ UNCHANGED <<ever, intentional, banner, overlap>>

AckOverdue ==
  /\ ackTimer
  /\ ackTimer' = FALSE
  /\ IF intentional THEN UNCHANGED <<warned, banner>>
     ELSE warned' = TRUE /\ banner' = "unstable"
  /\ UNCHANGED <<sockets, beating, strayBeat, livenessTimer, retries, ever, intentional,
                 awaiting, missed, lost, overlap>>

LivenessFails ==
  /\ livenessTimer
  /\ \/ awaiting /\ IsOpen /\ ForceReconnect
     \/ /\ ~(awaiting /\ IsOpen /\ ~intentional)
        /\ livenessTimer' = FALSE
        /\ UNCHANGED <<sockets, beating, strayBeat, ackTimer, retries, health, lost>>
  /\ UNCHANGED <<ever, intentional, banner, overlap>>

-----------------------------------------------------------------------------
(* Events of a socket *)

Opens(s) ==
  /\ sock[s] = "connecting"
  /\ sock' = [sock EXCEPT ![s] = "open"]
  /\ attempts' = 0
  /\ ever' = TRUE
  /\ awaiting' = FALSE /\ missed' = 0 /\ warned' = FALSE
  /\ banner' = "hidden"
  /\ beating' = TRUE
  /\ strayBeat' = (strayBeat \/ beating)
  /\ UNCHANGED <<current, dead, acks, ackTimer, livenessTimer, retry, strayRetry,
                 intentional, lost, overlap>>

\* _onHeartbeatAck
Ack(s) ==
  /\ s \in acks /\ sock[s] = "open"
  /\ acks' = acks \ {s}
  /\ ackTimer' = FALSE
  /\ livenessTimer' = FALSE
  /\ awaiting' = FALSE /\ missed' = 0 /\ warned' = FALSE
  /\ banner' = IF warned THEN "hidden" ELSE banner
  /\ UNCHANGED <<current, sock, dead, beating, strayBeat, retries, ever, intentional, lost, overlap>>

Codes == {1000, 1006, 4001, 4004}

\* What a close can come with: what the server says, or that the connection
\* failed or could not be made.
CodesOf(s) ==
  IF Over(s) THEN {}
  ELSE IF sock[s] = "connecting" \/ s \in dead THEN {1006} ELSE Codes

\* Why onclose does not reconnect, or "no".
LossAt(code) ==
  IF code = 4004 THEN "not_found"
  ELSE IF code = 4001 THEN "superseded"
  ELSE IF code = 1006 /\ attempts >= 2 /\ ~ever THEN "dead_session"
  ELSE IF attempts >= MaxAttempts THEN "exhausted" ELSE "no"

\* Mutant: a normal close is not followed by a reconnect.
ClosesForGood(s, code) ==
  /\ code \in CodesOf(s)
  /\ sock' = [sock EXCEPT ![s] = "closed"]
  /\ dead' = dead \ {s}
  /\ acks' = acks \ {s}
  /\ StopHeartbeat
  /\ IF intentional \/ code = 1000 THEN UNCHANGED <<retries, lost>>
     ELSE \/ LossAt(code) # "no" /\ lost' = LossAt(code) /\ UNCHANGED retries
          \/ LossAt(code) = "no" /\ SetRetry /\ UNCHANGED lost
  /\ UNCHANGED <<current, ever, intentional, health, banner, overlap>>

\* onclose: any socket's, not only the current one's.
Closes(s, code) ==
  /\ code \in CodesOf(s)
  /\ sock' = [sock EXCEPT ![s] = "closed"]
  /\ dead' = dead \ {s}
  /\ acks' = acks \ {s}
  /\ StopHeartbeat
  /\ \/ intentional /\ UNCHANGED <<retries, banner, lost>>
     \/ /\ ~intentional /\ LossAt(code) # "no"
        /\ lost' = LossAt(code)
        /\ banner' = "hidden"
        /\ UNCHANGED retries
     \/ /\ ~intentional /\ LossAt(code) = "no"
        /\ SetRetry
        /\ banner' = "reconnecting"
        /\ UNCHANGED lost
  /\ UNCHANGED <<current, ever, intentional, health, overlap>>

\* A proxy drops the connection and no event tells.
Drops(s) ==
  /\ sock[s] = "open" /\ s \notin dead
  /\ dead' = dead \cup {s}
  /\ acks' = acks \ {s}
  /\ UNCHANGED <<current, sock, timers, retries, ever, intentional, health, banner, lost, overlap>>

-----------------------------------------------------------------------------
Wake == WakeOpen \/ WakeConnects
Event(s) == Opens(s) \/ Ack(s) \/ Drops(s) \/ \E code \in Codes : Closes(s, code)

Next ==
  \/ Connect \/ Close \/ Wake
  \/ RetryFires \/ Beat \/ AckOverdue \/ LivenessFails
  \/ \E s \in Sock : Event(s)

\* Timers fire, and a socket that the page closes is closed in the end, even
\* if the other side is silent.
ClosingEnds(s) == sock[s] = "closing" /\ \E code \in Codes : Closes(s, code)
Fairness ==
  /\ WF_vars(RetryFires) /\ WF_vars(Beat)
  /\ \A s \in Sock : WF_vars(ClosingEnds(s))

Spec == Init /\ [][Next]_vars
FairSpec == Spec /\ Fairness

-----------------------------------------------------------------------------
(* Properties *)

FlagTypes ==
  /\ beating \in BOOLEAN /\ strayBeat \in BOOLEAN
  /\ ackTimer \in BOOLEAN /\ livenessTimer \in BOOLEAN
  /\ retry \in BOOLEAN
  /\ ever \in BOOLEAN /\ intentional \in BOOLEAN
  /\ awaiting \in BOOLEAN /\ warned \in BOOLEAN
  /\ overlap \in BOOLEAN

DataTypes ==
  /\ current \in Sock \cup {None}
  /\ sock \in [Sock -> {"none", "connecting", "open", "closing", "closed"}]
  /\ dead \subseteq Sock
  /\ acks \subseteq Sock \ dead
  /\ strayRetry \in 0 .. MaxStray
  /\ attempts \in 0 .. MaxAttempts
  /\ missed \in 0 .. 2
  /\ banner \in {"hidden", "reconnecting", "unstable"}
  /\ lost \in {"no", "not_found", "superseded", "dead_session", "exhausted"}

\* Every variable has its type; the attempts stay within their limit.
TypeOK == FlagTypes /\ DataTypes

\* As long as connect() never ran over a socket that was not closed, there is
\* one socket, its heartbeat runs while it is open and at no other time, and
\* a timer that will connect runs only when it is closed, and not after
\* close(), and it is the only one.
SoleSocket ==
  ~overlap =>
    /\ \A s \in Sock : ~Over(s) => s = current
    /\ beating <=> IsOpen
    /\ ~strayBeat
    /\ retry => ~intentional /\ \A s \in Sock : Over(s)
    /\ strayRetry = 0

\* The client is never left without anything to happen: unless the
\* application closed it or was told that the session is lost, a socket is
\* there or a timer will make one.
NeverStuck ==
  current = None \/ intentional \/ lost # "no" \/ retry \/ strayRetry > 0
  \/ \E s \in Sock : ~Over(s)

\* A silent connection is replaced, although no event reports it.
ZombieIsReplaced ==
  \A s \in Sock :
    s = current /\ s \in dead /\ sock[s] = "open" ~> current # s \/ intentional \/ lost # "no" \/ overlap
=============================================================================
