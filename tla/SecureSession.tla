---------------------------- MODULE SecureSession ----------------------------
(***************************************************************************)
(* How browsers and a host agree on keys over the blind relay: the host's  *)
(* link loop, SecureRelayHost and SecureProxySession (p2p/secure_relay.py) *)
(* with the key schedule of secure.py, and the page (runSecureSession in   *)
(* static/p2p/viewer.html), when codes are rotated, links are lost and     *)
(* people type.  What the sessions carry then is in ProxiedSockets.        *)
(*                                                                         *)
(* Keys and signatures are symbolic.  A page says hello once, under a      *)
(* session id of its own, and both sides draw an ephemeral key for it, so  *)
(* the key of a session is named by the session id, the host's identity    *)
(* and the code it was derived with.  The hub is external: it keeps the    *)
(* order of frames, and may or may not close the pages of a lost host.     *)
(***************************************************************************)
EXTENDS Naturals, Sequences, SequencesExt

CONSTANTS
  Sid,       \* pages
  Code,      \* host-screen codes, as normalize_code leaves them
  Identity,  \* long-term keys of the host
  MaxLinks,  \* bound: connections of the host to the hub
  None

\* derive_session_key: shared secret, code and transcript.
Key(s, i, c) == [sid |-> s, identity |-> i, code |-> c]
Keys == [sid : Sid, identity : Identity, code : Code]

\* _sessions holds entries of this form; a key is missing before the handshake.
Sessions == [key : Keys \cup {None}, fired : BOOLEAN]

\* None is no code, no key and no session.
ConstantsAssumption ==
  /\ MaxLinks \in Nat
  /\ None \notin Code /\ None \notin Keys /\ None \notin Sessions

VARIABLES
  \* Host
  identity, code,  \* what run_secure_relay_host was started with
  link,      \* "up", "lost" (handler or stop still running) or "down"
  links,     \* connections made
  sessions,  \* _sessions: sid -> [key, fired] or None; no key before the handshake
  running,   \* sids whose DataChannelProxy runs
  hpc,       \* feed: "reading", "pairing", "responding" or "connected"
  frame,     \* the frame it handles
  toHost,    \* frames, as [sid, kind, key]
  toPage,    \* sid -> responses
  \* Pages
  pinned,    \* page -> the identity its invite named
  known,     \* page -> the code it would try first, or None
  ppc,       \* page -> "new", "waiting", "asking", "secure" or "closed"
  pkey,      \* page -> its aesKey, and while it asks the key of the response
  pending,   \* page -> frames it has sent that were not handled
  \* History
  cut,       \* pages whose host link was lost since they connected
  refused    \* pages that had a frame dropped by the host

host   == <<identity, code, link, links>>
feeds  == <<hpc, frame>>
wires  == <<toHost, toPage>>
pages  == <<pinned, known, ppc, pkey, pending>>
vars == <<identity, code, link, links, sessions, running, hpc, frame, toHost, toPage, pinned, known,
          ppc, pkey, pending, cut, refused>>

Fresh == [key |-> None, fired |-> FALSE]
Idle == [sid |-> None, kind |-> "none", key |-> None]

Init ==
  /\ identity \in Identity /\ code \in Code
  /\ link = "up" /\ links = 1
  /\ sessions = [s \in Sid |-> None] /\ running = {}
  /\ hpc = "reading" /\ frame = Idle
  /\ toHost = <<>> /\ toPage = [s \in Sid |-> <<>>]
  /\ pinned \in [Sid -> Identity] /\ known \in [Sid -> Code \cup {None}]
  /\ ppc = [s \in Sid |-> "new"] /\ pkey = [s \in Sid |-> None]
  /\ pending = [s \in Sid |-> 0]
  /\ cut = {} /\ refused = {}

-----------------------------------------------------------------------------
(* Pages *)

Send(s, kind, key) == toHost' = Append(toHost, [sid |-> s, kind |-> kind, key |-> key])
Page(s, place) == ppc' = [ppc EXCEPT ![s] = place]

Hello(s) ==
  /\ ppc[s] = "new" /\ link = "up"
  /\ Page(s, "waiting")
  /\ Send(s, "H", None)
  /\ UNCHANGED <<host, sessions, running, feeds, toPage, pinned, known, pkey, pending, cut, refused>>

\* Mutant: the probe is not looked at.
TriedBlindly(s, probe, c) == c # None

\* The probe opens under the key that code c gives, or it does not.
Tried(s, probe, c) == c # None /\ Key(s, pinned[s], c) = probe

\* verify_signature: the response is signed by the identity that was pinned.
Signed(s, probe) == probe.identity = pinned[s]

\* onResponse up to the first prompt: the signature must be the pinned
\* host's; then the known code is tried.
TakeResponse(s) ==
  LET probe == Head(toPage[s])
  IN /\ ppc[s] = "waiting"
     /\ toPage[s] # <<>>
     /\ toPage' = [toPage EXCEPT ![s] = Tail(@)]
     /\ IF ~Signed(s, probe)
        THEN Page(s, "closed") /\ UNCHANGED pkey
        ELSE IF Tried(s, probe, known[s])
        THEN /\ Page(s, "secure")
             /\ pkey' = [pkey EXCEPT ![s] = Key(s, pinned[s], known[s])]
        ELSE /\ Page(s, "asking")
             /\ pkey' = [pkey EXCEPT ![s] = probe]
     /\ UNCHANGED <<host, sessions, running, feeds, toHost, pinned, known, pending, cut, refused>>

\* A code is entered: it is stored when it opens the probe, or asked again.
EnterCode(s, c) ==
  /\ ppc[s] = "asking"
  /\ Tried(s, pkey[s], c)
  /\ Page(s, "secure")
  /\ pkey' = [pkey EXCEPT ![s] = Key(s, pinned[s], c)]
  /\ known' = [known EXCEPT ![s] = c]
  /\ UNCHANGED <<host, sessions, running, feeds, wires, pinned, pending, cut, refused>>

SendFrame(s) ==
  /\ ppc[s] = "secure"
  /\ pending[s] = 0
  /\ pending' = [pending EXCEPT ![s] = 1]
  /\ IF link = "up" THEN Send(s, "A", pkey[s]) ELSE UNCHANGED toHost
  /\ UNCHANGED <<host, sessions, running, feeds, toPage, pinned, known, ppc, pkey, cut, refused>>

\* The page is left, the prompt is cancelled or the hub ends the connection.
PageCloses(s) ==
  /\ ppc[s] \in {"waiting", "asking", "secure"}
  /\ Page(s, "closed")
  /\ \/ link = "up" /\ Send(s, "C", None)
     \/ (link # "up" \/ s \in cut) /\ UNCHANGED toHost
  /\ UNCHANGED <<host, sessions, running, feeds, toPage, pinned, known, pkey, pending, cut, refused>>

-----------------------------------------------------------------------------
(* Host *)

Handled == hpc' = "reading" /\ frame' = Idle

\* SecureRelayHost.feed looks the session up, or makes one.
SessionOf(s) == IF sessions[s] = None THEN Fresh ELSE sessions[s]

\* The framer opens what was sealed with the key of its session.
Decrypts(f) == SessionOf(f.sid).key = f.key

\* The next frame, when the last was handled: the loop awaits feed.
Receive ==
  LET f == Head(toHost)
      s == f.sid
  IN /\ link = "up" /\ hpc = "reading" /\ toHost # <<>>
     /\ toHost' = Tail(toHost)
     /\ \/ /\ f.kind = "H"
           /\ hpc' = "pairing" /\ frame' = f
           /\ sessions' = [sessions EXCEPT ![s] = SessionOf(s)]
           /\ UNCHANGED <<running, pending, refused>>
        \/ /\ f.kind = "A" /\ Decrypts(f)
           /\ IF SessionOf(s).fired
              THEN /\ Handled
                   /\ pending' = [pending EXCEPT ![s] = 0]
                   /\ UNCHANGED sessions
              ELSE /\ hpc' = "connected" /\ frame' = f
                   /\ sessions' = [sessions EXCEPT ![s].fired = TRUE]
                   /\ UNCHANGED pending
           /\ UNCHANGED <<running, refused>>
        \/ /\ f.kind = "A" /\ ~Decrypts(f)
           /\ Handled
           /\ sessions' = [sessions EXCEPT ![s] = SessionOf(s)]
           /\ refused' = refused \cup {s}
           /\ UNCHANGED <<running, pending>>
        \/ /\ f.kind = "C"
           /\ Handled
           /\ sessions' = [sessions EXCEPT ![s] = None]
           /\ running' = running \ {s}
           /\ UNCHANGED <<pending, refused>>
     /\ UNCHANGED <<host, toPage, pinned, known, ppc, pkey, cut>>

\* The pair_request hook returned: the response is sent, which is awaited.
Respond ==
  LET s == frame.sid
  IN /\ hpc = "pairing" /\ link = "up"
     /\ hpc' = "responding"
     /\ toPage' = [toPage EXCEPT ![s] = Append(@, Key(s, identity, code))]
     /\ UNCHANGED <<host, sessions, running, frame, toHost, pages, cut, refused>>

\* Framer and proxy are set up when the response has been sent.
Establish ==
  LET s == frame.sid
  IN /\ hpc = "responding" /\ link = "up"
     /\ Handled
     /\ sessions' = [sessions EXCEPT ![s].key = Key(s, identity, code)]
     /\ running' = running \cup {s}
     /\ UNCHANGED <<host, wires, pages, cut, refused>>

\* The connected hook returned: the frame goes to the proxy.
Forward ==
  /\ hpc = "connected"
  /\ Handled
  /\ pending' = [pending EXCEPT ![frame.sid] = 0]
  /\ UNCHANGED <<host, sessions, running, wires, pinned, known, ppc, pkey, cut, refused>>

\* The connection to the hub ends, and what is on it is lost.
LoseLink ==
  /\ link = "up"
  /\ link' = "lost"
  /\ toHost' = <<>>
  /\ cut' = cut \cup {s \in Sid : ppc[s] \in {"waiting", "asking", "secure"}}
  /\ UNCHANGED <<identity, code, links, sessions, running, feeds, toPage, pages, refused>>

\* A send on the lost link raises, and leaves the loop.
SendRaises ==
  /\ link = "lost" /\ hpc \in {"pairing", "responding"}
  /\ Handled
  /\ UNCHANGED <<host, sessions, running, wires, pages, cut, refused>>

\* Mutant: the sessions of the lost link are kept for the next one.
StopHostKeeping ==
  /\ link = "lost" /\ hpc = "reading"
  /\ link' = "down"
  /\ UNCHANGED <<identity, code, links, sessions, running, feeds, wires, pages, cut, refused>>

\* The finally clause: stop of the host ends every session.
StopHost ==
  /\ link = "lost" /\ hpc = "reading"
  /\ link' = "down"
  /\ sessions' = [s \in Sid |-> None]
  /\ running' = {}
  /\ UNCHANGED <<identity, code, links, feeds, wires, pages, cut, refused>>

\* Connected again, by the loop or by a host started anew, whose code or
\* identity may be another.
Reconnect(i, c) ==
  /\ link = "down" /\ links < MaxLinks
  /\ link' = "up" /\ links' = links + 1
  /\ identity' = i /\ code' = c
  /\ UNCHANGED <<sessions, running, feeds, wires, pages, cut, refused>>

Next ==
  \/ \E s \in Sid : Hello(s) \/ TakeResponse(s) \/ SendFrame(s) \/ PageCloses(s)
                    \/ \E c \in Code : EnterCode(s, c)
  \/ Receive \/ Respond \/ Establish \/ Forward
  \/ LoseLink \/ SendRaises \/ StopHost
  \/ \E i \in Identity, c \in Code : Reconnect(i, c)

Spec == Init /\ [][Next]_vars

-----------------------------------------------------------------------------
(* Properties *)

\* What runs on the host is of its present link, identity and code: a proxy
\* runs for keyed sessions only, and the host tells its screen that a device
\* connected only when a page that pinned this host derived, with the code of
\* that screen, the same key.
ConnectedKnowsCode ==
  /\ \A s \in running : sessions[s] # None /\ sessions[s].key # None
  /\ \A s \in Sid : sessions[s] # None /\ sessions[s].fired =>
       pkey[s] = sessions[s].key /\ pkey[s] = Key(s, identity, code)

\* A page that considers itself connected has the key of its session on the
\* host, which is there or about to be; its frames are never dropped.  Pages
\* whose host lost its link are excepted: the host's new link knows nothing
\* of them, and drops what they send without an answer.
SecurePageIsHeard ==
  /\ refused \subseteq cut
  /\ \A s \in Sid \ cut : ppc[s] = "secure" =>
       \/ sessions[s] # None /\ sessions[s].key = pkey[s] /\ s \in running
       \/ hpc = "responding" /\ frame.sid = s /\ pkey[s] = Key(s, identity, code)

(* The inductive invariant behind these *)

\* Every variable has its type.
TypeOK ==
  /\ identity \in Identity /\ code \in Code
  /\ link \in {"up", "lost", "down"} /\ links \in Nat
  /\ sessions \in [Sid -> Sessions \cup {None}]
  /\ running \subseteq Sid
  /\ hpc \in {"reading", "pairing", "responding", "connected"}
  /\ hpc # "reading" => frame.sid \in Sid
  /\ toHost \in Seq([sid : Sid, kind : {"H", "A", "C"}, key : Keys \cup {None}])
  /\ toPage \in [Sid -> Seq(Keys)]
  /\ pinned \in [Sid -> Identity] /\ known \in [Sid -> Code \cup {None}]
  /\ ppc \in [Sid -> {"new", "waiting", "asking", "secure", "closed"}]
  /\ pkey \in [Sid -> Keys \cup {None}]
  /\ pending \in [Sid -> {0, 1}]
  /\ cut \subseteq Sid

\* What the host keeps is of its present link, identity and code.
HostInv ==
  /\ link = "down" => running = {} /\ hpc = "reading" /\ \A s \in Sid : sessions[s] = None
  /\ hpc # "reading" => sessions[frame.sid] # None /\ ppc[frame.sid] # "new"
  /\ running \subseteq {s \in Sid : sessions[s] # None /\ sessions[s].key # None}
  /\ \A s \in Sid : sessions[s] # None =>
       /\ sessions[s].key # None => sessions[s].key = Key(s, identity, code)
       /\ sessions[s].fired => /\ ppc[s] \in {"secure", "closed"}
                              /\ sessions[s].key # None /\ sessions[s].key = pkey[s]

\* What a page has sent stands until the host reads it: a frame is of a page
\* that said hello, a data frame is sealed with the key of that page, and
\* nothing follows the close of a page.
Sound(f) ==
  /\ ppc[f.sid] # "new"
  /\ f.kind = "A" => ppc[f.sid] \in {"secure", "closed"} /\ f.key = pkey[f.sid] /\ f.key # None
  /\ f.kind = "C" => ppc[f.sid] = "closed"

\* Frames travel on a link that is up, and pages with a response have a key.
FramesInv ==
  /\ toHost # <<>> => link = "up"
  /\ \A i \in DOMAIN toHost :
       /\ Sound(toHost[i])
       /\ toHost[i].kind = "C" => \A j \in DOMAIN toHost : j > i => toHost[j].sid # toHost[i].sid
  /\ \A s \in Sid : ppc[s] \in {"asking", "secure"} => pkey[s] # None

\* The host has the session of page s with the key it told the page, or will
\* have when its response has been sent.
Served(s) ==
  \/ sessions[s] # None /\ sessions[s].key = Key(s, identity, code) /\ s \in running
  \/ hpc = "responding" /\ frame.sid = s

\* The host told page s the key of its present identity and code, if any, and
\* serves the page from then on.
Told(s) ==
  /\ link = "up"
  /\ toPage[s] \in Seq({Key(s, identity, code)})
  /\ toPage[s] # <<>> \/ ppc[s] # "waiting" => Served(s)
  /\ ppc[s] # "waiting" => pkey[s] = Key(s, identity, code)

\* Pages whose host kept its link, and the frames they left on it, are served.
PagesInv ==
  /\ \A s \in Sid : ppc[s] = "new" => toPage[s] = <<>>
  /\ \A s \in Sid \ cut : ppc[s] \in {"waiting", "asking", "secure"} => Told(s)
  /\ \A i \in DOMAIN toHost : toHost[i].kind = "A" /\ toHost[i].sid \notin cut =>
       toHost[i].key = Key(toHost[i].sid, identity, code) /\ Served(toHost[i].sid)
  /\ refused \subseteq cut

SecureInv == TypeOK /\ HostInv /\ FramesInv /\ PagesInv
=============================================================================
