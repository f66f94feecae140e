----------------------------- MODULE MCServices -----------------------------
(* Instances of SessionIdentity, SessionCommands, SecureSession and
   ReconnectTokens for TLC, explored in one run.  They share no state, so that
   exploring one while the others rest loses nothing; the initial state chooses
   which.  The variables of a module that rests hold None, those of
   SessionIdentity their initial values. *)
EXTENDS SessionIdentity, TLC

CONSTANTS
  Session, Socket, Call, MaxMessages,  \* SessionCommands
  Tab, Code, HostKey, MaxLinks,        \* SecureSession
  Ttl, MaxTime                         \* ReconnectTokens, for the same tabs

VARIABLES
  part,
  made, listed, recent, websocket, controller, ws, open, place, home, asked, job, received,
  cpc, cmd, sid, ctl, changed, since,
  hostkey, code, link, links, keyed, running, hpc, frame, toHost, toPage, pinned, known, ppc,
  pkey, pending, cut, refused,
  now, tokens, issued, pinged, lapsed, revoked

commands == <<made, listed, recent, websocket, controller, ws, open, place, home, asked, job,
              received, cpc, cmd, sid, ctl, changed, since>>
secure   == <<hostkey, code, link, links, keyed, running, hpc, frame, toHost, toPage, pinned,
              known, ppc, pkey, pending, cut, refused>>
tokenage == <<now, tokens, issued, pinged, lapsed, revoked>>
all == <<part, vars, commands, secure, tokenage>>

Commands == INSTANCE SessionCommands WITH pc <- cpc
ASSUME CommandsAssumption == Commands!ConstantsAssumption

Secure == INSTANCE SecureSession WITH
  Sid <- Tab, Identity <- HostKey, identity <- hostkey, sessions <- keyed
ASSUME SecureAssumption == Secure!ConstantsAssumption

Tokens == INSTANCE ReconnectTokens WITH Page <- Tab
ASSUME TokensAssumption == Tokens!ConstantsAssumption

NoCommands ==
  /\ made = None /\ listed = None /\ recent = None /\ websocket = None /\ controller = None
  /\ ws = None /\ open = None /\ place = None /\ home = None /\ asked = None /\ job = None
  /\ received = None /\ cpc = None /\ cmd = None /\ sid = None /\ ctl = None
  /\ changed = None /\ since = None
NoSecure ==
  /\ hostkey = None /\ code = None /\ link = None /\ links = None /\ keyed = None
  /\ running = None /\ hpc = None /\ frame = None /\ toHost = None /\ toPage = None
  /\ pinned = None /\ known = None /\ ppc = None /\ pkey = None /\ pending = None
  /\ cut = None /\ refused = None
NoTokens ==
  /\ now = None /\ tokens = None /\ issued = None
  /\ pinged = None /\ lapsed = None /\ revoked = None

ServicesInit ==
  /\ Init
  /\ \/ part = "identity" /\ NoCommands /\ NoSecure /\ NoTokens
     \/ part = "commands" /\ Commands!Init /\ NoSecure /\ NoTokens
     \/ part = "secure" /\ Secure!Init /\ NoCommands /\ NoTokens
     \/ part = "tokens" /\ Tokens!Init /\ NoCommands /\ NoSecure

ServicesNext ==
  /\ UNCHANGED part
  /\ \/ part = "identity" /\ Next /\ UNCHANGED <<commands, secure, tokenage>>
     \/ part = "commands" /\ Commands!Next /\ UNCHANGED <<vars, secure, tokenage>>
     \/ part = "secure" /\ Secure!Next /\ UNCHANGED <<vars, commands, tokenage>>
     \/ part = "tokens" /\ Tokens!Next /\ UNCHANGED <<vars, commands, secure>>

ServicesSpec == ServicesInit /\ [][ServicesNext]_all

(* The properties of the three other modules, each for its own part *)

\* A browser hears of its own session only, one reply to each of its messages
\* at most, and no reply to what another connection asked before it came
\* (SessionCommands).
RepliesGoToTheAsker == part = "commands" => Commands!RepliesGoToTheAsker

\* A command's handler begins with a registered session, the connection it
\* requires and the controller of that connection, unless these changed while
\* its body was awaited (SessionCommands).
CommandMeetsItsSession ==
  [][part = "commands" => \A c \in Call : Commands!Begins(c) => Commands!Meeting(c)]_<<part, commands>>

\* The host reports a connection only of a page that knows its code, and runs
\* a proxy for keyed sessions only (SecureSession).
ConnectedKnowsCode == part = "secure" => Secure!ConnectedKnowsCode

\* The host understands a page that considers itself connected, unless the
\* relay link was lost meanwhile (SecureSession).
SecurePageIsHeard == part = "secure" => Secure!SecurePageIsHeard

\* A page's token is accepted exactly as long as the page pings in time
\* (ReconnectTokens).
TokenLivesWithItsPage == part = "tokens" => Tokens!TokenLivesWithItsPage
=============================================================================
