------------------------------ MODULE Publishing ------------------------------
(***************************************************************************)
(* Named publishing: PublishRegistry (publish.py), its routes              *)
(* (mount_publish in p2p/host.py) and the browser's front door             *)
(* (runPublishHandshake in static/p2p/viewer.html).  An invite token is    *)
(* redeemed once for a device credential, which every later load of the    *)
(* page shows in a handshake.  The registry's methods do not await; the    *)
(* routes await the request body, and answers may be lost.                 *)
(***************************************************************************)
EXTENDS Integers, FiniteSets

CONSTANTS
  Apps,      \* account/app slugs
  Browsers,
  Tokens,    \* pairing tokens (secrets.token_urlsafe: never repeated)
  Creds,     \* device credentials (likewise)
  Ttls,      \* link lifetimes; 0 for no expiry
  PairTtl,   \* lifetime of a pairing token
  MaxTime    \* bound of the clock

\* What the theorems need of the constants; MCApplications assumes it.
ConstantsAssumption ==
  /\ Ttls \subseteq Nat
  /\ PairTtl \in Nat
  /\ MaxTime \in Nat \ {0}
  /\ "none" \notin Apps \cup Tokens \cup Creds

NoExpiry == 0
Gone == [app |-> "none", expires |-> NoExpiry]
NoCred == "none"
Unpublished == -1

VARIABLES
  now,
  links,     \* app -> Unpublished or its expires_at
  pairings,  \* token -> [app, expires] or Gone
  devices,   \* credential -> [app, expires] or Gone
  holds,     \* browser -> app -> the stored credential or NoCred
  shaking,   \* handshakes <<browser, app>> between resolve and verify
  \* History
  issued,    \* tokens that were issued
  origin,    \* credential -> the token it was redeemed for, or NoCred
  revoked,   \* credentials revoked, alone or with their app
  renewed    \* apps published again since their first publication or revocation

registry == <<links, pairings, devices>>
past == <<issued, origin, revoked, renewed>>
vars == <<now, registry, holds, shaking, past>>

Init ==
  /\ now = 1
  /\ links = [a \in Apps |-> Unpublished]
  /\ pairings = [t \in Tokens |-> Gone]
  /\ devices = [c \in Creds |-> Gone]
  /\ holds = [b \in Browsers |-> [a \in Apps |-> NoCred]]
  /\ shaking = {}
  /\ issued = {}
  /\ origin = [c \in Creds |-> NoCred]
  /\ revoked = {}
  /\ renewed = {}

\* is_active
Active(expires) == expires = NoExpiry \/ now < expires

\* resolve finds the app.
Resolved(a) == links[a] # Unpublished /\ Active(links[a])

\* verify_device for app a.
Verified(c, a) == devices[c].app = a /\ Active(devices[c].expires)

-----------------------------------------------------------------------------
(* PublishRegistry *)

Publish(a, ttl) ==
  /\ links' = [links EXCEPT ![a] = IF ttl > 0 THEN now + ttl ELSE NoExpiry]
  /\ renewed' = IF links[a] = Unpublished THEN renewed ELSE renewed \cup {a}
  /\ UNCHANGED <<now, pairings, devices, holds, shaking, issued, origin, revoked>>

Revoke(a) ==
  /\ links[a] # Unpublished
  /\ links' = [links EXCEPT ![a] = Unpublished]
  /\ pairings' = [t \in Tokens |-> IF pairings[t].app = a THEN Gone ELSE pairings[t]]
  /\ devices' = [c \in Creds |-> IF devices[c].app = a THEN Gone ELSE devices[c]]
  /\ revoked' = revoked \cup {c \in Creds : devices[c].app = a}
  /\ renewed' = renewed \ {a}
  /\ UNCHANGED <<now, holds, shaking, issued, origin>>

RevokeDevice(c) ==
  /\ devices[c] # Gone
  /\ devices' = [devices EXCEPT ![c] = Gone]
  /\ revoked' = revoked \cup {c}
  /\ UNCHANGED <<now, links, pairings, holds, shaking, issued, origin, renewed>>

IssuePairing(a, t) ==
  /\ Resolved(a)
  /\ t \notin issued
  /\ issued' = issued \cup {t}
  /\ pairings' = [pairings EXCEPT ![t] = [app |-> a, expires |-> now + PairTtl]]
  /\ UNCHANGED <<now, links, devices, holds, shaking, origin, revoked, renewed>>

\* Mutant: the token is looked up but stays.
ConsumeNot(t) == pairings' = pairings

\* The token is consumed, whatever comes of it.
Consume(t) == pairings' = [pairings EXCEPT ![t] = Gone]

\* Mutant: the grant gets the token's lifetime.
GrantAsToken(t, c) ==
  /\ origin[c] = NoCred
  /\ origin' = [origin EXCEPT ![c] = t]
  /\ devices' = [devices EXCEPT ![c] = pairings[t]]

\* A fresh credential for the token's app, with the link's lifetime.
Grant(t, c) ==
  /\ origin[c] = NoCred
  /\ origin' = [origin EXCEPT ![c] = t]
  /\ devices' = [devices EXCEPT ![c] = [app |-> pairings[t].app, expires |-> links[pairings[t].app]]]

-----------------------------------------------------------------------------
(* The routes and the browser *)

\* redeem_pairing raises: token unknown or expired, or app no longer active.
RedeemFails(t) ==
  /\ pairings[t] # Gone
  /\ now >= pairings[t].expires \/ ~Resolved(pairings[t].app)
  /\ Consume(t)
  /\ UNCHANGED <<now, links, devices, holds, shaking, past>>

\* The route refuses a token of another app, with the credential made.
Store(b, a, t, c) ==
  holds' = IF pairings[t].app = a THEN [holds EXCEPT ![b][a] = c] ELSE holds

\* A browser without a credential redeems an invite at app a's page; the
\* answer may be lost.
Redeem(b, a, t, c) ==
  /\ holds[b][a] = NoCred
  /\ pairings[t] # Gone
  /\ now < pairings[t].expires
  /\ Resolved(pairings[t].app)
  /\ Consume(t)
  /\ Grant(t, c)
  /\ Store(b, a, t, c) \/ UNCHANGED holds
  /\ UNCHANGED <<now, links, shaking, issued, revoked, renewed>>

\* The route finds the app and awaits the body; without the app it answers
\* 410 and the browser keeps its credential.
HandshakeBegins(b, a) ==
  /\ holds[b][a] # NoCred
  /\ Resolved(a)
  /\ shaking' = shaking \cup {<<b, a>>}
  /\ UNCHANGED <<now, registry, holds, past>>

HandshakeServed(b, a) ==
  /\ <<b, a>> \in shaking
  /\ Verified(holds[b][a], a)
  /\ shaking' = shaking \ {<<b, a>>}
  /\ UNCHANGED <<now, registry, holds, past>>

\* 401: the browser forgets the credential, unless the answer is lost.
HandshakeRefused(b, a) ==
  /\ <<b, a>> \in shaking
  /\ ~Verified(holds[b][a], a)
  /\ shaking' = shaking \ {<<b, a>>}
  /\ holds' = [holds EXCEPT ![b][a] = NoCred] \/ UNCHANGED holds
  /\ UNCHANGED <<now, registry, past>>

Tick ==
  /\ now < MaxTime
  /\ now' = now + 1
  /\ UNCHANGED <<registry, holds, shaking, past>>

-----------------------------------------------------------------------------
Host(a) == (\E ttl \in Ttls : Publish(a, ttl)) \/ Revoke(a) \/ (\E t \in Tokens : IssuePairing(a, t))
Handshake(b, a) == HandshakeBegins(b, a) \/ HandshakeServed(b, a) \/ HandshakeRefused(b, a)

Next ==
  \/ \E a \in Apps : Host(a)
  \/ \E c \in Creds : RevokeDevice(c)
  \/ \E t \in Tokens : RedeemFails(t)
  \/ \E b \in Browsers, a \in Apps :
       \/ Handshake(b, a)
       \/ \E t \in Tokens, c \in Creds : Redeem(b, a, t, c)
  \/ Tick

Spec == Init /\ [][Next]_vars

-----------------------------------------------------------------------------
(* Properties *)

Times == 0 .. MaxTime + PairTtl
LinkTimes == UNION {{NoExpiry}, {m + ttl : m \in 1 .. MaxTime, ttl \in Ttls}}

\* Every variable has its type; a credential exists only for a token.
TypeOK ==
  /\ now \in 1 .. MaxTime
  /\ links \in [Apps -> LinkTimes \cup {Unpublished}]
  /\ pairings \in [Tokens -> [app : Apps, expires : Times] \cup {Gone}]
  /\ devices \in [Creds -> [app : Apps, expires : LinkTimes] \cup {Gone}]
  /\ holds \in [Browsers -> [Apps -> Creds \cup {NoCred}]]
  /\ shaking \subseteq Browsers \X Apps
  /\ \A b \in Browsers, a \in Apps : <<b, a>> \in shaking => holds[b][a] # NoCred
  /\ issued \subseteq Tokens
  /\ origin \in [Creds -> issued \cup {NoCred}]
  /\ \A c \in Creds : devices[c] # Gone => origin[c] # NoCred
  /\ revoked \subseteq Creds
  /\ renewed \subseteq Apps

\* The credential a browser stored for an app is a grant for that app, or
\* none any more.
StoredForItsApp ==
  \A b \in Browsers, a \in Apps :
    LET c == holds[b][a] IN c # NoCred /\ devices[c] # Gone => devices[c].app = a

\* An invite gives one device a credential, whoever redeems it, where and
\* when, and whether or not the answer arrived, and the browser that got it
\* keeps it for that app.
RedeemedOnce ==
  /\ TypeOK /\ StoredForItsApp
  /\ \A c, d \in Creds : origin[c] # NoCred /\ origin[c] = origin[d] => c = d

\* A credential is a grant for an app that was published when it was redeemed;
\* if the app was not published again, grant and link end together.  A revoked
\* one stays revoked: neither publishing the app again nor redeeming another
\* invite brings it back.
GrantLivesAsLink ==
  \A c \in Creds :
    LET a == devices[c].app
    IN devices[c] # Gone =>
         /\ c \notin revoked /\ links[a] # Unpublished
         /\ a \notin renewed => (Active(devices[c].expires) <=> Resolved(a))

\* What makes the two inductive.
\* A token that is still in the store was issued and not redeemed; a credential
\* that a browser holds was made.
TokenInv ==
  /\ \A t \in Tokens : pairings[t] # Gone => t \in issued /\ \A c \in Creds : origin[c] # t
  /\ \A b \in Browsers, a \in Apps : holds[b][a] # NoCred => origin[holds[b][a]] # NoCred

\* A revoked credential is gone and was made, and the others carry the expiry
\* of their link as long as nobody renewed that.
GrantInv ==
  /\ \A c \in revoked : devices[c] = Gone /\ origin[c] # NoCred
  /\ \A c \in Creds : devices[c] # Gone =>
       /\ links[devices[c].app] # Unpublished
       /\ devices[c].app \notin renewed => devices[c].expires = links[devices[c].app]
=============================================================================
