--------------------------- MODULE ReconnectTokens ---------------------------
(* ReconnectTokenStore of p2p/proxy.py and its use by DataChannelProxy: every
   ping of a page is answered with a token by which the page may come back
   after a reload; the first ping makes it, the others refresh it, and the
   store forgets it when no ping came for some time.  A page has one token,
   so that tokens are named by their page; what takes a token back and verifies
   it is the application. *)
EXTENDS Integers

CONSTANTS
  Page,     \* the pages, each with its DataChannelProxy
  Ttl,      \* RECONNECT_TOKEN_TTL_SECONDS
  MaxTime,  \* bound of the clock
  None      \* no time

\* Times are whole numbers, and None is no time.
ConstantsAssumption == {Ttl, MaxTime} \subseteq Nat /\ None \notin Nat

VARIABLES
  now,
  tokens,   \* _tokens: when the token of a page was refreshed, or None
  issued,   \* pages that have a _reconnect_token
  \* History
  pinged,   \* page -> the time of its last ping, or None
  lapsed,   \* pages that once let more than Ttl pass between two pings
  revoked   \* pages whose token was revoked

vars == <<now, tokens, issued, pinged, lapsed, revoked>>

Init ==
  /\ now = 0
  /\ tokens = [p \in Page |-> None]
  /\ issued = {}
  /\ pinged = [p \in Page |-> None]
  /\ lapsed = {} /\ revoked = {}

Tick ==
  /\ now < MaxTime
  /\ now' = now + 1
  /\ UNCHANGED <<tokens, issued, pinged, lapsed, revoked>>

\* _cleanup: what is left of the store.
Cleanup == [p \in Page |-> IF tokens[p] # None /\ now - tokens[p] > Ttl THEN None ELSE tokens[p]]

\* generate: a token is new, and does not expire in the cleanup that follows.
Generate(p) ==
  /\ tokens' = [Cleanup EXCEPT ![p] = now]
  /\ issued' = issued \cup {p}

\* Mutant: without the cleanup.
RefreshUncleaned(p) ==
  /\ tokens' = IF tokens[p] = None THEN tokens ELSE [tokens EXCEPT ![p] = now]
  /\ UNCHANGED issued

\* refresh: a token that is gone is not made again, and nobody looks at that.
Refresh(p) ==
  /\ tokens' = IF Cleanup[p] = None THEN Cleanup ELSE [Cleanup EXCEPT ![p] = now]
  /\ UNCHANGED issued

\* _handle_ping; the pong shows the token.
HandlePing(p) ==
  /\ IF p \in issued THEN Refresh(p) ELSE Generate(p)
  /\ pinged' = [pinged EXCEPT ![p] = now]
  /\ lapsed' = IF pinged[p] # None /\ now - pinged[p] > Ttl THEN lapsed \cup {p} ELSE lapsed
  /\ UNCHANGED <<now, revoked>>

\* verify, and what else looks at the store
Verify ==
  /\ tokens' = Cleanup
  /\ UNCHANGED <<now, issued, pinged, lapsed, revoked>>

Revoke(p) ==
  /\ p \in issued
  /\ tokens' = [tokens EXCEPT ![p] = None]
  /\ revoked' = revoked \cup {p}
  /\ UNCHANGED <<now, issued, pinged, lapsed>>

Next == Tick \/ Verify \/ \E p \in Page : HandlePing(p) \/ Revoke(p)

Spec == Init /\ [][Next]_vars

-----------------------------------------------------------------------------
(* Properties *)

\* The token a page was shown last would be accepted now if and only if the page
\* has pinged in time ever since, up to now: once it was late, or its token was
\* revoked, no ping brings the token back, although pongs go on showing it.
TokenLivesWithItsPage ==
  \A p \in issued :
    Cleanup[p] # None <=> p \notin lapsed \cup revoked /\ now - pinged[p] <= Ttl

\* The inductive invariant behind it: a page was issued a token if it pinged;
\* a token that is stored is as old as the page's last ping; and it is missing
\* only if the page was late, is late now, or its token was revoked.
TypeOK ==
  /\ now \in Nat
  /\ tokens \in [Page -> Nat \cup {None}]
  /\ pinged \in [Page -> Nat \cup {None}]
  /\ issued \subseteq Page
TokenFollowsPings ==
  \A p \in Page :
    /\ p \in issued <=> pinged[p] # None
    /\ p \in lapsed \cup revoked => p \in issued /\ tokens[p] = None
    /\ tokens[p] # None => p \in issued /\ tokens[p] = pinged[p]
    /\ p \in issued => /\ pinged[p] <= now
                       /\ tokens[p] # None \/ p \in lapsed \cup revoked \/ now - pinged[p] > Ttl
=============================================================================
