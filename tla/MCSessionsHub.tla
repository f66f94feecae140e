--------------------------- MODULE MCSessionsHub ---------------------------
(* Instances of SessionTransport and AccessHub for TLC, explored in one run.
   They share no state; the initial state chooses the one that runs, and the
   other rests in its own. *)
EXTENDS MCSessionTransport

CONSTANTS Ip, User, Host, Req, Tunnel, Invite, Limit, Window, Ttl, MaxTime   \* AccessHub

VARIABLES
  part,
  now, attempts, tried, logins, hosts, invites, issued, tunnels, tpc, thost, old, closed, overtaken,
  doing, who, asked, via, wire

hub == <<now, attempts, tried, logins, hosts, invites, issued, tunnels, tpc, thost, old, closed,
         overtaken, doing, who, asked, via, wire>>

Hub == INSTANCE AccessHub WITH sessions <- logins, pc <- doing
ASSUME HubAssumption == Hub!ConstantsAssumption

SessionsHubInit ==
  /\ part \in {"sessions", "hub"}
  /\ Init /\ Hub!Init
  /\ part # "hub" => \A h \in Host : hosts[h] = None

SessionsHubNext ==
  /\ UNCHANGED part
  /\ \/ part = "sessions" /\ Next /\ UNCHANGED hub
     \/ part = "hub" /\ Hub!Next /\ UNCHANGED vars

SessionsHubSpec == SessionsHubInit /\ [][SessionsHubNext]_<<part, vars, hub>>

-----------------------------------------------------------------------------
(* The properties of the hub *)

\* No more sign-ins from one address are tried within any window of time than
\* the limiter allows, however many wait for their body.
LimiterHolds == Hub!LimiterHolds

\* One link signs in one browser, whatever is asked again, answered late or lost.
InviteOpensOnce == Hub!InviteOpensOnce

\* The table names running tunnels, and every running tunnel that was neither
\* closed nor overtaken.
RunningTunnelIsKnown == Hub!RunningTunnelIsKnown
=============================================================================
