--------------------------- MODULE MCApplications ---------------------------
(* Instances of Courier, Publishing, KnowledgeBoard and MessageRoutes for TLC,
   explored in one run.  They share no state; the initial state chooses the one
   that runs, and the others rest in theirs. *)
EXTENDS Courier, TLC

CONSTANTS
  Apps, Browsers, Tokens, Creds, LinkTtls, PairTtl, LinkTime,   \* Publishing
  Session, Conn, Reaper, MaxToggles,      \* KnowledgeBoard
  R1, R2, R3, MaxHandlers, MaxIncludes    \* MessageRoutes; R3 has application scope

VARIABLES
  part,
  minute, links, pairings, devices, holds, shaking, issued, origin, revoked, renewed,
  toggles, created, registered, websocket, controller, home, handler, open, todo, peers, sweep,
  reaped, pruned, shown, overlapped,
  prefix, routes, children, made, tables, declared

grants == <<minute, links, pairings, devices, holds, shaking, issued, origin, revoked, renewed>>
boards == <<toggles, created, registered, websocket, controller, home, handler, open, todo, peers,
            sweep, reaped, pruned, shown, overlapped>>
routers == <<prefix, routes, children, made, tables, declared>>

Links == INSTANCE Publishing WITH now <- minute, Ttls <- LinkTtls, MaxTime <- LinkTime
ASSUME LinksAssumption == Links!ConstantsAssumption

Board == INSTANCE KnowledgeBoard WITH pc <- handler
ASSUME BoardAssumption == Board!ConstantsAssumption

\* A name of two parts may read like another one behind the prefix.
Router == {R1, R2, R3}
Routes == INSTANCE MessageRoutes WITH
  AppRouters <- {R3}, Prefix <- {<<>>, <<"p">>}, Name <- {<<"a">>, <<"p", "a">>, <<"heartbeat">>}

ApplicationsInit ==
  /\ part \in {"courier", "links", "board", "routes"}
  /\ Init /\ Links!Init /\ Board!Init /\ Routes!Init
  /\ part # "routes" => \A r \in Router : prefix[r] = <<>>

ApplicationsNext ==
  /\ UNCHANGED part
  /\ \/ part = "courier" /\ Next /\ UNCHANGED <<grants, boards, routers>>
     \/ part = "links" /\ Links!Next /\ UNCHANGED <<vars, boards, routers>>
     \/ part = "board" /\ Board!Next /\ UNCHANGED <<vars, grants, routers>>
     \/ part = "routes" /\ Routes!Next /\ UNCHANGED <<vars, grants, boards>>

ApplicationsSpec == ApplicationsInit /\ [][ApplicationsNext]_<<part, vars, grants, boards, routers>>

Symmetry == Permutations(Call)

-----------------------------------------------------------------------------
(* The properties of the other modules *)

\* One invite gives one device a credential, which its browser keeps for the app
\* of the invite.
RedeemedOnce == Links!RedeemedOnce

\* A grant ends with its link, unless the app was published again, and a
\* revoked one never comes back.
GrantLivesAsLink == Links!GrantLivesAsLink

\* The boards of connected pages show what was toggled last.
BoardIsCurrent == Board!BoardIsCurrent

\* A message reaches the handler that the mounted tree declares for it.
DispatchFindsOwner == Routes!DispatchFindsOwner
=============================================================================
