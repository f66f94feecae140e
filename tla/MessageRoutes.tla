---------------------------- MODULE MessageRoutes ----------------------------
(* The router tree of llming_com/ws_router.py and its use by
   llming_com/controller.py: routers declare handlers by name, include other
   routers of their scope, and a controller mounts the flattened table of one
   router for each scope.  A router has a prefix; the full name of a message
   type is kept as the sequence of its parts between the dots. *)
EXTENDS Naturals, Sequences, SequencesExt, TLC

CONSTANTS
  Router,      \* the routers,
  AppRouters,  \* those of them with application scope,
  Prefix,      \* the prefixes they may have and
  Name,        \* the names of handlers, both as sequences of parts
  MaxHandlers, \* bound: declarations,
  MaxIncludes, \*   routers included in one router
  None         \* no handler, or no table

VARIABLES
  prefix,    \* the prefix of each router
  routes,    \* the handlers a router declares, by name
  children,  \* the routers it includes, in order
  made,      \* declarations made; a handler is known by the number of its own
  tables,    \* the mounted table of each scope
  declared   \* history: what the tree held when that was mounted, see Declarations

vars == <<prefix, routes, children, made, tables, declared>>

Scope(r) == IF r \in AppRouters THEN "app" ELSE "session"
Empty == [x \in {} |-> None]

Init ==
  /\ prefix \in [Router -> Prefix]
  /\ routes = [r \in Router |-> Empty]
  /\ children = [r \in Router |-> <<>>]
  /\ made = 0
  /\ tables = [s \in {"session", "app"} |-> Empty]
  /\ declared = [s \in {"session", "app"} |-> {}]

-----------------------------------------------------------------------------
(* What a tree declares, place by place *)

\* A way down the tree from r: each router after the first with its place
\* among the children of the one before.
Ways(r) ==
  {w \in UNION {[1 .. k -> [router : Router, at : 0 .. MaxIncludes]] : k \in 1 .. Cardinality(Router)} :
     /\ w[1] = [router |-> r, at |-> 0]
     /\ \A i \in 2 .. Len(w) : LET above == children[w[i - 1].router]
                               IN w[i].at \in DOMAIN above /\ above[w[i].at] = w[i].router}

\* The handlers found on all ways, with their full names.
Declarations(r) ==
  UNION {{[way |-> [i \in DOMAIN w |-> w[i].at],
           type |-> FlattenSeq([i \in DOMAIN w |-> prefix[w[i].router]]) \o n,
           route |-> [handler |-> routes[Last(w).router][n], scope |-> Scope(Last(w).router)]] :
            n \in DOMAIN routes[Last(w).router]} : w \in Ways(r)}

\* Way v comes after w: further down on it, or further right where they part.
After(v, w) ==
  \/ w # v /\ IsPrefix(w, v)
  \/ \E i \in DOMAIN v \cap DOMAIN w : v[i] > w[i] /\ SubSeq(v, 1, i - 1) = SubSeq(w, 1, i - 1)

-----------------------------------------------------------------------------
(* Building the tree *)

\* handler: the same name again replaces the handler.
Declare(r, n) ==
  /\ made < MaxHandlers
  /\ made' = made + 1
  /\ routes' = [routes EXCEPT ![r] = (n :> made + 1) @@ @]
  /\ UNCHANGED <<prefix, children, tables, declared>>

\* include: routers of one scope.  A router is never included below itself,
\* or its table would have no end.
Include(r, c) ==
  /\ Scope(c) = Scope(r)
  /\ Len(children[r]) < MaxIncludes
  /\ \A w \in Ways(c) : Last(w).router # r
  /\ children' = [children EXCEPT ![r] = Append(@, c)]
  /\ UNCHANGED <<prefix, routes, made, tables, declared>>

\* The handlers that a router declares, under their names behind its prefix
Own(r, mine) ==
  [type \in {mine \o n : n \in DOMAIN routes[r]} |->
     [handler |-> routes[r][SubSeq(type, Len(mine) + 1, Len(type))], scope |-> Scope(r)]]

\* Mutant: a child's names are not put behind its parent's.
BuildUnprefixed(r, above) ==
  LET Table[q \in Router, up \in Seq(STRING)] ==
        FoldLeft(LAMBDA table, c : Table[c, up] @@ table, Own(q, up \o prefix[q]), children[q])
  IN Table[r, above]

\* build_dispatch_table: the tables of the children in turn over its own.
BuildDispatchTable(r, above) ==
  LET Table[q \in Router, up \in Seq(STRING)] ==
        LET mine == up \o prefix[q]
        IN FoldLeft(LAMBDA table, c : Table[c, mine] @@ table, Own(q, mine), children[q])
  IN Table[r, above]

\* mount_router, mount_session_router and mount_app_router: a copy is taken.
Mount(r) ==
  /\ tables' = [tables EXCEPT ![Scope(r)] = BuildDispatchTable(r, <<>>)]
  /\ declared' = [declared EXCEPT ![Scope(r)] = Declarations(r)]
  /\ UNCHANGED <<prefix, routes, children, made>>

\* handle_message: a heartbeat is answered at once; then the session table,
\* then the application's.
Heartbeat == <<"heartbeat">>
Found(type) ==
  IF type = Heartbeat THEN None
  ELSE IF type \in DOMAIN tables["session"] THEN tables["session"][type]
  ELSE IF type \in DOMAIN tables["app"] THEN tables["app"][type]
  ELSE None

Next ==
  \E r \in Router : Mount(r) \/ (\E n \in Name : Declare(r, n)) \/ (\E c \in Router : Include(r, c))

Spec == Init /\ [][Next]_vars

-----------------------------------------------------------------------------
(* Properties *)

\* A message finds the handler declared last in the mounted tree under its full
\* name, counting a router's own before those of its children and these from
\* left to right, whatever was declared or included since; the session's tree
\* goes before the application's, and each holds handlers of its scope only.
DispatchFindsOwner ==
  LET Owners(s, type) ==
        {d \in declared[s] : d.type = type /\ \A e \in declared[s] : e.type = type => ~After(e.way, d.way)}
      Types == {d.type : d \in declared["session"] \cup declared["app"]} \cup {Heartbeat}
  IN /\ \A s \in DOMAIN tables : \A type \in DOMAIN tables[s] : tables[s][type].scope = s
     /\ \A s \in DOMAIN tables : DOMAIN tables[s] = {d.type : d \in declared[s]}
     /\ \A type \in Types :
          LET first == IF Owners("session", type) # {} THEN "session" ELSE "app"
          IN {Found(type)} = IF type = Heartbeat THEN {None}
                             ELSE {d.route : d \in Owners(first, type)}
=============================================================================
