-------------------------- MODULE SessionIdentity --------------------------
(***************************************************************************)
(* How a request finds its session and what a session owns (session.py,    *)
(* auth.py, mock_auth.py, server/middleware.py): the identity map, which   *)
(* gives a returning browser its durable session, the lookup through bound *)
(* session, auth cookie and identity cookie, the typed data a session      *)
(* creates on first use, its timers, and the removal that releases both.   *)
(*                                                                         *)
(* A step is the code between two awaits.  An application may await in its *)
(* identity_factory and in the create method of its data: another request  *)
(* of the same browser, or the cleanup loop, may run before either goes on.*)
(*                                                                         *)
(* A session here has no WebSocket (SessionTransport has those), one class *)
(* of data and one timer key; both are dictionaries in the code whose keys *)
(* do not meet.  A request creates at most one data object and starts at   *)
(* most one timer task: both are named after it.                           *)
(***************************************************************************)
EXTENDS FiniteSets

CONSTANTS
  Id,     \* identities, as the identity cookie names them
  Entry,  \* session entry objects
  Req,    \* requests
  None    \* Python's None

\* create_session draws a random id for each entry; register_identity_session
\* makes the id of the identity.
SessionSid(e) == <<"session", e>>
IdentitySid(i) == <<"identity", i>>
Sid == {SessionSid(e) : e \in Entry} \cup {IdentitySid(i) : i \in Id}

ASSUME IdentityAssumption == None \notin Id \cup Entry \cup Req \cup Sid

VARIABLES
  sessions,  \* session id -> entry or None
  identity,  \* identity -> session id or None
  owner,     \* entry -> its identity_id
  status,    \* entry -> "unused", "made", "gone" once cleanup_runtime ran, or
             \* "displaced" once another entry was registered under its id
  idle,      \* the entries not touched for longer than the time to live
  sweeping,  \* the cleanup loop is running
  attached,  \* entry -> the data object it holds
  data,      \* data object -> "none", "held", "released", or "late", when it was
             \* attached to a session that had already left the registry
  timer,     \* entry -> the task _timers names
  task,      \* timer task -> "none", "running", "stray", "cancelled", "ended"
  pc,        \* request -> where it is
  who,       \* request -> the identity its cookie proved
  target,    \* request -> the session it was resolved to
  \* History, read by no action of the code:
  clash      \* requests that created data while another did, for one session

tables == <<sessions, identity, owner, status, idle, sweeping>>
owned  == <<attached, data, timer, task>>
vars   == <<tables, owned, pc, who, target, clash>>

Registered == {sessions[s] : s \in Sid} \ {None}

\* A signed token: Fresh ones carry a time stamp that max_age still accepts,
\* legacy ones carry none and never age.
Token(ids) == [id : ids, signed : BOOLEAN, form : {"fresh", "stale", "legacy"}]
Verified(t) == IF t # None /\ t.signed /\ t.form # "stale" THEN t.id ELSE None

\* What the cookies of a request may prove: the auth cookie of create_session
\* names a session, the cookies of a sign-in both name the identity, and either
\* may be missing, forged or too old.
SignedIds == {SessionSid(e) : e \in Entry} \cup Id
AuthIds == {Verified(t) : t \in Token(SignedIds) \cup {None}}
IdentityIds == {Verified(t) : t \in Token(Id) \cup {None}}

Init ==
  /\ sessions = [s \in Sid |-> None]
  /\ identity = [i \in Id |-> None]
  /\ owner = [e \in Entry |-> None]
  /\ status = [e \in Entry |-> "unused"]
  /\ idle = {}
  /\ sweeping = FALSE
  /\ attached = [e \in Entry |-> None]
  /\ data = [r \in Req |-> "none"]
  /\ timer = [e \in Entry |-> None]
  /\ task = [r \in Req |-> "none"]
  /\ pc = [r \in Req |-> "new"]
  /\ who = [r \in Req |-> None]
  /\ target = [r \in Req |-> None]
  /\ clash = {}

-----------------------------------------------------------------------------
(* Registry *)

\* A task started for a session that had already left the registry is a stray.
Runs == {"running", "stray"}

\* register: the id may have named another entry.  That one is displaced: it
\* leaves the registry without cleanup_runtime, its timers run on and its data
\* stays with it.
Register(s, e, i) ==
  /\ status[e] = "unused"
  /\ status' = [f \in Entry |-> IF f = e THEN "made"
                               ELSE IF f = sessions[s] THEN "displaced" ELSE status[f]]
  /\ owner' = [owner EXCEPT ![e] = i]
  /\ identity' = IF i = None THEN identity ELSE [identity EXCEPT ![i] = s]
  /\ sessions' = [sessions EXCEPT ![s] = e]
  /\ sweeping' = TRUE
  /\ UNCHANGED idle

\* create_session of the manager, for a visitor with or without identity.
CreateSession(e, i) ==
  /\ Register(SessionSid(e), e, i)
  /\ UNCHANGED <<owned, pc, who, target, clash>>

\* The part of cleanup_runtime that ends timers and gives up attachments.
CleanupRuntime(E) ==
  /\ status' = [e \in Entry |-> IF e \in E THEN "gone" ELSE status[e]]
  /\ task' = [r \in Req |-> IF task[r] \in Runs /\ \E e \in E : timer[e] = r
                            THEN "cancelled" ELSE task[r]]
  /\ timer' = [e \in Entry |-> IF e \in E THEN None ELSE timer[e]]
  /\ data' = [r \in Req |-> IF \E e \in E : attached[e] = r THEN "released" ELSE data[r]]
  /\ attached' = [e \in Entry |-> IF e \in E THEN None ELSE attached[e]]

\* Mutant: the map is left alone, as if only the session were popped.
DropUnmapped(S) ==
  /\ sessions' = [s \in Sid |-> IF s \in S THEN None ELSE sessions[s]]
  /\ UNCHANGED identity
  /\ CleanupRuntime({sessions[s] : s \in S} \ {None})
  /\ idle' = idle \ {sessions[s] : s \in S}
  /\ UNCHANGED <<owner, sweeping>>

\* Sessions leave the registry, and the map where it still names them.
Drop(S) ==
  /\ sessions' = [s \in Sid |-> IF s \in S THEN None ELSE sessions[s]]
  /\ identity' = [i \in Id |->
       IF \E s \in S : identity[i] = s /\ sessions[s] # None /\ owner[sessions[s]] = i
       THEN None ELSE identity[i]]
  /\ CleanupRuntime({sessions[s] : s \in S} \ {None})
  /\ idle' = idle \ {sessions[s] : s \in S}
  /\ UNCHANGED <<owner, sweeping>>

\* remove, by the end or the revocation of one session.
Remove(s) ==
  /\ sessions[s] # None
  /\ Drop({s})
  /\ UNCHANGED <<pc, who, target, clash>>

Expired == {s \in Sid : sessions[s] \in idle}

\* One round of the cleanup loop.
CleanupExpired ==
  /\ sweeping
  /\ Expired # {}
  /\ Drop(Expired)
  /\ UNCHANGED <<pc, who, target, clash>>

\* Nothing touched the session for its time to live.
GrowIdle(e) ==
  /\ e \in Registered \ idle
  /\ idle' = idle \cup {e}
  /\ UNCHANGED <<sessions, identity, owner, status, sweeping, owned, pc, who, target, clash>>

-----------------------------------------------------------------------------
(* Requests *)

Go(r, place) == pc' = [pc EXCEPT ![r] = place]
Chosen(r, e) ==
  /\ target' = [target EXCEPT ![r] = e]
  /\ Go(r, "resolved")

\* get_session: a lookup counts as activity.
Touched(e) == idle' = idle \ {e}

\* The code runs inside bind(session): the bound session wins, whether it is
\* still registered or not.
ResolveBound(r, e) ==
  /\ pc[r] = "new"
  /\ status[e] # "unused"
  /\ Chosen(r, e)
  /\ UNCHANGED <<tables, owned, who, clash>>

\* The session an auth cookie names, if there is one.
ByAuth(id) == IF id \in Sid THEN sessions[id] ELSE None

GetIdentitySession(i) ==
  IF identity[i] = None THEN None ELSE sessions[identity[i]]

\* current() with the cookies of the request, up to its await.
Resolve(r, auth, i) ==
  LET e == IF ByAuth(auth) # None THEN ByAuth(auth)
           ELSE IF i # None THEN GetIdentitySession(i) ELSE None
  IN /\ pc[r] = "new"
     /\ \/ /\ e # None
           /\ Chosen(r, e)
           /\ Touched(e)
           /\ UNCHANGED who
        \/ /\ e = None /\ i # None
           /\ who' = [who EXCEPT ![r] = i]
           /\ Go(r, "factory")
           /\ UNCHANGED <<target, idle>>
        \/ /\ e = None /\ i = None
           /\ Go(r, "done")
           /\ UNCHANGED <<target, who, idle>>
     /\ UNCHANGED <<sessions, identity, owner, status, sweeping, owned, clash>>

\* register_identity_session of what the factory made.
RegisterIdentity(r, e) ==
  /\ pc[r] = "factory"
  /\ Register(IdentitySid(who[r]), e, who[r])
  /\ Chosen(r, e)
  /\ UNCHANGED <<owned, who, clash>>

Raise(r) ==
  /\ pc[r] \in {"factory", "creating"}
  /\ Go(r, "done")
  /\ UNCHANGED <<tables, owned, who, target, clash>>

OptionalData(e) == attached[e]

\* Mutant: the data is created on every use.
EnsureAnew(r) ==
  LET others == {q \in Req \ {r} : pc[q] = "creating" /\ target[q] = target[r]}
  IN /\ pc[r] = "resolved"
     /\ Go(r, "creating")
     /\ clash' = IF others = {} THEN clash ELSE clash \cup others \cup {r}
     /\ UNCHANGED <<tables, owned, who, target>>

\* ensure_data up to its await: data that is there is returned.
Ensure(r) ==
  LET others == {q \in Req \ {r} : pc[q] = "creating" /\ target[q] = target[r]}
  IN /\ pc[r] = "resolved"
     /\ IF OptionalData(target[r]) # None
        THEN Go(r, "ready") /\ UNCHANGED clash
        ELSE /\ Go(r, "creating")
             /\ clash' = IF others = {} THEN clash ELSE clash \cup others \cup {r}
     /\ UNCHANGED <<tables, owned, who, target>>

\* attach_data of what create returned, whatever happened meanwhile.
Attach(r) ==
  /\ pc[r] = "creating"
  /\ attached' = [attached EXCEPT ![target[r]] = r]
  /\ data' = [data EXCEPT ![r] = IF status[target[r]] = "made" THEN "held" ELSE "late"]
  /\ Go(r, "ready")
  /\ UNCHANGED <<tables, timer, task, who, target, clash>>

\* cancel_timer: the dictionary keeps the task.
Cancelled(e) == [q \in Req |-> IF timer[e] = q /\ task[q] \in Runs THEN "cancelled" ELSE task[q]]

NewTask(e) == IF status[e] = "made" THEN "running" ELSE "stray"

\* start_timer, by a handler that still holds its session.
StartTimer(r) ==
  /\ pc[r] \in {"resolved", "ready"}
  /\ task[r] = "none"
  /\ task' = [Cancelled(target[r]) EXCEPT ![r] = NewTask(target[r])]
  /\ timer' = [timer EXCEPT ![target[r]] = r]
  /\ UNCHANGED <<tables, attached, data, pc, who, target, clash>>

CancelTimer(r) ==
  /\ pc[r] \in {"resolved", "ready"}
  /\ task' = Cancelled(target[r])
  /\ task' # task
  /\ UNCHANGED <<tables, attached, data, timer, pc, who, target, clash>>

\* The callback returned False, or the cancellation arrived.
TimerEnds(r) ==
  /\ task[r] \in Runs \cup {"cancelled"}
  /\ task' = [task EXCEPT ![r] = "ended"]
  /\ UNCHANGED <<tables, attached, data, timer, pc, who, target, clash>>

\* The request is answered; the middleware undoes what it bound.
Finish(r) ==
  /\ pc[r] \in {"resolved", "ready"}
  /\ Go(r, "done")
  /\ UNCHANGED <<tables, owned, who, target, clash>>

Next ==
  \/ \E e \in Entry, i \in Id \cup {None} : CreateSession(e, i)
  \/ \E s \in Sid : Remove(s)
  \/ CleanupExpired
  \/ \E e \in Entry : GrowIdle(e)
  \/ \E r \in Req :
       \/ \E e \in Entry : ResolveBound(r, e) \/ RegisterIdentity(r, e)
       \/ \E auth \in AuthIds, i \in IdentityIds : Resolve(r, auth, i)
       \/ Raise(r) \/ Ensure(r) \/ Attach(r)
       \/ StartTimer(r) \/ CancelTimer(r) \/ TimerEnds(r) \/ Finish(r)

Spec == Init /\ [][Next]_vars

-----------------------------------------------------------------------------
(* Properties *)

\* Every variable has its type.
TypeOK ==
  /\ sessions \in [Sid -> Entry \cup {None}]
  /\ identity \in [Id -> Sid \cup {None}]
  /\ owner \in [Entry -> Id \cup {None}]
  /\ status \in [Entry -> {"unused", "made", "displaced", "gone"}]
  /\ idle \in SUBSET Entry
  /\ sweeping \in BOOLEAN
  /\ attached \in [Entry -> Req \cup {None}]
  /\ data \in [Req -> {"none", "held", "released", "late"}]
  /\ timer \in [Entry -> Req \cup {None}]
  /\ task \in [Req -> {"none", "running", "stray", "cancelled", "ended"}]
  /\ pc \in [Req -> {"new", "factory", "resolved", "creating", "ready", "done"}]
  /\ who \in [Req -> Id \cup {None}]
  /\ target \in [Req -> Entry \cup {None}]
  /\ clash \in SUBSET Req

\* The identity map names a registered session of that very identity, and a
\* request that was resolved by an identity cookie works on a session of that
\* identity, whatever was created, replaced, removed or expired meanwhile.
IdentityFindsOwn ==
  /\ \A i \in Id : identity[i] # None =>
       /\ sessions[identity[i]] # None
       /\ owner[sessions[identity[i]]] = i
  /\ \A r \in Req : who[r] # None /\ target[r] # None => owner[target[r]] = who[r]

\* The parts of the inductive invariant behind the three properties.
\* An entry is registered, under one id, from when it is made until it is
\* displaced or gone, and one of an identity's own under the id made for it.
RegistryInv ==
  /\ \A e \in Entry : status[e] = "made" <=> e \in Registered
  /\ \A s, t \in Sid : sessions[s] # None /\ sessions[s] = sessions[t] => s = t
  /\ \A e \in Entry : sessions[SessionSid(e)] \in {None, e}
  /\ \A i \in Id : sessions[IdentitySid(i)] # None =>
       /\ owner[sessions[IdentitySid(i)]] = i
       /\ \E r \in Req : target[r] = sessions[IdentitySid(i)] /\ who[r] = i

\* What a request holds at each place.
RequestInv ==
  \A r \in Req :
    /\ pc[r] = "new" => who[r] = None
    /\ pc[r] = "factory" => who[r] # None
    /\ pc[r] \in {"new", "factory"} => target[r] = None /\ task[r] = "none"
    /\ pc[r] \in {"resolved", "creating", "ready"} => target[r] # None
    /\ pc[r] \in {"new", "factory", "resolved", "creating"} => data[r] = "none"
    /\ data[r] # "none" \/ task[r] # "none" => target[r] # None
    /\ target[r] # None => status[target[r]] # "unused"

\* Data and tasks belong to the session of the request that made them, and
\* only requests that clashed create data where there is some.
OwnedInv ==
  /\ \A e \in Entry : attached[e] # None => target[attached[e]] = e /\ data[attached[e]] # "none"
  /\ \A e \in Entry : timer[e] # None => target[timer[e]] = e
  /\ \A r \in Req : pc[r] = "creating" /\ attached[target[r]] # None =>
       attached[target[r]] \in clash \/ data[attached[target[r]]] = "late"
  /\ \A q, r \in Req :
       pc[q] = "creating" /\ pc[r] = "creating" /\ target[q] = target[r] /\ q # r => q \in clash

\* A session that was displaced was registered for the identity of its owner,
\* by the request that resolved it with that owner's cookie: what create_session
\* registers is never displaced.
DisplacedAreDurable ==
  \A e \in Entry : status[e] = "displaced" =>
    /\ owner[e] # None
    /\ \E r \in Req : target[r] = e /\ who[r] = owner[e]

\* Data that was attached to a registered session stays attached as long as it
\* is registered and is released when it is removed or expires.  Two kinds
\* escape: data of a session that was displaced, and data of requests that
\* created theirs for one session at the same time.
DataReleased ==
  \A r \in Req : data[r] = "held" =>
    \/ /\ attached[target[r]] = r
       /\ target[r] \in Registered \/ status[target[r]] = "displaced"
    \/ r \in clash

\* A timer task ends when its session is removed or expires, and a session
\* never runs two tasks of one key.  The tasks of a displaced session run on,
\* and so does one that a handler started after its session had left.
TimersEnd ==
  \A r \in Req : task[r] \in Runs =>
    /\ timer[target[r]] = r
    /\ task[r] = "running" => target[r] \in Registered \/ status[target[r]] = "displaced"

\* What belongs to a session ends when it is removed or expires: attached data
\* and timer tasks.  Only a session of an identity cookie can leave in another
\* way, displaced by the next one of that identity, and then it keeps both.
ReleasedWithSession == DataReleased /\ TimersEnd /\ DisplacedAreDurable

-----------------------------------------------------------------------------
(* What the documentation says and the code does not do *)

\* LlmingSessionData.cleanup: "called when the owning session is removed": the
\* data a session was given is with a registered session or was released.
HeldByRegistered ==
  \A r \in Req : data[r] = "held" /\ r \notin clash => target[r] \in Registered
=============================================================================
