------------------------------ MODULE Courier ------------------------------
(***************************************************************************)
(* The courier's exchange of objects (courier/service.py, tokens.py) over  *)
(* its two stores: the in-memory store of the dev server                   *)
(* (storage/memory.py), whose handlers run on one event loop without       *)
(* awaiting, and the blob store of the Azure Functions host                *)
(* (storage/azure_blob.py), whose calls run in parallel threads and        *)
(* processes, so that every request to the blob service is a step of its   *)
(* own.  Each object lives in one of them.                                 *)
(*                                                                         *)
(* A capability token carries the expiry in whole seconds, an object's     *)
(* metadata the exact one: the clock counts fractions of a second.         *)
(***************************************************************************)
EXTENDS Integers, FiniteSets

CONSTANTS
  Obj,      \* object ids; new_object_id never repeats one
  Call,     \* download calls
  None,
  Ttls,     \* values of ttl_seconds that uploads ask for
  MaxTtl,   \* max_ttl_seconds, also the age of the lifecycle rule
  Second,   \* clock ticks in a second
  MaxTime   \* bound on the clock

ASSUME ConstantsAssumption ==
  /\ Ttls \subseteq Int
  /\ {MaxTtl, Second, MaxTime} \subseteq Nat \ {0}
  /\ None \notin Obj

VARIABLES
  now,
  blob,     \* object -> "none", "stored" or "gone"
  meta,     \* object -> host, single-use flag, times of creation and expiry
  upload,   \* object -> "none", "stored", "stamped" or "unstamped"
  pc,       \* call -> the request its download makes next, or how it ended
  object,   \* call -> the object it downloads
  \* History
  admitted, \* call -> when its capability was accepted
  found,    \* the calls that found their object in the store
  erased    \* the objects that delete_object was called for

store == <<blob, meta, upload>>
calls == <<pc, object, admitted, found>>
vars == <<now, store, calls, erased>>

NoMeta == [host |-> "none", single |-> FALSE, created |-> 0, expiry |-> 0]

Init ==
  /\ now = 0
  /\ blob = [o \in Obj |-> "none"]
  /\ meta = [o \in Obj |-> NoMeta]
  /\ upload = [o \in Obj |-> "none"]
  /\ pc = [c \in Call |-> "idle"]
  /\ object = [c \in Call |-> None]
  /\ admitted = [c \in Call |-> 0]
  /\ found = {}
  /\ erased = {}

\* int(timestamp), and the resolution of an HTTP date.
WholeSeconds(t) == (t \div Second) * Second

-----------------------------------------------------------------------------
(* Upload *)

\* _resolve_ttl
Accepted(ttl) == ttl > 0 /\ ttl <= MaxTtl

Stored(o, host, once, ttl) ==
  /\ upload[o] = "none"
  /\ Accepted(ttl)
  /\ blob' = [blob EXCEPT ![o] = "stored"]
  /\ meta' = [meta EXCEPT ![o] = [host |-> host, single |-> once,
                                  created |-> now, expiry |-> now + ttl * Second]]
  /\ UNCHANGED <<now, calls, erased>>

\* InMemoryBackend.put: the expiry needs no stamp.
UploadToMemory(o, once, ttl) ==
  /\ Stored(o, "memory", once, ttl)
  /\ upload' = [upload EXCEPT ![o] = "stamped"]

\* AzureBlobBackend.put: the blob, and then its expiry, which may fail.  A
\* call that dies between the two leaves a blob that nobody has a URL of.
UploadToAzure(o, once, ttl) ==
  /\ Stored(o, "azure", once, ttl)
  /\ upload' = [upload EXCEPT ![o] = "stored"]

SetExpiry(o) ==
  /\ upload[o] = "stored"
  /\ \E result \in {"stamped", "unstamped"} : upload' = [upload EXCEPT ![o] = result]
  /\ UNCHANGED <<now, blob, meta, calls, erased>>

HasUrl(o) == upload[o] \in {"stamped", "unstamped"}

-----------------------------------------------------------------------------
(* Download *)

\* Mutant: the token's expiry is rounded up.
TokenRoundedUp(o) == ((meta[o].expiry + Second - 1) \div Second) * Second

\* tokens.mint (and the signed expiry of a SAS): whole seconds.
TokenExpiry(o) == WholeSeconds(meta[o].expiry)

\* A call that presents the capability of o is let in.
Admitted(c, o) ==
  /\ pc[c] = "idle"
  /\ HasUrl(o)
  /\ now <= TokenExpiry(o)
  /\ object' = [object EXCEPT ![c] = o]
  /\ admitted' = [admitted EXCEPT ![c] = now]

\* Mutant: an entry is taken for expired when its token is.
LiveForToken(o) == blob[o] = "stored" /\ now < TokenExpiry(o)

\* InMemoryBackend._live: an expired entry is removed when it is looked at.
Live(o) == blob[o] = "stored" /\ now < meta[o].expiry

\* download on the dev server, one step up to the response.
MemoryDownload(c, o) ==
  /\ meta[o].host = "memory"
  /\ Admitted(c, o)
  /\ pc' = [pc EXCEPT ![c] = IF Live(o) THEN "replying" ELSE "failed"]
  /\ found' = IF Live(o) THEN found \cup {c} ELSE found
  /\ blob' = IF blob[o] = "stored" /\ (meta[o].single \/ ~Live(o))
             THEN [blob EXCEPT ![o] = "gone"] ELSE blob
  /\ UNCHANGED <<now, meta, upload, erased>>

\* stat on the dev server: only the lazy removal changes anything.
MemoryStat(o) ==
  /\ meta[o].host = "memory"
  /\ blob[o] = "stored"
  /\ now <= TokenExpiry(o) /\ ~Live(o)
  /\ blob' = [blob EXCEPT ![o] = "gone"]
  /\ UNCHANGED <<now, meta, upload, calls, erased>>

Proceeds(c, from, to) == pc[c] = from /\ pc' = [pc EXCEPT ![c] = to]

\* download on the Azure host: the token is verified; single-use objects, and
\* all objects where no direct URLs are handed out.
AzureDownload(c, o) ==
  /\ meta[o].host = "azure"
  /\ Admitted(c, o)
  /\ Proceeds(c, "idle", "reading")
  /\ UNCHANGED <<now, store, found, erased>>

\* A multi-read object read from the blob service under its SAS.
DirectDownload(c, o) ==
  /\ meta[o].host = "azure"
  /\ ~meta[o].single
  /\ Admitted(c, o)
  /\ blob[o] = "stored"
  /\ Proceeds(c, "idle", "replying")
  /\ found' = found \cup {c}
  /\ UNCHANGED <<now, store, erased>>

\* download_blob().readall()
ReadBlob(c) ==
  /\ Proceeds(c, "reading", "checking")
  /\ blob[object[c]] = "stored"
  /\ found' = found \cup {c}
  /\ UNCHANGED <<now, store, object, admitted, erased>>

\* Mutant: the blob is deleted only once the answer is on its way.
ReadPropertiesFirst(c) ==
  /\ Proceeds(c, "checking", "replying")
  /\ blob[object[c]] = "stored"
  /\ UNCHANGED <<now, store, object, admitted, found, erased>>

\* get_blob_properties(): another download may have deleted the blob since.
ReadProperties(c) ==
  /\ Proceeds(c, "checking", IF meta[object[c]].single THEN "deleting" ELSE "replying")
  /\ blob[object[c]] = "stored"
  /\ UNCHANGED <<now, store, object, admitted, found, erased>>

\* Either of them finds no blob.
NotFound(c) ==
  /\ pc[c] \in {"reading", "checking"}
  /\ blob[object[c]] # "stored"
  /\ pc' = [pc EXCEPT ![c] = "failed"]
  /\ UNCHANGED <<now, store, object, admitted, found, erased>>

\* backend.delete: no error if the blob is gone already.
DeleteBlob(c) ==
  /\ Proceeds(c, "deleting", "replying")
  /\ blob' = [blob EXCEPT ![object[c]] = "gone"]
  /\ UNCHANGED <<now, meta, upload, object, admitted, found, erased>>

\* The client has the whole response ...
Reply(c) ==
  /\ Proceeds(c, "replying", "given")
  /\ UNCHANGED <<now, store, object, admitted, found, erased>>

\* ... or the call or its response is lost.
Fail(c) ==
  /\ pc[c] \in {"reading", "checking", "deleting", "replying"}
  /\ pc' = [pc EXCEPT ![c] = "failed"]
  /\ UNCHANGED <<now, store, object, admitted, found, erased>>

-----------------------------------------------------------------------------
(* Deletion and time *)

\* delete_object
Erase(o) ==
  /\ HasUrl(o)
  /\ blob' = [blob EXCEPT ![o] = "gone"]
  /\ erased' = erased \cup {o}
  /\ UNCHANGED <<now, meta, upload, calls>>

\* The blob service removes a blob at its stamped expiry, or by the lifecycle
\* rule once it is as old as any object may become.
Expires(o) ==
  /\ meta[o].host = "azure"
  /\ blob[o] = "stored"
  /\ \/ upload[o] = "stamped" /\ now >= WholeSeconds(meta[o].expiry)
     \/ now >= meta[o].created + MaxTtl * Second
  /\ blob' = [blob EXCEPT ![o] = "gone"]
  /\ UNCHANGED <<now, meta, upload, calls, erased>>

Tick ==
  /\ now < MaxTime
  /\ now' = now + 1
  /\ UNCHANGED <<store, calls, erased>>

-----------------------------------------------------------------------------
(* The routes: upload, the end of an object, and the start of a download *)

Upload(o) ==
  \/ \E once \in BOOLEAN, ttl \in Ttls : UploadToMemory(o, once, ttl) \/ UploadToAzure(o, once, ttl)
  \/ SetExpiry(o)
Removal(o) == MemoryStat(o) \/ Erase(o) \/ Expires(o)
Begin(c, o) == MemoryDownload(c, o) \/ AzureDownload(c, o) \/ DirectDownload(c, o)
Continue(c) == ReadBlob(c) \/ ReadProperties(c) \/ NotFound(c) \/ DeleteBlob(c) \/ Reply(c) \/ Fail(c)

Next ==
  \/ \E o \in Obj : Upload(o) \/ Removal(o)
  \/ \E c \in Call : Continue(c) \/ \E o \in Obj : Begin(c, o)
  \/ Tick

Spec == Init /\ [][Next]_vars

-----------------------------------------------------------------------------
(* Properties *)

\* Every variable has its type, and a call works on an object that it has
\* the URL of.
TypeOK ==
  /\ now \in 0 .. MaxTime
  /\ blob \in [Obj -> {"none", "stored", "gone"}]
  /\ meta \in [Obj -> [host : {"none", "memory", "azure"}, single : BOOLEAN,
                       created : Int, expiry : Int]]
  /\ upload \in [Obj -> {"none", "stored", "stamped", "unstamped"}]
  /\ pc \in [Call -> {"idle", "reading", "checking", "deleting", "replying", "given", "failed"}]
  /\ object \in [Call -> Obj \cup {None}]
  /\ admitted \in [Call -> Int]
  /\ found \subseteq Call
  /\ erased \subseteq Obj
  /\ \A o \in Obj : (blob[o] = "none") <=> (upload[o] = "none")
  /\ \A c \in Call : (pc[c] = "idle") <=> (object[c] = None)
  /\ \A c \in Call : pc[c] # "idle" => HasUrl(object[c])

\* No download that is let in after the expiry of its object gets it, not
\* even where the blob outlives its expiry because stamping it failed.
NothingGivenAfterExpiry ==
  \A c \in found : admitted[c] <= meta[object[c]].expiry

\* On the dev server a single-use object is handed out at most once,
\* however calls overlap.
MemoryGivesOnce ==
  \A c, d \in found :
    /\ object[c] = object[d]
    /\ meta[object[c]].single /\ meta[object[c]].host = "memory"
    => c = d

\* A call finds an object in its time, and on the dev server no second call
\* finds one that is single-use.
FoundInTimeAndOnce == NothingGivenAfterExpiry /\ MemoryGivesOnce

\* An object is there until it expires (the blob service knows the whole
\* second only), unless it was erased or is single-use and a download found it.
LastsUntilExpiry ==
  \A o \in Obj :
    /\ blob[o] = "gone"
    /\ now < IF meta[o].host = "memory" THEN meta[o].expiry ELSE WholeSeconds(meta[o].expiry)
    => \/ o \in erased
       \/ meta[o].single /\ \E c \in found : object[c] = o

\* Both hosts keep the promises of Exchange; a call asks when it finds the
\* object in the store.
Promised == INSTANCE Exchange WITH
  status <- [o \in Obj |-> IF blob[o] = "stored" THEN "available" ELSE blob[o]],
  single <- {o \in Obj : meta[o].single},
  asked <- [c \in Call |-> IF c \in found THEN object[c] ELSE None],
  held <- {c \in Call : pc[c] = "given"}
ImplementsExchange == Promised!Spec
=============================================================================
