--------------------------- MODULE Courier_proofs ---------------------------
(***************************************************************************)
(* Theorems about Courier, for any sets of objects and calls, any          *)
(* lifetimes and any resolution of the clock.                              *)
(***************************************************************************)
EXTENDS Courier, TLAPS

\* Cutting a time to whole seconds does not move it into the future.
LEMMA WholeSecondsEarlier ==
  \A t \in Int : WholeSeconds(t) \in Int /\ WholeSeconds(t) <= t
BY ConstantsAssumption DEF WholeSeconds

\* No accepted lifetime outlasts the lifecycle rule.
LEMMA LifetimeBounded ==
  \A ttl \in Int : ttl * Second \in Int /\ (ttl <= MaxTtl => ttl * Second <= MaxTtl * Second)
BY ConstantsAssumption

\* The actions, as a preservation proof splits them.
LEMMA NextCases ==
  ASSUME NEW P, [Next]_vars,
         \A o \in Obj, once \in BOOLEAN, ttl \in Ttls : UploadToMemory(o, once, ttl) => P,
         \A o \in Obj, once \in BOOLEAN, ttl \in Ttls : UploadToAzure(o, once, ttl) => P,
         \A o \in Obj : SetExpiry(o) => P,
         \A o \in Obj : MemoryStat(o) => P,
         \A o \in Obj : Erase(o) => P,
         \A o \in Obj : Expires(o) => P,
         \A c \in Call, o \in Obj : MemoryDownload(c, o) => P,
         \A c \in Call, o \in Obj : AzureDownload(c, o) => P,
         \A c \in Call, o \in Obj : DirectDownload(c, o) => P,
         \A c \in Call : ReadBlob(c) => P,
         \A c \in Call : ReadProperties(c) => P,
         \A c \in Call : DeleteBlob(c) => P,
         \A c \in Call : Reply(c) => P,
         \A c \in Call : NotFound(c) \/ Fail(c) => P,
         Tick => P,
         UNCHANGED vars => P
  PROVE  P
BY DEF Next, Upload, Removal, Begin, Continue

\* Types are preserved by every step.
LEMMA TypeStep == TypeOK /\ [Next]_vars => TypeOK'
<1> SUFFICES ASSUME TypeOK, [Next]_vars PROVE TypeOK'
  OBVIOUS
<1> USE ConstantsAssumption DEF TypeOK, HasUrl, store, calls
<1>1. ASSUME NEW o \in Obj, NEW once \in BOOLEAN, NEW ttl \in Ttls, UploadToMemory(o, once, ttl) PROVE TypeOK'
  BY <1>1, LifetimeBounded DEF UploadToMemory, Stored
<1>2. ASSUME NEW o \in Obj, NEW once \in BOOLEAN, NEW ttl \in Ttls, UploadToAzure(o, once, ttl) PROVE TypeOK'
  BY <1>2, LifetimeBounded DEF UploadToAzure, Stored
<1>3. ASSUME NEW o \in Obj, SetExpiry(o) PROVE TypeOK'
  BY <1>3 DEF SetExpiry
<1>4. ASSUME NEW o \in Obj, MemoryStat(o) PROVE TypeOK'
  BY <1>4 DEF MemoryStat
<1>5. ASSUME NEW o \in Obj, Erase(o) PROVE TypeOK'
  BY <1>5 DEF Erase
<1>6. ASSUME NEW o \in Obj, Expires(o) PROVE TypeOK'
  BY <1>6 DEF Expires
<1>7. ASSUME NEW c \in Call, NEW o \in Obj, MemoryDownload(c, o) PROVE TypeOK'
  BY <1>7 DEF MemoryDownload, Admitted
<1>8. ASSUME NEW c \in Call, NEW o \in Obj, AzureDownload(c, o) PROVE TypeOK'
  BY <1>8 DEF AzureDownload, Admitted, Proceeds
<1>9. ASSUME NEW c \in Call, NEW o \in Obj, DirectDownload(c, o) PROVE TypeOK'
  BY <1>9 DEF DirectDownload, Admitted, Proceeds
<1>10. ASSUME NEW c \in Call, ReadBlob(c) PROVE TypeOK'
  BY <1>10 DEF ReadBlob, Proceeds
<1>11. ASSUME NEW c \in Call, ReadProperties(c) PROVE TypeOK'
  BY <1>11 DEF ReadProperties, Proceeds
<1>12. ASSUME NEW c \in Call, DeleteBlob(c) PROVE TypeOK'
  BY <1>12 DEF DeleteBlob, Proceeds
<1>13. ASSUME NEW c \in Call, Reply(c) PROVE TypeOK'
  BY <1>13 DEF Reply, Proceeds
<1>14. ASSUME NEW c \in Call, NotFound(c) \/ Fail(c) PROVE TypeOK'
  BY <1>14 DEF NotFound, Fail
<1>15. ASSUME Tick PROVE TypeOK'
  BY <1>15 DEF Tick
<1>16. ASSUME UNCHANGED vars PROVE TypeOK'
  BY <1>16 DEF vars
<1> HIDE DEF TypeOK
<1> QED
  BY <1>1, <1>2, <1>3, <1>4, <1>5, <1>6, <1>7, <1>8, <1>9, <1>10, <1>11,
     <1>12, <1>13, <1>14, <1>15, <1>16, NextCases

\* Every reachable state is well typed, and a call works on an object that
\* was uploaded completely (service.py, upload returns the URL last).
THEOREM TypeCorrect == Spec => []TypeOK
<1>1. Init => TypeOK
  BY ConstantsAssumption DEF Init, TypeOK, NoMeta, HasUrl
<1> QED BY <1>1, TypeStep, PTL DEF Spec

-----------------------------------------------------------------------------
(* What is known of downloads and uploads in progress *)

\* How far a call is tells whether it found its object, and a single-use
\* object is gone once its answer is on the way.
CallState ==
  \A c \in Call :
    /\ pc[c] \in {"idle", "reading"} => c \notin found
    /\ pc[c] \in {"checking", "deleting", "replying", "given"} => c \in found
    /\ pc[c] \in {"reading", "checking", "deleting"} => meta[object[c]].host = "azure"
    /\ pc[c] = "deleting" => meta[object[c]].single
    /\ pc[c] \in {"replying", "given"} /\ meta[object[c]].single => blob[object[c]] = "gone"
    /\ pc[c] # "idle" => admitted[c] <= TokenExpiry(object[c])
    /\ c \in found /\ meta[object[c]].single /\ meta[object[c]].host = "memory"
         => blob[object[c]] = "gone"

\* What is not uploaded has no metadata; what is expires before the
\* lifecycle rule removes it.
ObjectState ==
  \A o \in Obj :
    /\ upload[o] = "none" => meta[o] = NoMeta
    /\ meta[o].expiry <= meta[o].created + MaxTtl * Second

Progress == CallState /\ ObjectState

LEMMA ProgressStep == TypeOK /\ Progress /\ [Next]_vars => Progress'
<1> SUFFICES ASSUME TypeOK, Progress, [Next]_vars PROVE Progress'
  OBVIOUS
<1>0. /\ \A c \in Call : pc[c] # "idle" => object[c] \in Obj /\ HasUrl(object[c])
      /\ \A c \in Call : c \in found => pc[c] # "idle"
  BY DEF TypeOK, Progress, CallState, HasUrl
<1>1. ASSUME NEW o \in Obj, NEW once \in BOOLEAN, NEW ttl \in Ttls, NEW host \in {"memory", "azure"},
             Stored(o, host, once, ttl), upload'[o] # "none",
             \A x \in Obj : x # o => upload'[x] = upload[x]
      PROVE  Progress'
  <2>1. \A c \in Call : pc[c] # "idle" => object[c] # o
    BY <1>0, <1>1 DEF Stored, HasUrl
  <2>2. /\ UNCHANGED <<pc, object, admitted, found>>
        /\ \A x \in Obj : x # o => meta'[x] = meta[x] /\ blob'[x] = blob[x]
    BY <1>1 DEF Stored, calls, TypeOK
  <2>3. CallState'
    BY <1>0, <2>1, <2>2 DEF Progress, CallState, TokenExpiry
  <2>4. meta'[o].expiry <= meta'[o].created + MaxTtl * Second
    BY <1>1, LifetimeBounded, ConstantsAssumption DEF Stored, Accepted, TypeOK
  <2>5. ObjectState'
    BY <1>1, <2>2, <2>4 DEF Progress, ObjectState
  <2> QED BY <2>3, <2>5 DEF Progress
<1>2. ASSUME NEW o \in Obj, NEW once \in BOOLEAN, NEW ttl \in Ttls, UploadToMemory(o, once, ttl) PROVE Progress'
  <2>1. Stored(o, "memory", once, ttl) /\ upload' = [upload EXCEPT ![o] = "stamped"]
    BY <1>2 DEF UploadToMemory
  <2> QED BY <1>1, <2>1 DEF TypeOK
<1>3. ASSUME NEW o \in Obj, NEW once \in BOOLEAN, NEW ttl \in Ttls, UploadToAzure(o, once, ttl) PROVE Progress'
  <2>1. Stored(o, "azure", once, ttl) /\ upload' = [upload EXCEPT ![o] = "stored"]
    BY <1>3 DEF UploadToAzure
  <2> QED BY <1>1, <2>1 DEF TypeOK
<1>4. ASSUME NEW o \in Obj, SetExpiry(o) PROVE Progress'
  BY <1>4 DEF SetExpiry, calls, TypeOK, Progress, CallState, ObjectState, TokenExpiry
\* A step that only removes an object disturbs nothing.
<1>5. ASSUME NEW o \in Obj, blob' = [blob EXCEPT ![o] = "gone"], UNCHANGED <<meta, upload, calls>>
      PROVE  Progress'
  BY <1>0, <1>5 DEF calls, TypeOK, Progress, CallState, ObjectState, TokenExpiry
<1>6. ASSUME NEW o \in Obj, MemoryStat(o) \/ Erase(o) \/ Expires(o) PROVE Progress'
  BY <1>5, <1>6 DEF MemoryStat, Erase, Expires
<1>7. ASSUME NEW c \in Call, NEW o \in Obj, MemoryDownload(c, o) PROVE Progress'
  <2>1. /\ pc[c] = "idle" /\ now <= TokenExpiry(o) /\ c \notin found
        /\ object' = [object EXCEPT ![c] = o] /\ admitted' = [admitted EXCEPT ![c] = now]
        /\ pc' = [pc EXCEPT ![c] = IF Live(o) THEN "replying" ELSE "failed"]
        /\ found' = IF Live(o) THEN found \cup {c} ELSE found
        /\ blob' = IF blob[o] = "stored" /\ (meta[o].single \/ ~Live(o))
                   THEN [blob EXCEPT ![o] = "gone"] ELSE blob
        /\ UNCHANGED <<meta, upload>>
    BY <1>7 DEF MemoryDownload, Admitted, Progress, CallState
  <2>2. Live(o) /\ meta[o].single => blob'[o] = "gone"
    BY <2>1 DEF Live, TypeOK
  <2>3. \A x \in Obj : blob[x] = "gone" => blob'[x] = "gone"
    BY <2>1 DEF TypeOK
  <2>4. ObjectState'
    BY <2>1 DEF Progress, ObjectState
  <2>5. CallState'
    BY <1>0, <2>1, <2>2, <2>3 DEF TypeOK, Progress, CallState, TokenExpiry
  <2> QED BY <2>4, <2>5 DEF Progress
<1>8. ASSUME NEW c \in Call, NEW o \in Obj, AzureDownload(c, o) PROVE Progress'
  BY <1>0, <1>8 DEF AzureDownload, Admitted, Proceeds, store, TypeOK, Progress, CallState, ObjectState, TokenExpiry
<1>9. ASSUME NEW c \in Call, NEW o \in Obj, DirectDownload(c, o) PROVE Progress'
  BY <1>0, <1>9 DEF DirectDownload, Admitted, Proceeds, store, TypeOK, Progress, CallState, ObjectState, TokenExpiry
<1>10. ASSUME NEW c \in Call, ReadBlob(c) PROVE Progress'
  BY <1>0, <1>10 DEF ReadBlob, Proceeds, store, TypeOK, Progress, CallState, ObjectState, TokenExpiry
<1>11. ASSUME NEW c \in Call, ReadProperties(c) PROVE Progress'
  BY <1>0, <1>11 DEF ReadProperties, Proceeds, store, TypeOK, Progress, CallState, ObjectState, TokenExpiry
<1>12. ASSUME NEW c \in Call, DeleteBlob(c) PROVE Progress'
  BY <1>0, <1>12 DEF DeleteBlob, Proceeds, TypeOK, Progress, CallState, ObjectState, TokenExpiry
<1>13. ASSUME NEW c \in Call, Reply(c) PROVE Progress'
  BY <1>0, <1>13 DEF Reply, Proceeds, store, TypeOK, Progress, CallState, ObjectState, TokenExpiry
<1>14. ASSUME NEW c \in Call, NotFound(c) \/ Fail(c) PROVE Progress'
  BY <1>0, <1>14 DEF NotFound, Fail, store, TypeOK, Progress, CallState, ObjectState, TokenExpiry
<1>15. ASSUME UNCHANGED <<store, calls>> PROVE Progress'
  BY <1>15 DEF store, calls, Progress, CallState, ObjectState, TokenExpiry
<1>16. Tick \/ UNCHANGED vars => Progress'
  BY <1>15 DEF Tick, vars
<1> HIDE DEF Progress
<1> QED
  BY <1>2, <1>3, <1>4, <1>6, <1>7, <1>8, <1>9, <1>10, <1>11, <1>12, <1>13,
     <1>14, <1>16, NextCases

LEMMA ProgressAlways == Spec => [](TypeOK /\ Progress)
<1>1. Init => Progress
  BY ConstantsAssumption DEF Init, Progress, CallState, ObjectState, NoMeta
<1> QED BY <1>1, TypeCorrect, ProgressStep, PTL DEF Spec

-----------------------------------------------------------------------------
(* The theorems *)

\* Nothing is handed out to a call that came after the expiry of its object,
\* whether or not the blob service was told that expiry.
THEOREM ExpirySafety == Spec => []NothingGivenAfterExpiry
<1>1. TypeOK /\ Progress => NothingGivenAfterExpiry
  <2> SUFFICES ASSUME TypeOK, Progress, NEW c \in found
               PROVE  admitted[c] <= meta[object[c]].expiry
    BY DEF NothingGivenAfterExpiry
  <2>1. c \in Call /\ pc[c] # "idle" /\ object[c] \in Obj
    BY DEF TypeOK, HasUrl, Progress, CallState
  <2>2. admitted[c] <= TokenExpiry(object[c])
    BY <2>1 DEF Progress, CallState
  <2>3. admitted[c] \in Int /\ meta[object[c]].expiry \in Int
    BY <2>1 DEF TypeOK
  <2> QED BY <2>2, <2>3, WholeSecondsEarlier DEF TokenExpiry
<1> QED BY <1>1, ProgressAlways, PTL

\* What makes a single-use object single-use on either host (service.py,
\* download deletes before it returns): whoever holds it, it is gone.
THEOREM HeldSafety == Spec => []Promised!HeldOnceIsGone
<1>1. TypeOK /\ Progress => Promised!HeldOnceIsGone
  BY DEF Promised!HeldOnceIsGone, TypeOK, Progress, CallState, HasUrl
<1> QED BY <1>1, ProgressAlways, PTL

\* The dev server hands a single-use object to one call only: once a call
\* has found it, it is gone.
THEOREM OnceSafety == Spec => []MemoryGivesOnce
<1>1. Init => MemoryGivesOnce
  BY DEF Init, MemoryGivesOnce
<1>2. TypeOK /\ Progress /\ MemoryGivesOnce /\ [Next]_vars => MemoryGivesOnce'
  <2> SUFFICES ASSUME TypeOK, Progress, MemoryGivesOnce, [Next]_vars PROVE MemoryGivesOnce'
    OBVIOUS
  <2>1. \A c \in found : c \in Call /\ pc[c] # "idle" /\ object[c] \in Obj /\ HasUrl(object[c])
    BY DEF TypeOK, HasUrl, Progress, CallState
  <2>2. ASSUME UNCHANGED <<object, found>>,
               \A o \in Obj : HasUrl(o) => meta'[o] = meta[o]
        PROVE  MemoryGivesOnce'
    BY <2>1, <2>2 DEF MemoryGivesOnce
  <2>3. ASSUME NEW o \in Obj, NEW once \in BOOLEAN, NEW ttl \in Ttls,
               UploadToMemory(o, once, ttl) \/ UploadToAzure(o, once, ttl)
        PROVE  MemoryGivesOnce'
    BY <2>2, <2>3 DEF UploadToMemory, UploadToAzure, Stored, calls, HasUrl, TypeOK
  <2>4. ASSUME UNCHANGED <<meta, calls>> PROVE MemoryGivesOnce'
    BY <2>2, <2>4 DEF calls
  <2>5. ASSUME NEW c \in Call, NEW o \in Obj, MemoryDownload(c, o) PROVE MemoryGivesOnce'
    <3>1. /\ object' = [object EXCEPT ![c] = o] /\ UNCHANGED meta
          /\ found' = IF Live(o) THEN found \cup {c} ELSE found
          /\ c \notin found
      BY <2>1, <2>5 DEF MemoryDownload, Admitted
    <3>2. CASE Live(o)
      <4>1. \A d \in found : object[d] = o /\ meta[o].single /\ meta[o].host = "memory" => FALSE
        BY <2>1, <3>2 DEF Live, Progress, CallState
      <4> QED BY <2>1, <3>1, <3>2, <4>1 DEF MemoryGivesOnce, TypeOK
    <3>3. CASE ~Live(o)
      BY <2>1, <3>1, <3>3 DEF MemoryGivesOnce, TypeOK
    <3> QED BY <3>2, <3>3
  <2>6. ASSUME NEW c \in Call, NEW o \in Obj, AzureDownload(c, o) PROVE MemoryGivesOnce'
    BY <2>1, <2>6 DEF AzureDownload, Admitted, store, MemoryGivesOnce, TypeOK
  <2>7. ASSUME NEW c \in Call, NEW o \in Obj, DirectDownload(c, o) PROVE MemoryGivesOnce'
    BY <2>1, <2>7 DEF DirectDownload, Admitted, store, MemoryGivesOnce, TypeOK
  <2>8. ASSUME NEW c \in Call, ReadBlob(c) PROVE MemoryGivesOnce'
    <3>1. UNCHANGED <<meta, object>> /\ found' = found \cup {c} /\ meta[object[c]].host = "azure"
      BY <2>8 DEF ReadBlob, Proceeds, store, Progress, CallState
    <3> QED BY <3>1 DEF MemoryGivesOnce
  <2>9. UNCHANGED vars => MemoryGivesOnce'
    BY <2>4 DEF vars, store, calls
  <2>10. ASSUME NEW c \in Call,
                ReadProperties(c) \/ DeleteBlob(c) \/ Reply(c) \/ NotFound(c) \/ Fail(c)
         PROVE  MemoryGivesOnce'
    BY <2>2, <2>10 DEF ReadProperties, DeleteBlob, Reply, NotFound, Fail, Proceeds, store
  <2>11. ASSUME NEW o \in Obj, SetExpiry(o) \/ MemoryStat(o) \/ Erase(o) \/ Expires(o) PROVE MemoryGivesOnce'
    BY <2>4, <2>11 DEF SetExpiry, MemoryStat, Erase, Expires
  <2>12. Tick => MemoryGivesOnce'
    BY <2>4 DEF Tick, store
  <2> QED
    BY <2>3, <2>5, <2>6, <2>7, <2>8, <2>9, <2>10, <2>11, <2>12, NextCases
<1> QED BY <1>1, <1>2, ProgressAlways, PTL DEF Spec

\* Both: a call finds an object in its time, and once on the dev server.
THEOREM FindingSafety == Spec => []FoundInTimeAndOnce
<1>1. NothingGivenAfterExpiry /\ MemoryGivesOnce => FoundInTimeAndOnce
  BY DEF FoundInTimeAndOnce
<1> QED BY <1>1, ExpirySafety, OnceSafety, PTL

\* An object does not disappear before its expiry, in whole seconds where the
\* blob service keeps it, other than by delete_object or, if it is
\* single-use, after a download has found it.
THEOREM LastingSafety == Spec => []LastsUntilExpiry
<1> DEFINE Over(o) ==
      \/ o \in erased
      \/ meta[o].single /\ \E c \in found : object[c] = o
      \/ now >= IF meta[o].host = "memory" THEN meta[o].expiry ELSE WholeSeconds(meta[o].expiry)
<1>1. Init => LastsUntilExpiry
  BY DEF Init, LastsUntilExpiry
<1>2. TypeOK /\ Progress /\ LastsUntilExpiry /\ [Next]_vars => LastsUntilExpiry'
  <2> SUFFICES ASSUME TypeOK, TypeOK', Progress, LastsUntilExpiry, [Next]_vars PROVE LastsUntilExpiry'
    BY TypeStep
  <2>1. \A o \in Obj : blob[o] = "gone" => Over(o)
    BY WholeSecondsEarlier DEF TypeOK, LastsUntilExpiry
  <2>2. SUFFICES \A o \in Obj : blob'[o] = "gone" => Over(o)'
    BY WholeSecondsEarlier DEF TypeOK, LastsUntilExpiry
  \* What was over stays over: time passes, and nothing is forgotten of an
  \* object that is stored or gone.
  <2>3. \A c \in found : c \in Call /\ pc[c] # "idle" /\ object[c] \in Obj /\ HasUrl(object[c])
    BY DEF TypeOK, HasUrl, Progress, CallState
  <2>4. ASSUME NEW o \in Obj, meta'[o] = meta[o], Over(o), now' >= now, erased \subseteq erased',
               found \subseteq found', \A c \in found : object'[c] = object[c]
        PROVE  Over(o)'
    BY <2>4, WholeSecondsEarlier DEF TypeOK
  <2>5. ASSUME UNCHANGED <<blob, meta>>, now' >= now, erased \subseteq erased',
               found \subseteq found', \A c \in found : object'[c] = object[c]
        PROVE  \A o \in Obj : blob'[o] = "gone" => Over(o)'
    BY <2>1, <2>4, <2>5
  <2>6. ASSUME NEW o \in Obj, Over(o), blob' = [blob EXCEPT ![o] = "gone"], UNCHANGED meta,
               now' >= now, erased \subseteq erased',
               found \subseteq found', \A c \in found : object'[c] = object[c]
        PROVE  \A x \in Obj : blob'[x] = "gone" => Over(x)'
    BY <2>1, <2>4, <2>6 DEF TypeOK
  <2>7. now >= now
    BY DEF TypeOK
  <2>8. ASSUME NEW o \in Obj, NEW once \in BOOLEAN, NEW ttl \in Ttls,
               UploadToMemory(o, once, ttl) \/ UploadToAzure(o, once, ttl)
        PROVE  \A x \in Obj : blob'[x] = "gone" => Over(x)'
    <3>1. /\ blob' = [blob EXCEPT ![o] = "stored"]
          /\ \A x \in Obj : x # o => meta'[x] = meta[x]
          /\ UNCHANGED <<now, object, found, erased>>
      BY <2>8 DEF UploadToMemory, UploadToAzure, Stored, calls, TypeOK
    <3>2. \A x \in Obj : blob'[x] = "gone" => x # o /\ blob[x] = "gone"
      BY <3>1 DEF TypeOK
    <3> QED BY <2>1, <2>4, <2>7, <3>1, <3>2
  <2>9. ASSUME NEW o \in Obj, SetExpiry(o)
        PROVE  \A x \in Obj : blob'[x] = "gone" => Over(x)'
    BY <2>5, <2>7, <2>9 DEF SetExpiry, calls
  <2>10. ASSUME NEW o \in Obj, MemoryStat(o)
         PROVE  \A x \in Obj : blob'[x] = "gone" => Over(x)'
    <3>1. Over(o)
      BY <2>10 DEF MemoryStat, Live, TypeOK
    <3> QED BY <2>6, <2>7, <2>10, <3>1 DEF MemoryStat, calls
  <2>11. ASSUME NEW o \in Obj, Erase(o)
         PROVE  \A x \in Obj : blob'[x] = "gone" => Over(x)'
    <3>1. /\ blob' = [blob EXCEPT ![o] = "gone"] /\ o \in erased'
          /\ erased \subseteq erased' /\ UNCHANGED <<now, meta, object, found>>
      BY <2>11 DEF Erase, calls
    <3>2. ASSUME NEW x \in Obj, x # o, blob'[x] = "gone" PROVE Over(x)'
      BY <2>1, <2>4, <2>7, <3>1, <3>2 DEF TypeOK
    <3> QED BY <3>1, <3>2
  <2>12. ASSUME NEW o \in Obj, Expires(o)
         PROVE  \A x \in Obj : blob'[x] = "gone" => Over(x)'
    <3>1. meta[o].expiry <= meta[o].created + MaxTtl * Second
      BY DEF Progress, ObjectState
    <3>2. /\ MaxTtl * Second \in Int /\ meta[o].created \in Int /\ meta[o].expiry \in Int
          /\ meta[o].host = "azure" /\ now \in Int
      BY <2>12, ConstantsAssumption DEF Expires, TypeOK
    <3>3. Over(o)
      BY <2>12, <3>1, <3>2, WholeSecondsEarlier DEF Expires
    <3> QED BY <2>6, <2>7, <2>12, <3>3 DEF Expires, calls
  <2>13. ASSUME NEW c \in Call, NEW o \in Obj, MemoryDownload(c, o)
         PROVE  \A x \in Obj : blob'[x] = "gone" => Over(x)'
    <3>1. /\ meta[o].host = "memory" /\ c \notin found
          /\ object' = [object EXCEPT ![c] = o]
          /\ found' = IF Live(o) THEN found \cup {c} ELSE found
          /\ blob' = IF blob[o] = "stored" /\ (meta[o].single \/ ~Live(o))
                     THEN [blob EXCEPT ![o] = "gone"] ELSE blob
          /\ UNCHANGED <<now, meta, erased>>
      BY <2>3, <2>13 DEF MemoryDownload, Admitted
    <3>2. /\ found \subseteq found' /\ \A d \in found : object'[d] = object[d]
          /\ c \in found' => object'[c] = o
      BY <2>3, <3>1 DEF TypeOK
    <3>3. ASSUME NEW x \in Obj, blob[x] = "gone" PROVE Over(x)'
      BY <2>1, <2>4, <2>7, <3>1, <3>2, <3>3
    <3>4. blob[o] = "stored" /\ blob'[o] = "gone" => Over(o)'
      <4>1. CASE Live(o)
        BY <3>1, <3>2, <4>1 DEF TypeOK
      <4>2. CASE ~Live(o)
        BY <3>1, <4>2 DEF Live, TypeOK
      <4> QED BY <4>1, <4>2
    <3>5. \A x \in Obj : blob'[x] = "gone" => blob[x] = "gone" \/ (x = o /\ blob[o] = "stored")
      <4>1. \/ blob' = blob
            \/ blob[o] = "stored" /\ blob' = [blob EXCEPT ![o] = "gone"]
        BY <3>1
      <4> QED BY <4>1 DEF TypeOK
    <3> QED BY <3>3, <3>4, <3>5
  <2>14. ASSUME NEW c \in Call, NEW o \in Obj, AzureDownload(c, o) \/ DirectDownload(c, o)
         PROVE  \A x \in Obj : blob'[x] = "gone" => Over(x)'
    <3>1. /\ object' = [object EXCEPT ![c] = o] /\ c \notin found
          /\ found \subseteq found' /\ UNCHANGED <<now, blob, meta, erased>>
      BY <2>3, <2>14 DEF AzureDownload, DirectDownload, Admitted, store
    <3> QED BY <2>3, <2>5, <2>7, <3>1 DEF TypeOK
  <2>15. ASSUME NEW c \in Call, ReadBlob(c) \/ ReadProperties(c) \/ Reply(c) \/ NotFound(c) \/ Fail(c)
         PROVE  \A x \in Obj : blob'[x] = "gone" => Over(x)'
    BY <2>5, <2>7, <2>15 DEF ReadBlob, ReadProperties, Reply, NotFound, Fail, store
  <2>16. ASSUME NEW c \in Call, DeleteBlob(c)
         PROVE  \A x \in Obj : blob'[x] = "gone" => Over(x)'
    <3>1. object[c] \in Obj /\ c \in found /\ meta[object[c]].single
      BY <2>3, <2>16 DEF DeleteBlob, Proceeds, Progress, CallState
    <3>2. Over(object[c])
      BY <3>1
    <3> QED BY <2>6, <2>7, <2>16, <3>1, <3>2 DEF DeleteBlob
  <2>17. Tick \/ UNCHANGED vars => \A x \in Obj : blob'[x] = "gone" => Over(x)'
    <3>1. ASSUME Tick \/ UNCHANGED vars
          PROVE  UNCHANGED <<store, calls, erased>> /\ now' >= now
      BY <3>1 DEF Tick, vars, TypeOK
    <3> QED BY <2>5, <3>1 DEF store, calls
  <2> HIDE DEF Over
  <2> QED
    BY <2>8, <2>9, <2>10, <2>11, <2>12, <2>13, <2>14, <2>15, <2>16, <2>17, NextCases
<1> QED BY <1>1, <1>2, ProgressAlways, PTL DEF Spec

\* Courier keeps the promises of Exchange, on both hosts and however their
\* calls overlap: every step of it is a step of Exchange, where a call asks
\* when it finds its object, or leaves what Exchange speaks of unchanged.
THEOREM Refinement == Spec => ImplementsExchange
<1> USE DEF Promised!vars
<1> DEFINE status == [o \in Obj |-> IF blob[o] = "stored" THEN "available" ELSE blob[o]]
           single == {o \in Obj : meta[o].single}
           asked == [c \in Call |-> IF c \in found THEN object[c] ELSE None]
           held == {c \in Call : pc[c] = "given"}
           Maps == Promised!Next \/ UNCHANGED <<status, single, asked, held>>
<1>1. Init => Promised!Init
  BY DEF Init, NoMeta, Promised!Init
<1>2. TypeOK /\ Progress /\ [Next]_vars => [Promised!Next]_(Promised!vars)
  <2> SUFFICES ASSUME TypeOK, Progress, [Next]_vars PROVE Maps
    OBVIOUS
  <2>1. \A c \in found : c \in Call /\ pc[c] # "idle" /\ object[c] \in Obj /\ HasUrl(object[c])
    BY DEF TypeOK, HasUrl, Progress, CallState
  <2>2. ASSUME UNCHANGED <<status, single, asked, held>> PROVE Maps
    BY <2>2
  <2>3. ASSUME NEW o \in Obj, blob[o] # "none", blob' = [blob EXCEPT ![o] = "gone"],
               UNCHANGED <<single, asked, held>>
        PROVE  Maps
    <3>1. CASE blob[o] = "stored"
      <4>1. status[o] = "available" /\ status' = [status EXCEPT ![o] = "gone"]
        BY <2>3, <3>1 DEF TypeOK
      <4>2. Promised!Remove(o)
        BY <2>3, <4>1 DEF Promised!Remove
      <4> QED BY <4>2 DEF Promised!Next
    <3>2. CASE blob[o] = "gone"
      BY <2>2, <2>3, <3>2 DEF TypeOK
    <3> QED BY <2>3, <3>1, <3>2 DEF TypeOK
  <2>4. ASSUME NEW o \in Obj, NEW once \in BOOLEAN, NEW ttl \in Ttls,
               UploadToMemory(o, once, ttl) \/ UploadToAzure(o, once, ttl)
        PROVE  Maps
    <3>1. /\ blob[o] = "none" /\ blob' = [blob EXCEPT ![o] = "stored"]
          /\ meta[o].single = FALSE /\ meta'[o].single = once
          /\ \A x \in Obj : x # o => meta'[x] = meta[x]
          /\ UNCHANGED <<asked, held>>
      BY <2>4 DEF UploadToMemory, UploadToAzure, Stored, calls, TypeOK, Progress, ObjectState, NoMeta
    <3>2. status[o] = "none" /\ status' = [status EXCEPT ![o] = "available"]
      BY <3>1 DEF TypeOK
    <3>3. single' = IF once THEN single \cup {o} ELSE single
      BY <3>1
    <3>4. Promised!Store(o, once)
      BY <3>1, <3>2, <3>3 DEF Promised!Store
    <3> QED BY <3>4 DEF Promised!Next
  <2>5. ASSUME NEW o \in Obj, SetExpiry(o) PROVE Maps
    BY <2>2, <2>5 DEF SetExpiry, calls
  <2>6. ASSUME NEW o \in Obj, MemoryStat(o) \/ Erase(o) \/ Expires(o) PROVE Maps
    <3>1. blob[o] # "none" /\ blob' = [blob EXCEPT ![o] = "gone"] /\ UNCHANGED <<single, asked, held>>
      BY <2>6 DEF MemoryStat, Erase, Expires, calls, HasUrl, TypeOK
    <3> QED BY <2>3, <3>1
  <2>7. ASSUME NEW c \in Call, NEW o \in Obj, MemoryDownload(c, o) PROVE Maps
    <3>1. /\ object' = [object EXCEPT ![c] = o] /\ c \notin found
          /\ pc[c] = "idle" /\ pc' = [pc EXCEPT ![c] = IF Live(o) THEN "replying" ELSE "failed"]
          /\ found' = IF Live(o) THEN found \cup {c} ELSE found
          /\ UNCHANGED single
      BY <2>1, <2>7 DEF MemoryDownload, Admitted
    <3>2. held' = held
      BY <3>1 DEF TypeOK
    <3>3. \/ blob' = blob
          \/ blob[o] = "stored" /\ blob' = [blob EXCEPT ![o] = "gone"]
      BY <2>7 DEF MemoryDownload
    <3>4. CASE Live(o)
      <4>1. asked[c] = None /\ asked' = [asked EXCEPT ![c] = o]
        BY <2>1, <3>1, <3>4 DEF TypeOK
      <4>2. status[o] = "available"
        BY <3>4 DEF Live
      <4>3. \/ status' = status
            \/ status' = [status EXCEPT ![o] = "gone"]
        <5>1. CASE blob' = blob
          BY <5>1
        <5>2. CASE blob' = [blob EXCEPT ![o] = "gone"]
          BY <5>2 DEF TypeOK
        <5> QED BY <3>3, <5>1, <5>2
      <4>4. Promised!Ask(c, o)
        BY <3>1, <3>2, <4>1, <4>2, <4>3 DEF Promised!Ask
      <4> QED BY <4>4 DEF Promised!Next
    <3>5. CASE ~Live(o)
      <4>1. asked' = asked
        BY <2>1, <3>1, <3>5 DEF TypeOK
      <4> QED BY <2>2, <2>3, <3>1, <3>2, <3>3, <4>1
    <3> QED BY <3>4, <3>5
  <2>8. ASSUME NEW c \in Call, NEW o \in Obj, AzureDownload(c, o) PROVE Maps
    <3>1. /\ object' = [object EXCEPT ![c] = o] /\ c \notin found
          /\ pc' = [pc EXCEPT ![c] = "reading"] /\ pc[c] = "idle"
          /\ UNCHANGED <<status, single, found>>
      BY <2>1, <2>8 DEF AzureDownload, Admitted, Proceeds, store
    <3> QED BY <2>1, <2>2, <3>1 DEF TypeOK
  <2>9. ASSUME NEW c \in Call, NEW o \in Obj, DirectDownload(c, o) \/ (ReadBlob(c) /\ object[c] = o)
        PROVE  Maps
    <3>1. /\ object' = [object EXCEPT ![c] = o] /\ c \notin found /\ found' = found \cup {c}
          /\ pc[c] \in {"idle", "reading"} /\ pc'[c] \in {"checking", "replying"}
          /\ \A d \in Call : d # c => pc'[d] = pc[d]
          /\ blob[o] = "stored" /\ UNCHANGED <<status, single>>
      BY <2>1, <2>9 DEF DirectDownload, ReadBlob, Admitted, Proceeds, store, TypeOK, Progress, CallState
    <3>2. asked[c] = None /\ asked' = [asked EXCEPT ![c] = o]
      BY <2>1, <3>1 DEF TypeOK
    <3>3. held' = held
      BY <3>1
    <3>4. status[o] = "available"
      BY <3>1
    <3>5. Promised!Ask(c, o)
      BY <3>1, <3>2, <3>3, <3>4 DEF Promised!Ask
    <3> QED BY <3>5 DEF Promised!Next
  <2>10. ASSUME NEW c \in Call, ReadBlob(c) PROVE Maps
    <3>1. object[c] \in Obj
      BY <2>10 DEF ReadBlob, Proceeds, TypeOK
    <3> QED BY <2>9, <2>10, <3>1
  <2>11. ASSUME NEW c \in Call, ReadProperties(c) PROVE Maps
    BY <2>2, <2>11 DEF ReadProperties, Proceeds, store, TypeOK
  <2>12. ASSUME NEW c \in Call, DeleteBlob(c) PROVE Maps
    <3>1. /\ object[c] \in Obj /\ blob[object[c]] # "none"
          /\ blob' = [blob EXCEPT ![object[c]] = "gone"] /\ UNCHANGED <<single, asked, held>>
      BY <2>12 DEF DeleteBlob, Proceeds, HasUrl, TypeOK
    <3> QED BY <2>3, <3>1
  <2>13. ASSUME NEW c \in Call, Reply(c) PROVE Maps
    <3>1. /\ pc[c] = "replying" /\ c \in found /\ object[c] \in Obj
          /\ held' = held \cup {c} /\ UNCHANGED <<status, single, asked>>
      BY <2>1, <2>13 DEF Reply, Proceeds, store, TypeOK, Progress, CallState
    <3>2. asked[c] # None /\ (asked[c] \in single => status[asked[c]] = "gone")
      BY <3>1, ConstantsAssumption DEF Progress, CallState
    <3>3. Promised!Give(c)
      BY <3>1, <3>2 DEF Promised!Give
    <3> QED BY <3>3 DEF Promised!Next
  <2>14. ASSUME NEW c \in Call, NotFound(c) \/ Fail(c) PROVE Maps
    BY <2>2, <2>14 DEF NotFound, Fail, store, TypeOK
  <2>15. Tick \/ UNCHANGED vars => Maps
    BY <2>2 DEF Tick, vars, store, calls
  <2> HIDE DEF Maps
  <2> QED
    BY <2>4, <2>5, <2>6, <2>7, <2>8, <2>9, <2>10, <2>11, <2>12, <2>13, <2>14,
       <2>15, NextCases
<1> QED BY <1>1, <1>2, ProgressAlways, PTL DEF Spec, ImplementsExchange, Promised!Spec
=============================================================================
