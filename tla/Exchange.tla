------------------------------ MODULE Exchange ------------------------------
(***************************************************************************)
(* What a courier promises about the objects it is given, whatever stores  *)
(* them: an object is available until it is gone and does not come back; a *)
(* call gets an object only if it asked while the object was available;    *)
(* and a single-use object is gone before anyone holds it, so that nobody  *)
(* who asks after a successful download gets it again.                     *)
(***************************************************************************)
CONSTANTS
  Obj,   \* object ids
  Call,  \* download calls
  None

VARIABLES
  status,  \* object -> "none", "available" or "gone"
  single,  \* the objects that are single-use
  asked,   \* call -> the object it asked for while that was available, or None
  held     \* the calls whose answer arrived

vars == <<status, single, asked, held>>

Init ==
  /\ status = [o \in Obj |-> "none"]
  /\ single = {}
  /\ asked = [c \in Call |-> None]
  /\ held = {}

Store(o, once) ==
  /\ status[o] = "none"
  /\ status' = [status EXCEPT ![o] = "available"]
  /\ single' = IF once THEN single \cup {o} ELSE single
  /\ UNCHANGED <<asked, held>>

\* The object may be taken out of the store in the same step.
Ask(c, o) ==
  /\ status[o] = "available"
  /\ asked[c] = None
  /\ asked' = [asked EXCEPT ![c] = o]
  /\ status' \in {status, [status EXCEPT ![o] = "gone"]}
  /\ UNCHANGED <<single, held>>

Give(c) ==
  /\ asked[c] # None
  /\ asked[c] \in single => status[asked[c]] = "gone"
  /\ held' = held \cup {c}
  /\ UNCHANGED <<status, single, asked>>

\* Taken by a download, erased, or expired.
Remove(o) ==
  /\ status[o] = "available"
  /\ status' = [status EXCEPT ![o] = "gone"]
  /\ UNCHANGED <<single, asked, held>>

Next ==
  \/ \E o \in Obj : Remove(o) \/ \E once \in BOOLEAN : Store(o, once)
  \/ \E c \in Call : Give(c) \/ \E o \in Obj : Ask(c, o)

Spec == Init /\ [][Next]_vars

-----------------------------------------------------------------------------
\* A single-use object that somebody holds is gone.
HeldOnceIsGone == \A c \in held : asked[c] \in single => status[asked[c]] = "gone"
=============================================================================
