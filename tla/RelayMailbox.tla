---------------------------- MODULE RelayMailbox ----------------------------
(***************************************************************************)
(* The HTTP mailbox of one relay room (SignalRelay in                      *)
(* server/p2p/relay/cloudflare/index.js): a device posts a wish to         *)
(* connect, the host polls for wishes and posts a URL, the device polls    *)
(* for the URL.  Entries have a time to live and are removed by a cleanup  *)
(* that runs in some of the handlers and in an alarm.                      *)
(*                                                                         *)
(* Times are ages, counted up to the first value that no test tells apart  *)
(* from later ones, so the clock needs no bound.                           *)
(***************************************************************************)
EXTENDS Integers, FiniteSets

CONSTANTS
  Devices,     \* device token hashes
  MaxPending,  \* MAX_PENDING_REQUESTS
  Ttl,         \* REQUEST_TTL_MS and RESPONSE_TTL_MS
  Interval,    \* CLEANUP_INTERVAL_MS
  MinPoll,     \* 0.8 * poll_interval_ms
  GrantTtl,    \* lifetime of a room grant
  MaxFaults    \* bound: lost HTTP answers and evictions

ConstantsAssumption ==
  /\ MaxPending \in Nat \ {0}
  /\ {Ttl, Interval, MinPoll, GrantTtl} \subseteq Nat \ {0}
  /\ MaxFaults \in Nat

Absent == -1

VARIABLES
  grant,     \* time the grant has left
  pending,   \* device -> age of its pending request, or Absent
  responses, \* device -> age of the response for it, or Absent
  pollAge,   \* age of the last poll that was served (_lastPendingPoll), or Absent
  alarm,     \* time until the alarm, or Absent
  checked,   \* devices whose /connect passed the limit and awaits its body
  todo,      \* wishes the host was given and has not answered
  \* History
  asked,     \* device -> age of its last wish that it has no URL for, or Absent
  lost,      \* devices whose wish, not over yet, was lost to a fault
  faults

mail == <<pending, responses, pollAge, alarm>>
past == <<asked, lost, faults>>
vars == <<grant, mail, checked, todo, past>>

Present(box) == {d \in Devices : box[d] # Absent}
Expired(box) == {d \in Devices : box[d] > Ttl}

\* Devices whose last wish is not over.
Wishing == {d \in Devices : asked[d] \in 0 .. Ttl}

Init ==
  /\ grant = GrantTtl
  /\ pending = [d \in Devices |-> Absent]
  /\ responses = [d \in Devices |-> Absent]
  /\ pollAge = Absent
  /\ alarm = Absent
  /\ checked = {}
  /\ todo = {}
  /\ asked = [d \in Devices |-> Absent]
  /\ lost = {}
  /\ faults = 0

Fault == faults < MaxFaults /\ faults' = faults + 1

\* _cleanup, for one of the two tables.
Cleaned(box) == [d \in Devices |-> IF d \in Expired(box) THEN Absent ELSE box[d]]

-----------------------------------------------------------------------------
(* POST connect: the limit is tested before the body is awaited *)

ConnectChecks(d) ==
  /\ grant > 0
  /\ d \notin checked
  /\ Cardinality(Present(pending)) < MaxPending
  /\ checked' = checked \cup {d}
  /\ UNCHANGED <<grant, mail, todo, asked, lost, faults>>

\* setAlarm replaces the alarm that was set.
ConnectStores(d) ==
  /\ d \in checked
  /\ checked' = checked \ {d}
  /\ pending' = [pending EXCEPT ![d] = 0]
  /\ alarm' = Interval
  /\ asked' = [asked EXCEPT ![d] = 0]
  /\ lost' = lost \ {d}
  /\ UNCHANGED <<grant, responses, pollAge, todo, faults>>

-----------------------------------------------------------------------------
(* GET pending and POST respond: the host *)

Throttled == pollAge \in 0 .. MinPoll - 1

\* Mutant: a throttled poll counts as a poll.
PollCounted ==
  /\ grant > 0
  /\ IF Throttled
     THEN UNCHANGED <<pending, responses, todo>>
     ELSE /\ responses' = Cleaned(responses)
          /\ todo' = todo \cup Present(Cleaned(pending))
          /\ pending' = [d \in Devices |-> Absent]
  /\ pollAge' = 0
  /\ UNCHANGED <<grant, alarm, checked, past>>

\* Mutant: a throttled poll consumes the requests.
PollConsuming ==
  /\ grant > 0
  /\ responses' = Cleaned(responses)
  /\ todo' = IF Throttled THEN todo ELSE todo \cup Present(Cleaned(pending))
  /\ pending' = [d \in Devices |-> Absent]
  /\ pollAge' = IF Throttled THEN pollAge ELSE 0
  /\ UNCHANGED <<grant, alarm, checked, past>>

\* A poll that comes too early changes nothing; another takes all requests.
Poll ==
  /\ grant > 0
  /\ ~Throttled
  /\ pollAge' = 0
  /\ responses' = Cleaned(responses)
  /\ todo' = todo \cup Present(Cleaned(pending))
  /\ pending' = [d \in Devices |-> Absent]
  /\ UNCHANGED <<grant, alarm, checked, past>>

\* pending of the host's client, whose answer does not arrive.
PollLost ==
  /\ grant > 0
  /\ ~Throttled
  /\ Fault
  /\ pollAge' = 0
  /\ responses' = Cleaned(responses)
  /\ lost' = lost \cup (Present(Cleaned(pending)) \cap Wishing)
  /\ pending' = [d \in Devices |-> Absent]
  /\ UNCHANGED <<grant, alarm, checked, todo, asked>>

\* The relay keeps the answer for the device and drops what it asked since.
HandleRespond(d) ==
  /\ grant > 0
  /\ pending' = [pending EXCEPT ![d] = Absent]
  /\ responses' = [responses EXCEPT ![d] = 0]
  /\ alarm' = Interval

\* The host answers each wish once; its call may fail.
Respond(d) ==
  /\ d \in todo
  /\ todo' = todo \ {d}
  /\ \/ HandleRespond(d) /\ UNCHANGED <<lost, faults>>
     \/ /\ \/ grant = 0 /\ UNCHANGED faults
           \/ Fault
        /\ lost' = lost \cup ({d} \cap Wishing)
        /\ UNCHANGED <<pending, responses, alarm>>
  /\ UNCHANGED <<grant, pollAge, checked, asked>>

\* A registration is granted for a time; the host makes it again.
HandleRegister == grant' = GrantTtl

Renew ==
  /\ HandleRegister
  /\ UNCHANGED <<mail, checked, todo, past>>

-----------------------------------------------------------------------------
(* GET response: the device *)

\* The URL is deleted when it is read, and may not arrive.
ReadResponse(d) ==
  /\ grant > 0
  /\ asked[d] # Absent
  /\ pending' = Cleaned(pending)
  /\ responses' = [Cleaned(responses) EXCEPT ![d] = Absent]
  /\ IF Cleaned(responses)[d] = Absent
     THEN UNCHANGED <<asked, lost, faults>>
     ELSE \/ asked' = [asked EXCEPT ![d] = Absent] /\ lost' = lost \ {d} /\ UNCHANGED faults
          \/ Fault /\ lost' = lost \cup ({d} \cap Wishing) /\ UNCHANGED asked
  /\ UNCHANGED <<grant, pollAge, alarm, checked, todo>>

-----------------------------------------------------------------------------
(* The object itself *)

\* alarm(): set again while anything is left.
Alarm ==
  /\ alarm = 0
  /\ pending' = Cleaned(pending)
  /\ responses' = Cleaned(responses)
  /\ alarm' = IF Present(pending') \cup Present(responses') # {} THEN Interval ELSE Absent
  /\ UNCHANGED <<grant, pollAge, checked, todo, past>>

\* Memory is lost while no call is running; grant and alarm are stored.
Evict ==
  /\ checked = {}
  /\ Fault
  /\ pending' = [d \in Devices |-> Absent]
  /\ responses' = [d \in Devices |-> Absent]
  /\ pollAge' = Absent
  /\ lost' = lost \cup ((Present(pending) \cup Present(responses)) \cap Wishing)
  /\ UNCHANGED <<grant, alarm, checked, todo, asked>>

Older(age, cap) == IF age = Absent THEN Absent ELSE IF age < cap THEN age + 1 ELSE cap

\* An alarm that is due runs first.
Tick ==
  /\ alarm # 0
  /\ grant' = IF grant = 0 THEN 0 ELSE grant - 1
  /\ pending' = [d \in Devices |-> Older(pending[d], Ttl + 1)]
  /\ responses' = [d \in Devices |-> Older(responses[d], Ttl + 1)]
  /\ asked' = [d \in Devices |-> Older(asked[d], Ttl + 1)]
  /\ pollAge' = Older(pollAge, MinPoll)
  /\ alarm' = IF alarm = Absent THEN Absent ELSE alarm - 1
  /\ lost' = lost \cap Wishing'
  /\ UNCHANGED <<checked, todo, faults>>

-----------------------------------------------------------------------------
Device(d) == ConnectChecks(d) \/ ReadResponse(d)

Next ==
  \/ \E d \in Devices : Device(d) \/ ConnectStores(d) \/ Respond(d)
  \/ Poll \/ PollLost \/ Renew
  \/ Alarm \/ Evict \/ Tick

Spec == Init /\ [][Next]_vars

\* Time passes, alarms fire and a call that began goes on; the host polls and
\* renews for ever, whatever the clock does between.
Fairness ==
  /\ WF_vars(Tick) /\ WF_vars(Alarm)
  /\ \A d \in Devices : WF_vars(ConnectStores(d))
  /\ SF_vars(Poll) /\ WF_vars(Renew)

FairSpec == Spec /\ Fairness

-----------------------------------------------------------------------------
(* Properties *)

\* Every variable has its type.
TypeOK ==
  /\ grant \in 0 .. GrantTtl
  /\ pending \in [Devices -> Absent .. Ttl + 1]
  /\ responses \in [Devices -> Absent .. Ttl + 1]
  /\ pollAge \in Absent .. MinPoll
  /\ alarm \in Absent .. Interval
  /\ checked \subseteq Devices
  /\ todo \subseteq Devices
  /\ asked \in [Devices -> Absent .. Ttl + 1]
  /\ lost \subseteq Devices
  /\ faults \in 0 .. MaxFaults

\* While a table holds anything, an alarm is set: nothing stays for ever for
\* want of a cleanup.
EntriesHaveAlarm ==
  Present(pending) \cup Present(responses) # {} => alarm # Absent

\* A wish does not vanish: until it is answered or older than its time to
\* live, it is pending, with the host, answered, or lost to a fault.  (A new
\* wish may be answered by the response to an older one.)  And what the tables
\* hold is cleaned up.
WishIsKnown ==
  /\ TypeOK /\ EntriesHaveAlarm
  /\ \A d \in Devices :
       asked[d] \in 0 .. Ttl => \/ d \in Present(pending) \cup Present(responses)
                                \/ d \in todo \cup lost

\* What keeps a wish known: the entry it is known by is no older than the wish,
\* so that no cleanup takes it before the wish is over.
WishHasYoungEntry ==
  \A d \in Devices :
    asked[d] \in 0 .. Ttl =>
      \/ pending[d] \in 0 .. asked[d]
      \/ responses[d] \in 0 .. asked[d]
      \/ d \in todo \cup lost

\* The inductive invariant behind WishIsKnown.
MailboxInv == TypeOK /\ EntriesHaveAlarm /\ WishHasYoungEntry

\* A request does not stay pending while the host polls, however often it
\* polls too early.
PolledRequestsLeave ==
  \A d \in Devices : (pending[d] # Absent ~> pending[d] = Absent)
=============================================================================
