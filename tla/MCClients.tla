----------------------------- MODULE MCClients -----------------------------
(* Instances of SessionClient, RelayMailbox and RelaySignaling for TLC: how
   browsers keep a connection to a session, and how they find a host through
   either half of the SignalRelay object, explored in one run.  They share no
   state, so that exploring one while the others rest loses nothing; the
   initial state chooses which. *)
EXTENDS SessionClient

CONSTANTS
  Devices, MaxPending, Ttl, Interval, MinPoll, GrantTtl, MaxFaults,  \* RelayMailbox
  Viewers, Impatient                                                 \* RelaySignaling

VARIABLES
  part,
  grant, pending, responses, pollAge, alarm, checked, todo, asked, forgotten, faults,
  vpc, vgot, arriving, down, connected, inbox, outbox, sgrant, running, hpc, batch,
  peers, sessions, handled, crowded, gaveUp, sfaults

mailbox   == <<grant, pending, responses, pollAge, alarm, checked, todo, asked, forgotten, faults>>
signaling == <<vpc, vgot, arriving, down, connected, inbox, outbox, sgrant, running, hpc, batch,
               peers, sessions, handled, crowded, gaveUp, sfaults>>
all == <<part, vars, mailbox, signaling>>

Mailbox == INSTANCE RelayMailbox WITH lost <- forgotten
ASSUME MailboxAssumption == Mailbox!ConstantsAssumption

Signaling == INSTANCE RelaySignaling WITH sockets <- connected, grant <- sgrant, faults <- sfaults
ASSUME SignalingAssumption == Signaling!ConstantsAssumption

Keeps(A)   == part = "session" /\ A /\ UNCHANGED <<part, mailbox, signaling>>
Mails(A)   == part = "mailbox" /\ A /\ UNCHANGED <<part, vars, signaling>>
Signals(A) == part = "signaling" /\ A /\ UNCHANGED <<part, vars, mailbox>>

ClientsInit ==
  /\ part \in {"session", "mailbox", "signaling"}
  /\ Init /\ Mailbox!Init /\ Signaling!Init
ClientsNext == Keeps(Next) \/ Mails(Mailbox!Next) \/ Signals(Signaling!Next)

\* The fairness of each part.
ClientsFairness ==
  /\ WF_vars(Keeps(RetryFires)) /\ WF_vars(Keeps(Beat))
  /\ \A s \in Sock : WF_vars(Keeps(ClosingEnds(s)))
  /\ WF_mailbox(Mails(Mailbox!Tick)) /\ WF_mailbox(Mails(Mailbox!Alarm))
  /\ \A d \in Devices : WF_mailbox(Mails(Mailbox!ConnectStores(d)))
  /\ SF_mailbox(Mails(Mailbox!Poll)) /\ WF_mailbox(Mails(Mailbox!Renew))
  /\ WF_signaling(Signals(Signaling!Renew)) /\ WF_signaling(Signals(Signaling!Poll))
  /\ WF_signaling(Signals(Signaling!Handle)) /\ WF_signaling(Signals(Signaling!Stop))
  /\ \A v \in Viewers : /\ WF_signaling(Signals(Signaling!Relay(v)))
                        /\ WF_signaling(Signals(Signaling!Offer(v)))
                        /\ WF_signaling(Signals(Signaling!TakeAnswer(v)))

ClientsSpec == ClientsInit /\ [][ClientsNext]_all /\ ClientsFairness

-----------------------------------------------------------------------------
(* The properties of RelayMailbox and RelaySignaling *)

\* A wish is pending, with the host, answered or lost to a fault until its time
\* to live is over, and what the tables hold has an alarm.
WishIsKnown == Mailbox!WishIsKnown

\* A request does not stay pending while the host polls, however often it
\* polls too early.
PolledRequestsLeave == Mailbox!PolledRequestsLeave

\* An offer is handled at most once, whatever is lost, and stop() leaves
\* nothing behind.
SignalingInv == Signaling!SignalingInv

\* A viewer alone in its room only takes the answer to its own offer.
LoneViewerGetsOwnAnswer == Signaling!LoneViewerGetsOwnAnswer

\* A viewer alone in its room is answered, when nothing is lost and it waits.
LoneViewerIsAnswered == Signaling!LoneViewerIsAnswered
=============================================================================
