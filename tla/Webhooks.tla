------------------------------ MODULE Webhooks ------------------------------
(***************************************************************************)
(* WebhookDispatcher of src/webhooks.ts: the deliveries of the events that *)
(* are emitted, each with its attempts, timeouts, backoffs and dead-letter *)
(* callback, and the drains that wait for them.                            *)
(*                                                                         *)
(* A request outlives the attempt that sent it: an attempt that timed out  *)
(* may reach the receiver later, after its retry or after the event was    *)
(* dropped.  Signatures, payloads and the length of a backoff are left     *)
(* out.                                                                    *)
(***************************************************************************)
EXTENDS Integers, FiniteSets

CONSTANTS
  Events,       \* events, each emitted once
  Subscribed,   \* those whose type the operator subscribed to
  Drainers,     \* calls of drain(), each made once
  MaxAttempts,  \* delivery attempts per event
  HasOnDrop     \* is an onDrop callback configured

\* The constructor takes Math.max(1, maxAttempts).
ASSUME WebhookAssumption ==
  /\ Subscribed \subseteq Events
  /\ MaxAttempts \in Nat \ {0}
  /\ HasOnDrop \in BOOLEAN

VARIABLES
  phase,     \* [Events -> where its delivery is]
  attempt,   \* [Events -> the attempt that runs or ran last]
  inFlight,  \* deliveries a drain will see
  dropped,   \* events handed to onDrop
  drain,     \* [Drainers -> where the drain is, and the deliveries it awaits]
  wire,      \* [Events -> attempts whose request is under way]
  accepted,  \* [Events -> attempts the receiver answered 2xx]
  refused    \* [Events -> attempts it answered otherwise]

sender == <<phase, attempt, inFlight, dropped>>
network == <<wire, accepted, refused>>
vars == <<sender, network, drain>>

-----------------------------------------------------------------------------

Attempts == 1..MaxAttempts

Running == {"signing", "posting", "sleeping", "dropping"}

Settled == {"acknowledged", "exhausted"}

TypeOK ==
  /\ phase \in [Events -> {"idle", "filtered"} \cup Running \cup Settled]
  /\ attempt \in [Events -> 0..MaxAttempts]
  /\ inFlight \subseteq Events
  /\ dropped \subseteq Events
  /\ drain \in [Drainers -> [state : {"idle", "draining", "drained"},
                             waitsFor : SUBSET Events]]
  /\ wire \in [Events -> SUBSET Attempts]
  /\ accepted \in [Events -> SUBSET Attempts]
  /\ refused \in [Events -> SUBSET Attempts]

Init ==
  /\ phase = [e \in Events |-> "idle"]
  /\ attempt = [e \in Events |-> 0]
  /\ inFlight = {}
  /\ dropped = {}
  /\ drain = [d \in Drainers |-> [state |-> "idle", waitsFor |-> {}]]
  /\ wire = [e \in Events |-> {}]
  /\ accepted = [e \in Events |-> {}]
  /\ refused = [e \in Events |-> {}]

-----------------------------------------------------------------------------
(* The delivery of event e.                                                *)

\* emit: queue the delivery, unless the type is not subscribed to.
Emit(e) ==
  /\ phase[e] = "idle"
  /\ IF e \in Subscribed
     THEN /\ phase' = [phase EXCEPT ![e] = "signing"]
          /\ inFlight' = inFlight \cup {e}
     ELSE /\ phase' = [phase EXCEPT ![e] = "filtered"]
          /\ UNCHANGED inFlight
  /\ UNCHANGED <<attempt, dropped, network, drain>>

\* The first attempt once the event is signed, the next one after its backoff.
Post(e) ==
  /\ phase[e] \in {"signing", "sleeping"}
  /\ phase' = [phase EXCEPT ![e] = "posting"]
  /\ attempt' = [attempt EXCEPT ![e] = @ + 1]
  /\ wire' = [wire EXCEPT ![e] = @ \cup {attempt'[e]}]
  /\ UNCHANGED <<inFlight, dropped, accepted, refused, drain>>

\* Variant: the last attempt is followed by a backoff too.
RetryOnceMore(e) ==
  /\ attempt[e] <= MaxAttempts
  /\ phase' = [phase EXCEPT ![e] = "sleeping"]
  /\ UNCHANGED <<inFlight, dropped>>

\* Variant: a delivery leaves the set of those in flight when it backs off.
RetryUntracked(e) ==
  /\ attempt[e] < MaxAttempts
  /\ phase' = [phase EXCEPT ![e] = "sleeping"]
  /\ inFlight' = inFlight \ {e}
  /\ UNCHANGED dropped

\* Another attempt is left: back off.
Retry(e) ==
  /\ attempt[e] < MaxAttempts
  /\ phase' = [phase EXCEPT ![e] = "sleeping"]
  /\ UNCHANGED <<inFlight, dropped>>

\* Variant: a dropped event never reaches the dead-letter callback.
ExhaustSilently(e) ==
  /\ attempt[e] = MaxAttempts
  /\ phase' = [phase EXCEPT ![e] = "exhausted"]
  /\ inFlight' = inFlight \ {e}
  /\ UNCHANGED dropped

\* None is left: the dead-letter callback runs, if there is one.
Exhaust(e) ==
  /\ attempt[e] = MaxAttempts
  /\ IF HasOnDrop
     THEN /\ phase' = [phase EXCEPT ![e] = "dropping"]
          /\ dropped' = dropped \cup {e}
          /\ UNCHANGED inFlight
     ELSE /\ phase' = [phase EXCEPT ![e] = "exhausted"]
          /\ inFlight' = inFlight \ {e}
          /\ UNCHANGED dropped

\* The answer is 2xx.
Acknowledged(e) ==
  /\ phase[e] = "posting"
  /\ attempt[e] \in accepted[e]
  /\ phase' = [phase EXCEPT ![e] = "acknowledged"]
  /\ inFlight' = inFlight \ {e}
  /\ UNCHANGED <<attempt, dropped, network, drain>>

\* The answer is something else.
Rejected(e) ==
  /\ phase[e] = "posting"
  /\ attempt[e] \in refused[e]
  /\ Retry(e) \/ Exhaust(e)
  /\ UNCHANGED <<attempt, network, drain>>

\* Variant: without a timeout a lost request is never given up.
FetchHangs(e) ==
  /\ phase[e] = "posting"
  /\ attempt[e] \in wire[e]
  /\ Retry(e) \/ Exhaust(e)
  /\ UNCHANGED <<attempt, network, drain>>

\* The request fails or its timeout aborts it, whatever became of it.
FetchFails(e) ==
  /\ phase[e] = "posting"
  /\ Retry(e) \/ Exhaust(e)
  /\ UNCHANGED <<attempt, network, drain>>

\* onDrop returns or throws.
OnDropSettles(e) ==
  /\ phase[e] = "dropping"
  /\ phase' = [phase EXCEPT ![e] = "exhausted"]
  /\ inFlight' = inFlight \ {e}
  /\ UNCHANGED <<attempt, dropped, network, drain>>

-----------------------------------------------------------------------------
(* The network and the receiver, with the request of attempt a.            *)

Answers(e, a) ==
  /\ a \in wire[e]
  /\ wire' = [wire EXCEPT ![e] = @ \ {a}]
  /\ \/ accepted' = [accepted EXCEPT ![e] = @ \cup {a}] /\ UNCHANGED refused
     \/ refused' = [refused EXCEPT ![e] = @ \cup {a}] /\ UNCHANGED accepted
  /\ UNCHANGED <<sender, drain>>

Lost(e, a) ==
  /\ a \in wire[e]
  /\ wire' = [wire EXCEPT ![e] = @ \ {a}]
  /\ UNCHANGED <<accepted, refused, sender, drain>>

-----------------------------------------------------------------------------
(* drain(), which waits for the deliveries in flight when it is called.    *)

Drain(d) ==
  /\ drain[d].state = "idle"
  /\ drain' = [drain EXCEPT ![d] = [state |-> "draining", waitsFor |-> inFlight]]
  /\ UNCHANGED <<sender, network>>

Drained(d) ==
  /\ drain[d].state = "draining"
  /\ drain[d].waitsFor \cap inFlight = {}
  /\ drain' = [drain EXCEPT ![d].state = "drained"]
  /\ UNCHANGED <<sender, network>>

-----------------------------------------------------------------------------

FetchEnds(e) == Acknowledged(e) \/ Rejected(e) \/ FetchFails(e)

Next ==
  \/ \E e \in Events :
       \/ Emit(e) \/ Post(e) \/ FetchEnds(e) \/ OnDropSettles(e)
       \/ \E a \in Attempts : Answers(e, a) \/ Lost(e, a)
  \/ \E d \in Drainers : Drain(d) \/ Drained(d)

Spec == Init /\ [][Next]_vars

\* Timers fire: a fetch ends by its timeout and a backoff is over.  onDrop is
\* the operator's, and is taken to settle.
Fairness ==
  /\ \A e \in Events : WF_vars(Post(e)) /\ WF_vars(FetchEnds(e))
                       /\ WF_vars(OnDropSettles(e))
  /\ \A d \in Drainers : WF_vars(Drained(d))

FairSpec == Spec /\ Fairness

-----------------------------------------------------------------------------
(* Properties.                                                             *)

\* An event leaves the dispatcher only once the receiver has acknowledged it, or
\* its whole retry budget is spent and the dead-letter callback has it
\* ("acknowledged or exhausted its retry budget", webhooks.ts:313); and until then
\* the receiver sees no request that was not sent.
NothingLostSilently ==
  \A e \in Events :
    /\ phase[e] = "acknowledged" => accepted[e] # {}
    /\ phase[e] = "exhausted" => /\ attempt[e] = MaxAttempts
                                 /\ HasOnDrop => e \in dropped
    /\ wire[e] \cup accepted[e] \cup refused[e] \subseteq 1..attempt[e]
    /\ e \notin Subscribed => attempt[e] = 0

\* The dispatcher is an outbox: it says delivered only of what the receiver has,
\* and a drain ends only when every event emitted before it is settled, those that
\* were between two attempts included ("Resolves once every queued event",
\* webhooks.ts:312).
Promise == INSTANCE Outbox WITH
  outcome <- [e \in Events |->
                CASE phase[e] \in {"idle", "filtered"} -> "unsent"
                  [] phase[e] \in Running -> "pending"
                  [] phase[e] = "acknowledged" -> "delivered"
                  [] OTHER -> "givenUp"],
  arrived <- {e \in Events : accepted[e] # {}},
  drains <- drain

ImplementsOutbox == Promise!OutboxSpec

\* Every event that is queued is settled in the end, however the receiver
\* behaves, and every drain is answered.
EveryDeliverySettles ==
  /\ \A e \in Events : phase[e] = "signing" ~> phase[e] \in Settled
  /\ \A d \in Drainers : drain[d].state = "draining" ~> drain[d].state = "drained"
=============================================================================
