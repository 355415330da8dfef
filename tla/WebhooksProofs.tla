---------------------------- MODULE WebhooksProofs ----------------------------
(***************************************************************************)
(* Webhooks for any events, attempts and drains: its types; that no event  *)
(* is lost silently; and that the dispatcher, over a network that loses    *)
(* and delays requests as it likes, is an Outbox.                          *)
(***************************************************************************)
EXTENDS Webhooks, TLAPS

\* What TypeOK and NothingLostSilently rest on: an attempt is under way or behind
\* an event as its phase tells, and a delivery is in flight until it is settled.
DeliveryInv ==
  \A e \in Events :
    /\ phase[e] \in {"idle", "filtered", "signing"} => attempt[e] = 0
    /\ phase[e] \in {"posting", "sleeping", "dropping"} \cup Settled => attempt[e] >= 1
    /\ phase[e] = "sleeping" => attempt[e] < MaxAttempts
    /\ phase[e] \in {"dropping", "exhausted"} => attempt[e] = MaxAttempts
    /\ phase[e] \in {"dropping", "exhausted"} /\ HasOnDrop => e \in dropped
    /\ phase[e] = "acknowledged" => accepted[e] # {}
    /\ wire[e] \cup accepted[e] \cup refused[e] \subseteq 1..attempt[e]
    /\ e \notin Subscribed => phase[e] \in {"idle", "filtered"}
    /\ e \in inFlight <=> phase[e] \in Running

IInv == TypeOK /\ DeliveryInv

LEMMA InitInv == Init => IInv
BY WebhookAssumption DEF Init, IInv, TypeOK, DeliveryInv, Running, Settled, Attempts

\* The delivery of one event goes on, and what it has sent and been answered stays.
LEMMA DeliveryMoves ==
  ASSUME IInv, NEW e \in Events, Emit(e) \/ Post(e) \/ FetchEnds(e) \/ OnDropSettles(e)
  PROVE  IInv'
<1> USE WebhookAssumption DEF Running, Settled, Attempts
<1>1. CASE Emit(e)
  BY <1>1 DEF Emit, network, IInv, TypeOK, DeliveryInv
<1>2. CASE Post(e)
  <2>1. attempt[e] \in 0..MaxAttempts - 1
    BY <1>2 DEF Post, IInv, TypeOK, DeliveryInv
  <2>2. attempt' = [attempt EXCEPT ![e] = attempt[e] + 1] /\ attempt'[e] = attempt[e] + 1
    BY <1>2 DEF Post, IInv, TypeOK
  <2>3. wire' = [wire EXCEPT ![e] = wire[e] \cup {attempt[e] + 1}]
    BY <1>2, <2>2 DEF Post
  <2>4. TypeOK'
    BY <1>2, <2>1, <2>2, <2>3 DEF Post, IInv, TypeOK
  <2>5. DeliveryInv'
    BY <1>2, <2>1, <2>2, <2>3 DEF Post, IInv, TypeOK, DeliveryInv
  <2> QED
    BY <2>4, <2>5 DEF IInv
<1>3. CASE Acknowledged(e)
  BY <1>3 DEF Acknowledged, network, IInv, TypeOK, DeliveryInv
<1>4. CASE Rejected(e) \/ FetchFails(e)
  <2>1. phase[e] = "posting" /\ UNCHANGED <<attempt, network, drain>>
    BY <1>4 DEF Rejected, FetchFails
  <2>2. CASE Retry(e)
    BY <2>1, <2>2 DEF Retry, network, IInv, TypeOK, DeliveryInv
  <2>3. CASE Exhaust(e)
    BY <2>1, <2>3 DEF Exhaust, network, IInv, TypeOK, DeliveryInv
  <2> QED
    BY <1>4, <2>2, <2>3 DEF Rejected, FetchFails
<1>5. CASE OnDropSettles(e)
  BY <1>5 DEF OnDropSettles, network, IInv, TypeOK, DeliveryInv
<1> QED
  BY <1>1, <1>2, <1>3, <1>4, <1>5 DEF FetchEnds

LEMMA NetworkMoves ==
  ASSUME IInv, NEW e \in Events, NEW a \in Attempts, Answers(e, a) \/ Lost(e, a)
  PROVE  IInv'
<1>1. a \in wire[e]
  BY DEF Answers, Lost
<1>2. CASE Answers(e, a)
  BY <1>1, <1>2 DEF Answers, sender, IInv, TypeOK, DeliveryInv
<1>3. CASE Lost(e, a)
  BY <1>1, <1>3 DEF Lost, sender, IInv, TypeOK, DeliveryInv
<1> QED
  BY <1>2, <1>3

LEMMA DrainMoves ==
  ASSUME IInv, NEW d \in Drainers, Drain(d) \/ Drained(d)
  PROVE  IInv'
BY DEF Drain, Drained, sender, network, IInv, TypeOK, DeliveryInv

LEMMA NextInv == IInv /\ [Next]_vars => IInv'
<1>1. ASSUME IInv, UNCHANGED vars PROVE IInv'
  BY <1>1 DEF vars, sender, network, IInv, TypeOK, DeliveryInv
<1> QED
  BY <1>1, DeliveryMoves, NetworkMoves, DrainMoves DEF Next

LEMMA AlwaysInv == Spec => []IInv
BY InitInv, NextInv, PTL DEF Spec

\* The variables of Webhooks keep their types.
THEOREM TypeCorrect == Spec => []TypeOK
BY AlwaysInv, PTL DEF IInv

\* An event leaves the dispatcher only acknowledged, or with its budget spent and
\* in the hands of onDrop; and nothing arrives that was not sent.
THEOREM EventsAreKept == Spec => []NothingLostSilently
<1>1. IInv => NothingLostSilently
  BY DEF IInv, DeliveryInv, NothingLostSilently
<1> QED
  BY AlwaysInv, <1>1, PTL

-----------------------------------------------------------------------------
(* The refinement.                                                         *)

\* The refinement mapping of Promise.
OOutcome == [e \in Events |->
               CASE phase[e] \in {"idle", "filtered"} -> "unsent"
                 [] phase[e] \in Running -> "pending"
                 [] phase[e] = "acknowledged" -> "delivered"
                 [] OTHER -> "givenUp"]

OArrived == {e \in Events : accepted[e] # {}}

OPending == {e \in Events : OOutcome[e] = "pending"}

\* The outcome of an event, phase by phase.
LEMMA Outcomes ==
  /\ \A e \in Events :
       /\ phase[e] \in {"idle", "filtered"} => OOutcome[e] = "unsent"
       /\ phase[e] \in Running => OOutcome[e] = "pending"
       /\ phase[e] = "acknowledged" => OOutcome[e] = "delivered"
       /\ phase[e] = "exhausted" => OOutcome[e] = "givenUp"
  /\ OOutcome = [e \in Events |-> OOutcome[e]]
BY DEF OOutcome, Running

\* What is in flight is what is pending.
LEMMA InFlightIsPending == IInv => inFlight = OPending
<1> SUFFICES ASSUME IInv PROVE inFlight = OPending
  OBVIOUS
<1>1. \A e \in Events : OOutcome[e] = "pending" <=> phase[e] \in Running
  BY DEF OOutcome, Running
<1> QED
  BY <1>1 DEF OPending, IInv, TypeOK, DeliveryInv

LEMMA InitOutbox == Init => Promise!OutboxInit
<1> SUFFICES ASSUME Init PROVE Promise!OutboxInit
  OBVIOUS
<1>1. OOutcome = [e \in Events |-> "unsent"]
  <2>1. \A e \in Events : OOutcome[e] = "unsent"
    BY Outcomes DEF Init
  <2> QED
    BY <2>1, Outcomes
<1>2. OArrived = {}
  BY DEF Init, OArrived
<1> QED
  BY <1>1, <1>2 DEF Init, Promise!OutboxInit, OOutcome, OArrived

\* The step of one event changes its own outcome only.
LEMMA OutcomeMoves ==
  ASSUME IInv, NEW e \in Events, NEW p, phase' = [phase EXCEPT ![e] = p], NEW o,
         \/ p \in {"idle", "filtered"} /\ o = "unsent"
         \/ p \in Running /\ o = "pending"
         \/ p = "acknowledged" /\ o = "delivered"
         \/ p = "exhausted" /\ o = "givenUp"
  PROVE  OOutcome' = [OOutcome EXCEPT ![e] = o]
<1>1. phase'[e] = p /\ \A f \in Events \ {e} : phase'[f] = phase[f]
  BY DEF IInv, TypeOK
<1>2. \A f \in Events \ {e} : OOutcome'[f] = OOutcome[f]
  BY <1>1 DEF OOutcome
<1>3. OOutcome'[e] = o
  BY <1>1 DEF OOutcome, Running
<1>4. OOutcome = [f \in Events |-> OOutcome[f]] /\ OOutcome' = [f \in Events |-> OOutcome'[f]]
  BY DEF OOutcome
<1> QED
  BY <1>2, <1>3, <1>4

LEMMA DeliveryImplements ==
  ASSUME IInv, NEW e \in Events, Emit(e) \/ Post(e) \/ FetchEnds(e) \/ OnDropSettles(e)
  PROVE  Promise!OutboxNext \/ UNCHANGED Promise!outboxVars
<1> DEFINE To(o) == OOutcome' = [OOutcome EXCEPT ![e] = o] /\ OArrived' = OArrived /\ drain' = drain
           Same == OOutcome' = OOutcome /\ OArrived' = OArrived /\ drain' = drain
<1> USE DEF Running
<1>1. accepted' = accepted /\ drain' = drain => OArrived' = OArrived
  BY DEF OArrived
<1>2. ASSUME Same PROVE UNCHANGED Promise!outboxVars
  BY <1>2 DEF Promise!outboxVars, OOutcome, OArrived
<1>3. ASSUME To("pending"), phase[e] = "idle" PROVE Promise!Send(e)
  BY <1>3 DEF Promise!Send, OOutcome, OArrived
<1>4. ASSUME To("delivered"), phase[e] = "posting", accepted[e] # {} PROVE Promise!Deliver(e)
  BY <1>4 DEF Promise!Deliver, Promise!Pending, OOutcome, OArrived
<1>5. ASSUME To("givenUp"), phase[e] \in Running PROVE Promise!GiveUp(e)
  BY <1>5 DEF Promise!GiveUp, Promise!Pending, OOutcome, OArrived
<1>6. OOutcome = [OOutcome EXCEPT ![e] = OOutcome[e]]
  BY DEF OOutcome
<1>7. CASE Emit(e)
  <2>1. CASE e \in Subscribed
    <3>1. To("pending")
      BY <1>1, <1>7, <2>1, OutcomeMoves DEF Emit, network
    <3> QED
      BY <1>3, <1>7, <3>1 DEF Emit, Promise!OutboxNext
  <2>2. CASE e \notin Subscribed
    <3>1. To("unsent") /\ OOutcome[e] = "unsent"
      BY <1>1, <1>7, <2>2, OutcomeMoves, Outcomes DEF Emit, network
    <3> QED
      BY <1>2, <1>6, <3>1
  <2> QED
    BY <2>1, <2>2
<1>8. CASE Post(e)
  <2>1. To("pending") /\ OOutcome[e] = "pending"
    BY <1>1, <1>8, OutcomeMoves, Outcomes DEF Post
  <2> QED
    BY <1>2, <1>6, <2>1
<1>9. CASE Acknowledged(e)
  <2>1. To("delivered") /\ phase[e] = "posting" /\ accepted[e] # {}
    BY <1>1, <1>9, OutcomeMoves DEF Acknowledged, network
  <2> QED
    BY <1>4, <2>1 DEF Promise!OutboxNext
<1>10. CASE Rejected(e) \/ FetchFails(e)
  <2>1. phase[e] = "posting" /\ UNCHANGED <<attempt, network, drain>> /\ OOutcome[e] = "pending"
    BY <1>10, Outcomes DEF Rejected, FetchFails
  <2>2. ASSUME NEW p \in {"sleeping", "dropping"}, phase' = [phase EXCEPT ![e] = p]
        PROVE  UNCHANGED Promise!outboxVars
    <3>1. To("pending")
      BY <1>1, <2>1, <2>2, OutcomeMoves DEF network
    <3> QED
      BY <1>2, <1>6, <2>1, <3>1
  <2>3. ASSUME phase' = [phase EXCEPT ![e] = "exhausted"] PROVE Promise!OutboxNext
    <3>1. To("givenUp")
      BY <1>1, <2>1, <2>3, OutcomeMoves DEF network
    <3> QED
      BY <1>5, <2>1, <3>1 DEF Promise!OutboxNext
  <2> QED
    BY <1>10, <2>2, <2>3 DEF Rejected, FetchFails, Retry, Exhaust
<1>11. CASE OnDropSettles(e)
  <2>1. To("givenUp") /\ phase[e] \in Running
    BY <1>1, <1>11, OutcomeMoves DEF OnDropSettles, network
  <2> QED
    BY <1>5, <2>1 DEF Promise!OutboxNext
<1> QED
  BY <1>7, <1>8, <1>9, <1>10, <1>11 DEF FetchEnds

LEMMA NetworkImplements ==
  ASSUME IInv, NEW e \in Events, NEW a \in Attempts, Answers(e, a) \/ Lost(e, a)
  PROVE  Promise!OutboxNext \/ UNCHANGED Promise!outboxVars
<1>1. OOutcome' = OOutcome /\ drain' = drain
  BY DEF Answers, Lost, sender, OOutcome
<1>2. CASE accepted' = accepted
  BY <1>1, <1>2 DEF Promise!outboxVars, OOutcome
<1>3. CASE accepted' = [accepted EXCEPT ![e] = @ \cup {a}]
  <2>1. OArrived' = OArrived \cup {e}
    BY <1>3 DEF OArrived, IInv, TypeOK
  <2>2. OOutcome[e] # "unsent"
    <3>1. a \in wire[e]
      BY DEF Answers, Lost
    <3>2. attempt[e] # 0
      BY <3>1 DEF IInv, TypeOK, DeliveryInv
    <3>3. phase[e] \notin {"idle", "filtered"}
      BY <3>2 DEF IInv, DeliveryInv
    <3> QED
      BY <3>3 DEF OOutcome, Running
  <2>3. Promise!Take(e)
    BY <1>1, <2>1, <2>2 DEF Promise!Take, OOutcome, OArrived
  <2> QED
    BY <2>3 DEF Promise!OutboxNext
<1> QED
  BY <1>2, <1>3 DEF Answers, Lost

LEMMA DrainImplements ==
  ASSUME IInv, NEW d \in Drainers, Drain(d) \/ Drained(d)
  PROVE  Promise!OutboxNext
<1>1. OOutcome' = OOutcome /\ OArrived' = OArrived
  BY DEF Drain, Drained, sender, network, OOutcome, OArrived
<1>2. inFlight = Promise!Pending
  BY InFlightIsPending DEF OPending, OOutcome, Promise!Pending
<1>3. CASE Drain(d)
  BY <1>1, <1>2, <1>3 DEF Drain, Promise!StartDrain, Promise!OutboxNext, OOutcome, OArrived
<1>4. CASE Drained(d)
  BY <1>1, <1>2, <1>4 DEF Drained, Promise!EndDrain, Promise!OutboxNext, OOutcome, OArrived
<1> QED
  BY <1>3, <1>4

LEMMA StepImplements == IInv /\ [Next]_vars => [Promise!OutboxNext]_(Promise!outboxVars)
<1>1. ASSUME UNCHANGED vars PROVE UNCHANGED Promise!outboxVars
  BY <1>1 DEF vars, sender, network, Promise!outboxVars
<1> QED
  BY <1>1, DeliveryImplements, NetworkImplements, DrainImplements DEF Next

\* The dispatcher implements Outbox: it says delivered only of what the receiver
\* has, and a drain ends only when all that was queued before it is settled.
THEOREM DispatcherIsOutbox == Spec => ImplementsOutbox
BY InitOutbox, StepImplements, AlwaysInv, PTL DEF Spec, ImplementsOutbox, Promise!OutboxSpec
=============================================================================
