------------------------------- MODULE Outbox -------------------------------
(***************************************************************************)
(* What the webhook dispatcher of src/webhooks.ts promises, with no wire,  *)
(* no retries and no timers in it: an event that is sent is pending until  *)
(* it is delivered or given up, it is delivered only if the receiver has   *)
(* it, and a drain ends when the events it found pending are settled.      *)
(***************************************************************************)
CONSTANTS
  Events,   \* events, each emitted once
  Drainers  \* calls of drain()

VARIABLES
  outcome,  \* [Events -> "unsent", "pending", "delivered" or "givenUp"]
  arrived,  \* events the receiver has taken
  drains    \* [Drainers -> the events it waits for, and where it is]

outboxVars == <<outcome, arrived, drains>>

Pending == {e \in Events : outcome[e] = "pending"}

OutboxInit ==
  /\ outcome = [e \in Events |-> "unsent"]
  /\ arrived = {}
  /\ drains = [d \in Drainers |-> [state |-> "idle", waitsFor |-> {}]]

Send(e) ==
  /\ outcome[e] = "unsent"
  /\ outcome' = [outcome EXCEPT ![e] = "pending"]
  /\ UNCHANGED <<arrived, drains>>

Take(e) ==
  /\ outcome[e] # "unsent"
  /\ arrived' = arrived \cup {e}
  /\ UNCHANGED <<outcome, drains>>

Deliver(e) ==
  /\ e \in Pending \cap arrived
  /\ outcome' = [outcome EXCEPT ![e] = "delivered"]
  /\ UNCHANGED <<arrived, drains>>

GiveUp(e) ==
  /\ e \in Pending
  /\ outcome' = [outcome EXCEPT ![e] = "givenUp"]
  /\ UNCHANGED <<arrived, drains>>

StartDrain(d) ==
  /\ drains[d].state = "idle"
  /\ drains' = [drains EXCEPT ![d] = [state |-> "draining", waitsFor |-> Pending]]
  /\ UNCHANGED <<outcome, arrived>>

EndDrain(d) ==
  /\ drains[d].state = "draining"
  /\ drains[d].waitsFor \cap Pending = {}
  /\ drains' = [drains EXCEPT ![d].state = "drained"]
  /\ UNCHANGED <<outcome, arrived>>

OutboxNext ==
  \/ \E e \in Events : Send(e) \/ Take(e) \/ Deliver(e) \/ GiveUp(e)
  \/ \E d \in Drainers : StartDrain(d) \/ EndDrain(d)

OutboxSpec == OutboxInit /\ [][OutboxNext]_outboxVars
=============================================================================
