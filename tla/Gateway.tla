------------------------------ MODULE Gateway -------------------------------
(***************************************************************************)
(* The lifecycle of PaidMcpServer (src/server.ts): a call's way through    *)
(* the shutdown gate, the rate limiter, the payment and the handler, and   *)
(* the graceful shutdown that runs beside it: close and runShutdown with   *)
(* the onShutdown hook, the drain of calls, the drain of webhooks and the  *)
(* disconnection.                                                          *)
(*                                                                         *)
(* The payment and the handler of every pricing model are one await each:  *)
(* AccessKeys looks inside them.  Time is the one fact the shutdown asks   *)
(* of it, whether its deadline is past.                                    *)
(***************************************************************************)
EXTENDS Integers, FiniteSets

CONSTANTS
  Calls,        \* tool calls, each made once
  FreeCalls,    \* those of them to tools without a price
  Revocations,  \* calls of revokeAccessKey that find a key, each made once
  Closers,      \* calls of close(), each made once
  HasHook,      \* is an onShutdown hook configured
  HasWebhooks   \* is a webhook dispatcher configured

ASSUME GatewayAssumption ==
  /\ IsFiniteSet(Calls)
  /\ FreeCalls \subseteq Calls
  /\ Calls \cap Revocations = {}
  /\ HasHook \in BOOLEAN
  /\ HasWebhooks \in BOOLEAN

VARIABLES
  pc,            \* [Calls -> where the call is]
  settled,       \* calls whose charge settled
  inFlight,      \* the in-flight counter
  pending,       \* webhook deliveries in progress, named by who emitted them
  revokers,      \* the revocations that have emitted their event
  shuttingDown,  \* the flag of the shutdown gate
  phase,         \* where runShutdown is
  late,          \* has the drain deadline passed
  waiting,       \* the deliveries drain() took its snapshot of
  hooks,         \* how many times the hook was fired
  closers,       \* [Closers -> what close() has answered]
  connected,     \* is the MCP transport connected
  stats,         \* rejectedShuttingDown and rateLimitedCalls
  admitted       \* history: calls counted in flight when shutdown began

callVars == <<pc, settled, inFlight, stats>>
closeVars == <<shuttingDown, phase, late, waiting, hooks, closers, connected,
               admitted>>
vars == <<callVars, closeVars, pending, revokers>>

-----------------------------------------------------------------------------

\* Past inFlight++ and not yet at the finally block.
Inside == {"paying", "working"}

Answers == {"answered", "paywall", "failed", "rateLimited", "rejected"}

\* "unanswered": the call ended when its transport was gone.
Ended == Answers \cup {"unanswered"}

Phases == {"off", "hook", "drain", "webhooks", "disconnect", "resolved", "rejected"}

CallsInside == {c \in Calls : pc[c] \in Inside}

TypeOK ==
  /\ pc \in [Calls -> {"idle", "limiter"} \cup Inside \cup Ended]
  /\ settled \subseteq Calls
  /\ inFlight \in Nat
  /\ pending \subseteq Calls \cup Revocations
  /\ revokers \subseteq Revocations
  /\ shuttingDown \in BOOLEAN
  /\ phase \in Phases
  /\ late \in BOOLEAN
  /\ waiting \subseteq Calls \cup Revocations
  /\ hooks \in Nat
  /\ closers \in [Closers -> {"idle", "waiting", "resolved", "rejected"}]
  /\ connected \in BOOLEAN
  /\ stats \in [{"rejectedShuttingDown", "rateLimitedCalls"} -> Nat]
  /\ admitted \subseteq Calls

Init ==
  /\ pc = [c \in Calls |-> "idle"]
  /\ settled = {}
  /\ inFlight = 0
  /\ pending = {}
  /\ revokers = {}
  /\ shuttingDown = FALSE
  /\ phase = "off"
  /\ late = FALSE
  /\ waiting = {}
  /\ hooks = 0
  /\ closers = [s \in Closers |-> "idle"]
  /\ connected = TRUE
  /\ stats = [n \in {"rejectedShuttingDown", "rateLimitedCalls"} |-> 0]
  /\ admitted = {}

-----------------------------------------------------------------------------
(* A call.                                                                 *)

\* How the call ends: its answer or error goes out if there is a transport.
Answer(c, a) == pc' = [pc EXCEPT ![c] = IF connected THEN a ELSE "unanswered"]

\* WebhookDispatcher.emit: the delivery starts, the emitter does not wait.
Emit(e) == pending' = IF HasWebhooks THEN pending \cup {e} ELSE pending

\* The request arrives: the shutdown gate, then the await of the limiter.
Arrive(c) ==
  /\ pc[c] = "idle"
  /\ connected
  /\ IF shuttingDown
       THEN /\ pc' = [pc EXCEPT ![c] = "rejected"]
            /\ stats' = [stats EXCEPT !["rejectedShuttingDown"] = @ + 1]
       ELSE /\ pc' = [pc EXCEPT ![c] = "limiter"]
            /\ UNCHANGED stats
  /\ UNCHANGED <<settled, inFlight, pending, revokers, closeVars>>

\* rateLimiter.consume denies the call.
LimiterDenies(c) ==
  /\ pc[c] = "limiter"
  /\ Answer(c, "rateLimited")
  /\ stats' = [stats EXCEPT !["rateLimitedCalls"] = @ + 1]
  /\ UNCHANGED <<settled, inFlight, pending, revokers, closeVars>>

\* The limiter's backend fails.
LimiterThrows(c) ==
  /\ pc[c] = "limiter"
  /\ Answer(c, "failed")
  /\ UNCHANGED <<settled, inFlight, stats, pending, revokers, closeVars>>

\* Variant: the increment is forgotten.
LimiterAllowsUncounted(c) ==
  /\ pc[c] = "limiter"
  /\ pc' = [pc EXCEPT ![c] = IF c \in FreeCalls THEN "working" ELSE "paying"]
  /\ UNCHANGED <<settled, inFlight, stats, pending, revokers, closeVars>>

\* The limiter allows the call: it is counted, and its payment or, for a free
\* tool, its handler starts.
LimiterAllows(c) ==
  /\ pc[c] = "limiter"
  /\ inFlight' = inFlight + 1
  /\ pc' = [pc EXCEPT ![c] = IF c \in FreeCalls THEN "working" ELSE "paying"]
  /\ UNCHANGED <<settled, stats, pending, revokers, closeVars>>

\* The charge, session or redemption answers 402: control flow, no event.
PaymentRequired(c) ==
  /\ pc[c] = "paying"
  /\ Answer(c, "paywall")
  /\ inFlight' = inFlight - 1
  /\ UNCHANGED <<settled, stats, pending, revokers, closeVars>>

PaymentThrows(c) ==
  /\ pc[c] = "paying"
  /\ Answer(c, "failed")
  /\ inFlight' = inFlight - 1
  /\ Emit(c)
  /\ UNCHANGED <<settled, stats, revokers, closeVars>>

PaymentSettles(c) ==
  /\ pc[c] = "paying"
  /\ settled' = settled \cup {c}
  /\ pc' = [pc EXCEPT ![c] = "working"]
  /\ UNCHANGED <<inFlight, stats, pending, revokers, closeVars>>

\* The handler returns: payment.received for a paid call, then the answer.
HandlerReturns(c) ==
  /\ pc[c] = "working"
  /\ Answer(c, "answered")
  /\ inFlight' = inFlight - 1
  /\ IF c \in FreeCalls THEN UNCHANGED pending ELSE Emit(c)
  /\ UNCHANGED <<settled, stats, revokers, closeVars>>

\* Variant: the decrement is not in a finally block.
HandlerThrowsUncounted(c) ==
  /\ pc[c] = "working"
  /\ Answer(c, "failed")
  /\ Emit(c)
  /\ UNCHANGED <<settled, inFlight, stats, revokers, closeVars>>

\* The handler throws: call.failed, then the error.
HandlerThrows(c) ==
  /\ pc[c] = "working"
  /\ Answer(c, "failed")
  /\ inFlight' = inFlight - 1
  /\ Emit(c)
  /\ UNCHANGED <<settled, stats, revokers, closeVars>>

\* revokeAccessKey deletes a key and emits access-key.expired.  It comes from
\* the dashboard or the operator's own code, not through the gate.
RevokeEmits(r) ==
  /\ r \in Revocations \ revokers
  /\ revokers' = revokers \cup {r}
  /\ Emit(r)
  /\ UNCHANGED <<callVars, closeVars>>

\* deliver has been acknowledged, or has used up its attempts.
DeliveryEnds(e) ==
  /\ e \in pending
  /\ pending' = pending \ {e}
  /\ UNCHANGED <<callVars, closeVars, revokers>>

-----------------------------------------------------------------------------
(* close() and runShutdown.                                                *)

\* Variant: close() does not remember its promise.
CloseAgain(s) ==
  /\ closers[s] = "idle"
  /\ closers' = [closers EXCEPT ![s] = "waiting"]
  /\ shuttingDown' = TRUE
  /\ phase' = IF HasHook THEN "hook" ELSE "drain"
  /\ hooks' = IF HasHook THEN hooks + 1 ELSE hooks
  /\ admitted' = CallsInside
  /\ UNCHANGED <<callVars, pending, revokers, late, waiting, connected>>

\* The first close() sets the flag, starts the clock and fires the hook; a
\* later one only joins the promise.
Close(s) ==
  /\ closers[s] = "idle"
  /\ closers' = [closers EXCEPT ![s] = "waiting"]
  /\ IF phase = "off"
       THEN /\ shuttingDown' = TRUE
            /\ phase' = IF HasHook THEN "hook" ELSE "drain"
            /\ hooks' = IF HasHook THEN hooks + 1 ELSE hooks
            /\ admitted' = CallsInside
       ELSE UNCHANGED <<shuttingDown, phase, hooks, admitted>>
  /\ UNCHANGED <<callVars, pending, revokers, late, waiting, connected>>

\* onShutdown resolves, or rejects and is logged.
HookSettles ==
  /\ phase = "hook"
  /\ phase' = "drain"
  /\ UNCHANGED <<callVars, pending, revokers, shuttingDown, late, waiting,
                 hooks, closers, connected, admitted>>

\* Date.now() reaches drainStart + timeoutMs.
DeadlinePasses ==
  /\ phase \notin {"off", "resolved", "rejected"}
  /\ ~late
  /\ late' = TRUE
  /\ UNCHANGED <<callVars, pending, revokers, shuttingDown, phase, waiting,
                 hooks, closers, connected, admitted>>

\* Variant: past the deadline the drain gives up waiting and goes on.
DrainCompletesLate ==
  /\ phase = "drain"
  /\ inFlight = 0 \/ late
  /\ IF pending # {} /\ ~late
       THEN phase' = "webhooks" /\ waiting' = pending
       ELSE phase' = "disconnect" /\ UNCHANGED waiting
  /\ UNCHANGED <<callVars, pending, revokers, shuttingDown, late, hooks,
                 closers, connected, admitted>>

\* A poll of the drain loop that leaves it with the calls drained: straight on
\* to the disconnection, or to the webhook drain if there is time for one.
DrainCompletes ==
  /\ phase = "drain"
  /\ inFlight = 0
  /\ IF pending # {} /\ ~late
       THEN phase' = "webhooks" /\ waiting' = pending
       ELSE phase' = "disconnect" /\ UNCHANGED waiting
  /\ UNCHANGED <<callVars, pending, revokers, shuttingDown, late, hooks,
                 closers, connected, admitted>>

\* Variant: the loop polls for as long as calls are in flight.
DrainTimesOutNever ==
  /\ phase = "drain"
  /\ inFlight < 0
  /\ late
  /\ phase' = "rejected"
  /\ UNCHANGED <<callVars, pending, revokers, shuttingDown, late, waiting,
                 hooks, closers, connected, admitted>>

\* A poll that leaves it with calls in flight and the deadline past.
DrainTimesOut ==
  /\ phase = "drain"
  /\ inFlight > 0
  /\ late
  /\ phase' = "rejected"
  /\ UNCHANGED <<callVars, pending, revokers, shuttingDown, late, waiting,
                 hooks, closers, connected, admitted>>

\* Variant: the deliveries are not awaited.
WebhooksDrainedAtOnce ==
  /\ phase = "webhooks"
  /\ phase' = "disconnect"
  /\ UNCHANGED <<callVars, pending, revokers, shuttingDown, late, waiting,
                 hooks, closers, connected, admitted>>

\* drain() has seen its snapshot settle, or the deadline has overtaken it.
WebhooksDrained ==
  /\ phase = "webhooks"
  /\ waiting \cap pending = {} \/ late
  /\ phase' = "disconnect"
  /\ UNCHANGED <<callVars, pending, revokers, shuttingDown, late, waiting,
                 hooks, closers, connected, admitted>>

\* mcp.close(); if it throws the transport may still be there.
Disconnect ==
  /\ phase = "disconnect"
  /\ phase' = "resolved"
  /\ connected' \in {connected, FALSE}
  /\ UNCHANGED <<callVars, pending, revokers, shuttingDown, late, waiting,
                 hooks, closers, admitted>>

\* The caller of close() hears of it.
CloseSettles(s) ==
  /\ closers[s] = "waiting"
  /\ phase \in {"resolved", "rejected"}
  /\ closers' = [closers EXCEPT ![s] = phase]
  /\ UNCHANGED <<callVars, pending, revokers, shuttingDown, phase, late,
                 waiting, hooks, connected, admitted>>

-----------------------------------------------------------------------------
Limiter(c) == LimiterDenies(c) \/ LimiterThrows(c) \/ LimiterAllows(c)

Execute(c) ==
  \/ PaymentRequired(c) \/ PaymentThrows(c) \/ PaymentSettles(c)
  \/ HandlerReturns(c) \/ HandlerThrows(c)

ShutdownStep ==
  \/ DeadlinePasses \/ DrainCompletes \/ DrainTimesOut \/ WebhooksDrained
  \/ Disconnect

\* Nothing is under way: the calls that came are over, or no more can come.
Rest ==
  /\ \A c \in Calls : pc[c] \in Ended \/ (pc[c] = "idle" /\ ~connected)
  /\ phase \in {"off", "resolved", "rejected"}
  /\ UNCHANGED vars

Next ==
  \/ \E c \in Calls : Arrive(c) \/ Limiter(c) \/ Execute(c)
  \/ \E r \in Revocations : RevokeEmits(r)
  \/ \E e \in Calls \cup Revocations : DeliveryEnds(e)
  \/ \E s \in Closers : Close(s) \/ CloseSettles(s)
  \/ HookSettles
  \/ ShutdownStep
  \/ Rest

Spec == Init /\ [][Next]_vars

\* Timers fire and promises resolve: the event loop takes every step of
\* runShutdown that is due.  Nothing is assumed of the calls, of the webhook
\* receiver or of the operator, all of which may hang.
ShutdownFairness == WF_vars(ShutdownStep) /\ \A s \in Closers : WF_vars(CloseSettles(s))

FairSpec == Spec /\ ShutdownFairness /\ WF_vars(HookSettles)

-----------------------------------------------------------------------------
(* Properties.                                                             *)

\* The counter the drain polls is the number of calls between their increment
\* and their finally block, whichever way they leave (return, error, 402).
InFlightExact == inFlight = Cardinality(CallsInside)

\* A call that was in flight when shutdown began gets its answer: no transport
\* is closed under it ("In-flight calls continue to completion", server.ts:1184).
AdmittedAreAnswered == \A c \in admitted : pc[c] # "unanswered"

\* The drain is left for the disconnection only with no call inside.
DrainWaits ==
  [][phase = "drain" /\ phase' \in {"webhooks", "disconnect"}
     => CallsInside = {}]_vars

\* A shutdown that beats its deadline leaves no event of an admitted call
\* undelivered ("events emitted late in the call stream get a fair chance to
\* land before the process exits", server.ts:1287).
CleanCloseDeliversAdmitted ==
  phase = "resolved" /\ ~late => admitted \cap pending = {}

\* However many signal handlers call close(), the hook is fired once and all
\* of them hear the same outcome.
CloseIsShared ==
  /\ hooks <= 1
  /\ \A s, t \in Closers :
       closers[s] \in {"resolved", "rejected"} /\ closers[t] \in {"resolved", "rejected"}
       => closers[s] = closers[t]

\* Every close() is answered, whatever the calls and the webhook receiver do:
\* the drain timeout bounds it.
CloseIsAnswered ==
  \A s \in Closers :
    closers[s] = "waiting" ~> closers[s] \in {"resolved", "rejected"}

\* Every call that was charged is answered before the transport goes ("the
\* counter accurately reflects every observable execution unit", server.ts:398).
PaidCallsAreAnswered == \A c \in settled : pc[c] # "unanswered"
=============================================================================
