---------------------------- MODULE GatewayProofs ----------------------------
(***************************************************************************)
(* Gateway for any number of calls, revocations and callers of close():    *)
(* the in-flight counter is exact, the drain is left only when no call is  *)
(* inside, no admitted call goes unanswered, and close() is shared.        *)
(***************************************************************************)
EXTENDS Gateway, FiniteSetTheorems, TLAPS

CallStep == \E c \in Calls : Arrive(c) \/ Limiter(c) \/ Execute(c)

EventStep ==
  \/ \E r \in Revocations : RevokeEmits(r)
  \/ \E e \in Calls \cup Revocations : DeliveryEnds(e)

CloseStep ==
  \/ \E s \in Closers : Close(s) \/ CloseSettles(s)
  \/ HookSettles
  \/ ShutdownStep

\* A step is one of a call, of an event or of the shutdown, or changes nothing.
LEMMA Steps ==
  ASSUME [Next]_vars
  PROVE  CallStep \/ EventStep \/ CloseStep \/ UNCHANGED vars
BY DEF Next, CallStep, EventStep, CloseStep, Rest

-----------------------------------------------------------------------------
(* Types.                                                                  *)

\* Every reachable state of the lifecycle is of the declared types; the
\* counter of calls in flight among them is kept apart, for it is a natural
\* number only because it is exact.
TypesButCounter ==
  /\ pc \in [Calls -> {"idle", "limiter"} \cup Inside \cup Ended]
  /\ settled \subseteq Calls
  /\ pending \subseteq Calls \cup Revocations
  /\ revokers \subseteq Revocations
  /\ shuttingDown \in BOOLEAN
  /\ phase \in Phases
  /\ late \in BOOLEAN
  /\ waiting \subseteq Calls \cup Revocations
  /\ hooks \in Nat
  /\ closers \in [Closers -> {"idle", "waiting", "resolved", "rejected"}]
  /\ connected \in BOOLEAN
  /\ stats \in [{"rejectedShuttingDown", "rateLimitedCalls"} -> Nat]
  /\ admitted \subseteq Calls

LEMMA InitTypes == Init => TypesButCounter
<1> SUFFICES ASSUME Init PROVE TypesButCounter
  OBVIOUS
<1>1. shuttingDown \in BOOLEAN /\ late \in BOOLEAN /\ connected \in BOOLEAN
  BY Zenon DEF Init
<1>2. QED
  BY <1>1 DEF Init, TypesButCounter, Phases

LEMMA NextTypes == TypesButCounter /\ [Next]_vars => TypesButCounter'
<1> SUFFICES ASSUME TypesButCounter, [Next]_vars PROVE TypesButCounter'
  OBVIOUS
<1>1. CASE CallStep
  <2> SUFFICES ASSUME NEW c \in Calls, Arrive(c) \/ Limiter(c) \/ Execute(c)
               PROVE  TypesButCounter'
    BY <1>1 DEF CallStep
  <2> USE DEF TypesButCounter, Inside, Ended, Answers, Answer, Emit, closeVars
  <2>1. CASE Arrive(c)
    BY <2>1 DEF Arrive
  <2>2. CASE Limiter(c)
    BY <2>2 DEF Limiter, LimiterDenies, LimiterThrows, LimiterAllows
  <2>3. CASE Execute(c)
    <3>1. CASE PaymentRequired(c) \/ PaymentThrows(c) \/ PaymentSettles(c)
      BY <3>1 DEF PaymentRequired, PaymentThrows, PaymentSettles
    <3>2. CASE HandlerReturns(c) \/ HandlerThrows(c)
      BY <3>2 DEF HandlerReturns, HandlerThrows
    <3>3. QED
      BY <2>3, <3>1, <3>2 DEF Execute
  <2>4. QED
    BY <2>1, <2>2, <2>3
<1>2. CASE EventStep
  BY <1>2 DEF EventStep, TypesButCounter, RevokeEmits, DeliveryEnds, Emit,
              callVars, closeVars
<1>3. CASE CloseStep
  <2> USE DEF TypesButCounter, Phases, CallsInside, callVars
  <2>1. ASSUME NEW s \in Closers, Close(s) \/ CloseSettles(s)
        PROVE  TypesButCounter'
    <3>1. shuttingDown' \in BOOLEAN
      BY <2>1, Zenon DEF Close, CloseSettles
    <3>2. CASE Close(s)
      BY <3>1, <3>2 DEF Close
    <3>3. CASE CloseSettles(s)
      BY <3>1, <3>3 DEF CloseSettles
    <3>4. QED
      BY <2>1, <3>2, <3>3
  <2>2. CASE HookSettles \/ ShutdownStep
    BY <2>2 DEF HookSettles, ShutdownStep, DeadlinePasses, DrainCompletes,
                DrainTimesOut, WebhooksDrained, Disconnect
  <2>3. QED
    BY <1>3, <2>1, <2>2 DEF CloseStep
<1>4. CASE UNCHANGED vars
  BY <1>4 DEF TypesButCounter, vars, callVars, closeVars
<1>5. QED
  BY <1>1, <1>2, <1>3, <1>4, Steps

-----------------------------------------------------------------------------
(* The in-flight counter.                                                  *)

\* A call that moves to l enters CallsInside or leaves it.
LEMMA MoveInside ==
  ASSUME TypesButCounter, NEW c \in Calls, NEW l,
         pc' = [pc EXCEPT ![c] = l]
  PROVE  CallsInside' = IF l \in Inside THEN CallsInside \cup {c}
                                        ELSE CallsInside \ {c}
BY DEF TypesButCounter, CallsInside

LEMMA InsideFinite ==
  /\ IsFiniteSet(CallsInside)
  /\ Cardinality(CallsInside) \in Nat
<1>1. CallsInside \in SUBSET Calls
  BY DEF CallsInside
<1>2. QED
  BY <1>1, FS_Subset, FS_CardinalityType, GatewayAssumption

LEMMA NextCounter ==
  TypesButCounter /\ InFlightExact /\ [Next]_vars => InFlightExact'
<1> SUFFICES ASSUME TypesButCounter, InFlightExact, [Next]_vars
             PROVE  InFlightExact'
  OBVIOUS
<1> USE InsideFinite
<1>1. CASE CallStep
  <2> SUFFICES ASSUME NEW c \in Calls, Arrive(c) \/ Limiter(c) \/ Execute(c)
               PROVE  InFlightExact'
    BY <1>1 DEF CallStep
  <2>1. ASSUME NEW l, l \notin Inside, c \notin CallsInside,
               pc' = [pc EXCEPT ![c] = l], inFlight' = inFlight
        PROVE  InFlightExact'
    <3>1. CallsInside' = CallsInside
      BY <2>1, MoveInside
    <3>2. QED
      BY <3>1, <2>1 DEF InFlightExact
  <2>2. ASSUME NEW l, l \notin Inside, c \in CallsInside,
               pc' = [pc EXCEPT ![c] = l], inFlight' = inFlight - 1
        PROVE  InFlightExact'
    <3>1. CallsInside' = CallsInside \ {c}
      BY <2>2, MoveInside
    <3>2. Cardinality(CallsInside \ {c}) = Cardinality(CallsInside) - 1
      BY <2>2, FS_RemoveElement
    <3>3. QED
      BY <3>1, <3>2, <2>2 DEF InFlightExact
  <2>3. ASSUME NEW l, l \in Inside, c \notin CallsInside,
               pc' = [pc EXCEPT ![c] = l], inFlight' = inFlight + 1
        PROVE  InFlightExact'
    <3>1. CallsInside' = CallsInside \cup {c}
      BY <2>3, MoveInside
    <3>2. Cardinality(CallsInside \cup {c}) = Cardinality(CallsInside) + 1
      BY <2>3, FS_AddElement
    <3>3. QED
      BY <3>1, <3>2, <2>3 DEF InFlightExact
  <2>4. CASE Arrive(c)
    <3>1. c \notin CallsInside /\ inFlight' = inFlight
      BY <2>4 DEF Arrive, CallsInside, Inside
    <3>2. \/ pc' = [pc EXCEPT ![c] = "rejected"]
          \/ pc' = [pc EXCEPT ![c] = "limiter"]
      BY <2>4 DEF Arrive
    <3>3. QED
      BY <3>1, <3>2, <2>1 DEF Inside
  <2>5. CASE LimiterDenies(c) \/ LimiterThrows(c)
    <3>1. c \notin CallsInside /\ inFlight' = inFlight
      BY <2>5 DEF LimiterDenies, LimiterThrows, CallsInside, Inside
    <3>2. \E l \in Ended : pc' = [pc EXCEPT ![c] = l]
      BY <2>5 DEF LimiterDenies, LimiterThrows, Answer, Ended, Answers
    <3>3. QED
      BY <3>1, <3>2, <2>1 DEF Inside, Ended, Answers
  <2>6. CASE LimiterAllows(c)
    <3>1. c \notin CallsInside /\ inFlight' = inFlight + 1
      BY <2>6 DEF LimiterAllows, CallsInside, Inside
    <3>2. \E l \in Inside : pc' = [pc EXCEPT ![c] = l]
      BY <2>6 DEF LimiterAllows, Inside
    <3>3. QED
      BY <3>1, <3>2, <2>3
  <2>7. CASE PaymentSettles(c)
    <3>1. c \in CallsInside /\ inFlight' = inFlight
      BY <2>7 DEF PaymentSettles, CallsInside, Inside
    <3>2. CallsInside' = CallsInside \cup {c}
      BY <2>7, MoveInside DEF PaymentSettles, Inside
    <3>3. CallsInside' = CallsInside
      BY <3>1, <3>2
    <3>4. QED
      BY <3>1, <3>3 DEF InFlightExact
  <2>8. CASE \/ PaymentRequired(c) \/ PaymentThrows(c)
             \/ HandlerReturns(c) \/ HandlerThrows(c)
    <3>1. c \in CallsInside /\ inFlight' = inFlight - 1
      BY <2>8 DEF PaymentRequired, PaymentThrows, HandlerReturns, HandlerThrows,
                  CallsInside, Inside
    <3>2. \E l \in Ended : pc' = [pc EXCEPT ![c] = l]
      BY <2>8 DEF PaymentRequired, PaymentThrows, HandlerReturns, HandlerThrows,
                  Answer, Ended, Answers
    <3>3. QED
      BY <3>1, <3>2, <2>2 DEF Inside, Ended, Answers
  <2>9. QED
    BY <2>4, <2>5, <2>6, <2>7, <2>8 DEF Limiter, Execute
<1>2. CASE EventStep \/ CloseStep \/ UNCHANGED vars
  <2>1. UNCHANGED <<pc, inFlight>>
    BY <1>2 DEF EventStep, RevokeEmits, DeliveryEnds, CloseStep, Close,
         CloseSettles, HookSettles, ShutdownStep, DeadlinePasses, DrainCompletes,
         DrainTimesOut, WebhooksDrained, Disconnect, vars, callVars
  <2>2. QED
    BY <2>1 DEF InFlightExact, CallsInside
<1>3. QED
  BY <1>1, <1>2, Steps

LEMMA InitCounter == Init => InFlightExact
<1> SUFFICES ASSUME Init PROVE InFlightExact
  OBVIOUS
<1>1. CallsInside = {}
  BY DEF Init, CallsInside, Inside
<1>2. QED
  BY <1>1, FS_EmptySet DEF Init, InFlightExact

\* The types of Gateway hold in every reachable state (the counter is a
\* natural number because it counts a finite set).
THEOREM TypeCorrect == Spec => []TypeOK
<1>1. Init => TypesButCounter /\ InFlightExact
  BY InitTypes, InitCounter
<1>2. TypesButCounter /\ InFlightExact /\ [Next]_vars
      => TypesButCounter' /\ InFlightExact'
  BY NextTypes, NextCounter
<1>3. TypesButCounter /\ InFlightExact => TypeOK
  BY InsideFinite DEF TypesButCounter, InFlightExact, TypeOK
<1>4. QED
  BY <1>1, <1>2, <1>3, PTL DEF Spec

\* The in-flight counter is the number of calls between their increment and
\* their finally block, whatever way they take out.
THEOREM CounterExact == Spec => [](InFlightExact /\ TypesButCounter)
<1>1. Init => TypesButCounter /\ InFlightExact
  BY InitTypes, InitCounter
<1>2. TypesButCounter /\ InFlightExact /\ [Next]_vars
      => TypesButCounter' /\ InFlightExact'
  BY NextTypes, NextCounter
<1>3. QED
  BY <1>1, <1>2, PTL DEF Spec

-----------------------------------------------------------------------------
(* The shutdown.                                                           *)

CounterInv == TypesButCounter /\ InFlightExact

\* Past the drain no admitted call is inside; before the disconnection there
\* is a transport to answer on.
AnswersInv ==
  /\ ~connected => phase = "resolved"
  /\ phase \in {"webhooks", "disconnect", "resolved"} => admitted \cap CallsInside = {}
  /\ \A c \in admitted : pc[c] \in Inside \cup Answers

\* The events of admitted calls are in drain()'s snapshot or delivered.
EventsInv ==
  /\ phase = "webhooks" => admitted \cap pending \subseteq waiting
  /\ phase \in {"disconnect", "resolved"} /\ ~late => admitted \cap pending = {}

\* A caller of close() that has been answered was told what runShutdown ended in.
SharedInv ==
  /\ hooks \in {0, 1}
  /\ phase = "off" => hooks = 0
  /\ \A s \in Closers :
       closers[s] \in {"resolved", "rejected"} => closers[s] = phase

LEMMA Drained == ASSUME CounterInv, inFlight = 0 PROVE CallsInside = {}
BY InsideFinite, FS_EmptySet DEF CounterInv, InFlightExact

LEMMA NextAnswers == CounterInv /\ AnswersInv /\ [Next]_vars => AnswersInv'
<1> SUFFICES ASSUME CounterInv, AnswersInv, [Next]_vars PROVE AnswersInv'
  OBVIOUS
<1> USE DEF CounterInv
<1>1. CASE CallStep
  <2> SUFFICES ASSUME NEW c \in Calls, Arrive(c) \/ Limiter(c) \/ Execute(c)
               PROVE  AnswersInv'
    BY <1>1 DEF CallStep
  <2>1. UNCHANGED <<connected, phase, admitted>>
    BY DEF Arrive, Limiter, LimiterDenies, LimiterThrows, LimiterAllows, Execute,
           PaymentRequired, PaymentThrows, PaymentSettles, HandlerReturns,
           HandlerThrows, closeVars
  <2>2. CASE c \notin CallsInside
    <3>1. c \notin admitted
      BY <2>2 DEF AnswersInv, CallsInside, Arrive, Limiter, LimiterDenies,
         LimiterThrows, LimiterAllows, Execute, PaymentRequired, PaymentThrows,
         PaymentSettles, HandlerReturns, HandlerThrows, Inside, Answers
    <3>2. \A d \in Calls : d # c => pc'[d] = pc[d]
      BY DEF Arrive, Limiter, LimiterDenies, LimiterThrows, LimiterAllows, Execute,
             PaymentRequired, PaymentThrows, PaymentSettles, HandlerReturns,
             HandlerThrows, Answer, TypesButCounter
    <3>3. QED
      BY <2>1, <3>1, <3>2 DEF AnswersInv, CallsInside, TypesButCounter
  <2>3. CASE c \in CallsInside
    <3>1. Execute(c)
      BY <2>3 DEF CallsInside, Inside, Arrive, Limiter, LimiterDenies,
                  LimiterThrows, LimiterAllows
    <3>2. \E l \in {"working"} \cup Ended :
             /\ pc' = [pc EXCEPT ![c] = l]
             /\ connected => l # "unanswered"
      BY <3>1 DEF Execute, PaymentRequired, PaymentThrows, PaymentSettles,
                  HandlerReturns, HandlerThrows, Answer, Ended, Answers
    <3>3. PICK l \in {"working"} \cup Ended :
             /\ pc' = [pc EXCEPT ![c] = l]
             /\ connected => l # "unanswered"
      BY <3>2
    <3>4. c \in admitted => l \in Inside \cup Answers
      BY <2>3, <3>3 DEF AnswersInv, Ended, Inside
    <3>5. CallsInside' \subseteq CallsInside
      BY <2>3, <3>3 DEF CallsInside, TypesButCounter
    <3>6. \A d \in admitted : pc'[d] \in Inside \cup Answers
      BY <3>3, <3>4 DEF AnswersInv, TypesButCounter
    <3>7. QED
      BY <2>1, <3>5, <3>6 DEF AnswersInv
  <2>4. QED
    BY <2>2, <2>3
<1>2. CASE EventStep \/ UNCHANGED vars
  BY <1>2 DEF EventStep, RevokeEmits, DeliveryEnds, AnswersInv, CallsInside,
              vars, callVars, closeVars
<1>3. CASE CloseStep
  <2>1. pc' = pc /\ CallsInside' = CallsInside
    BY <1>3 DEF CloseStep, Close, CloseSettles, HookSettles, ShutdownStep,
       DeadlinePasses, DrainCompletes, DrainTimesOut, WebhooksDrained, Disconnect,
       callVars, CallsInside
  <2>2. CASE \E s \in Closers : Close(s)
    BY <2>1, <2>2 DEF Close, AnswersInv, CallsInside, Inside
  <2>3. CASE DrainCompletes
    BY <2>1, <2>3, Drained DEF DrainCompletes, AnswersInv
  <2>4. CASE \/ HookSettles \/ DeadlinePasses \/ DrainTimesOut
             \/ \E s \in Closers : CloseSettles(s)
    BY <2>1, <2>4 DEF HookSettles, DeadlinePasses, DrainTimesOut, CloseSettles,
                      AnswersInv
  <2>5. CASE WebhooksDrained
    BY <2>1, <2>5 DEF WebhooksDrained, AnswersInv
  <2>6. CASE Disconnect
    BY <2>1, <2>6 DEF Disconnect, AnswersInv
  <2>7. QED
    BY <1>3, <2>2, <2>3, <2>4, <2>5, <2>6 DEF CloseStep, ShutdownStep
<1>4. QED
  BY <1>1, <1>2, <1>3, Steps

LEMMA NextEvents ==
  CounterInv /\ AnswersInv /\ EventsInv /\ [Next]_vars => EventsInv'
<1> SUFFICES ASSUME CounterInv, AnswersInv, EventsInv, [Next]_vars
             PROVE  EventsInv'
  OBVIOUS
<1> USE DEF CounterInv
<1>1. CASE CallStep
  <2> SUFFICES ASSUME NEW c \in Calls, Arrive(c) \/ Limiter(c) \/ Execute(c)
               PROVE  EventsInv'
    BY <1>1 DEF CallStep
  <2>1. UNCHANGED <<phase, late, waiting, admitted>>
    BY DEF Arrive, Limiter, LimiterDenies, LimiterThrows, LimiterAllows, Execute,
           PaymentRequired, PaymentThrows, PaymentSettles, HandlerReturns,
           HandlerThrows, closeVars
  <2>2. pending' = pending \/ (c \in CallsInside /\ pending' \subseteq pending \cup {c})
    BY DEF Arrive, Limiter, LimiterDenies, LimiterThrows, LimiterAllows, Execute,
           PaymentRequired, PaymentThrows, PaymentSettles, HandlerReturns,
           HandlerThrows, Emit, CallsInside, Inside
  <2>3. phase \in {"webhooks", "disconnect", "resolved"}
        => admitted \cap pending' \subseteq admitted \cap pending
    BY <2>2 DEF AnswersInv
  <2>4. QED
    BY <2>1, <2>3 DEF EventsInv
<1>2. CASE EventStep
  <2>1. UNCHANGED <<phase, late, waiting, admitted>>
    BY <1>2 DEF EventStep, RevokeEmits, DeliveryEnds, closeVars
  <2>2. admitted \cap pending' \subseteq admitted \cap pending
    BY <1>2, GatewayAssumption DEF EventStep, RevokeEmits, DeliveryEnds, Emit,
                                   TypesButCounter
  <2>3. QED
    BY <2>1, <2>2 DEF EventsInv
<1>3. CASE CloseStep
  BY <1>3 DEF CloseStep, Close, CloseSettles, HookSettles, ShutdownStep,
     DeadlinePasses, DrainCompletes, DrainTimesOut, WebhooksDrained, Disconnect,
     EventsInv
<1>4. CASE UNCHANGED vars
  BY <1>4 DEF EventsInv, vars, closeVars
<1>5. QED
  BY <1>1, <1>2, <1>3, <1>4, Steps

LEMMA NextShared == TypesButCounter /\ SharedInv /\ [Next]_vars => SharedInv'
<1> SUFFICES ASSUME TypesButCounter, SharedInv, [Next]_vars PROVE SharedInv'
  OBVIOUS
<1>1. CASE CallStep \/ EventStep \/ UNCHANGED vars
  <2>1. UNCHANGED <<hooks, phase, closers>>
    BY <1>1 DEF CallStep, Arrive, Limiter, LimiterDenies, LimiterThrows,
       LimiterAllows, Execute, PaymentRequired, PaymentThrows, PaymentSettles,
       HandlerReturns, HandlerThrows, EventStep, RevokeEmits, DeliveryEnds, vars,
       closeVars
  <2>2. QED
    BY <2>1 DEF SharedInv
<1>2. CASE CloseStep
  <2>1. ASSUME NEW s \in Closers, Close(s) PROVE SharedInv'
    BY <2>1 DEF Close, SharedInv, TypesButCounter
  <2>2. ASSUME NEW s \in Closers, CloseSettles(s) PROVE SharedInv'
    BY <2>2 DEF CloseSettles, SharedInv, TypesButCounter
  <2>3. CASE HookSettles \/ ShutdownStep
    BY <2>3 DEF HookSettles, ShutdownStep, DeadlinePasses, DrainCompletes,
       DrainTimesOut, WebhooksDrained, Disconnect, SharedInv
  <2>4. QED
    BY <1>2, <2>1, <2>2, <2>3 DEF CloseStep
<1>3. QED
  BY <1>1, <1>2, Steps

ShutdownInv == CounterInv /\ AnswersInv /\ EventsInv /\ SharedInv

LEMMA ShutdownInvariant == Spec => []ShutdownInv
<1>1. Init => ShutdownInv
  <2> SUFFICES ASSUME Init PROVE ShutdownInv
    OBVIOUS
  <2>1. AnswersInv /\ EventsInv
    BY DEF Init, AnswersInv, EventsInv
  <2>2. SharedInv
    BY DEF Init, SharedInv
  <2>3. QED
    BY <2>1, <2>2, InitTypes, InitCounter DEF ShutdownInv, CounterInv
<1>2. ShutdownInv /\ [Next]_vars => ShutdownInv'
  BY NextTypes, NextCounter, NextAnswers, NextEvents, NextShared
  DEF ShutdownInv, CounterInv
<1>3. QED
  BY <1>1, <1>2, PTL DEF Spec

\* A call that was in flight when shutdown began is never left without its
\* answer, however many calls there are and whenever the deadline passes.
THEOREM AdmittedCallsAnswered == Spec => []AdmittedAreAnswered
<1>1. ShutdownInv => AdmittedAreAnswered
  BY DEF ShutdownInv, AnswersInv, AdmittedAreAnswered, Inside, Answers
<1>2. QED
  BY <1>1, ShutdownInvariant, PTL

\* A shutdown that beats its deadline leaves no event of an admitted call
\* undelivered.
THEOREM AdmittedEventsDelivered == Spec => []CleanCloseDeliversAdmitted
<1>1. ShutdownInv => CleanCloseDeliversAdmitted
  BY DEF ShutdownInv, EventsInv, CleanCloseDeliversAdmitted
<1>2. QED
  BY <1>1, ShutdownInvariant, PTL

\* The hook fires at most once, and every caller of close() hears the same.
THEOREM CloseShared == Spec => []CloseIsShared
<1>1. ShutdownInv => CloseIsShared
  BY DEF ShutdownInv, SharedInv, CloseIsShared
<1>2. QED
  BY <1>1, ShutdownInvariant, PTL

\* The drain is left for the disconnection only with no call inside: the
\* counter it polls is exact.
THEOREM DrainWaitsForCalls == Spec => DrainWaits
<1>1. ShutdownInv /\ [Next]_vars
      => [phase = "drain" /\ phase' \in {"webhooks", "disconnect"}
          => CallsInside = {}]_vars
  <2> SUFFICES ASSUME ShutdownInv, Next, phase = "drain",
                      phase' \in {"webhooks", "disconnect"}
               PROVE  CallsInside = {}
    OBVIOUS
  <2>1. phase' # phase
    OBVIOUS
  <2>2. inFlight = 0
    BY <2>1 DEF Next, Arrive, Limiter, LimiterDenies, LimiterThrows,
       LimiterAllows, Execute, PaymentRequired, PaymentThrows, PaymentSettles,
       HandlerReturns, HandlerThrows, RevokeEmits, DeliveryEnds, Close,
       CloseSettles, HookSettles, ShutdownStep, DeadlinePasses, DrainCompletes,
       DrainTimesOut, WebhooksDrained, Disconnect, Rest, vars, callVars, closeVars
  <2>3. QED
    BY <2>2, Drained DEF ShutdownInv
<1>2. QED
  BY <1>1, ShutdownInvariant, PTL DEF Spec, DrainWaits
=============================================================================
