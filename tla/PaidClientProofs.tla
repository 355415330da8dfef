--------------------------- MODULE PaidClientProofs ---------------------------
(***************************************************************************)
(* PaidClient for any calls, tools, prices, keys, channels and caps: its   *)
(* types; the most that what it spends overruns its cap by; that the cache *)
(* of keys is true; and that the table of sessions is.                     *)
(***************************************************************************)
EXTENDS PaidClient, FiniteSetTheorems, TLAPS

-----------------------------------------------------------------------------
(* Types.                                                                  *)

\* The part of TypeOK about the calls in progress, and a closeSession that went to
\* the server has a session to close.
LocalsTyped ==
  /\ pc \in [Callers -> {"idle"} \cup Active \cup Over]
  /\ toolOf \in [Callers -> Tools \cup {None}]
  /\ \A c \in Callers : pc[c] \in Active => toolOf[c] \in Tools
  /\ sentKey \in [Calls -> Keys \cup {None}]
  /\ quote \in [Calls -> Nat]
  /\ reply \in [Callers -> Reply]
  /\ target \in [Closes -> Session \cup {None}]
  /\ \A d \in Closes : pc[d] \in {"closing", "closed there", "verifying"} => target[d] # None

\* The part about the client.
HeldTyped ==
  /\ totalSpent \in Nat
  /\ capExceeded \in Nat
  /\ accessKeys \in [Tools -> View \cup {None}]
  /\ openSessions \in [Tools -> Session \cup {None}]
  /\ currentSessionTool \in Tools \cup {None}

\* And the rest.
ServerTyped ==
  /\ left \in [Keys -> 0..KeyCap \cup {None}]
  /\ expired \subseteq Keys
  /\ channel \in [Channels -> [tool : Tools \cup {None}, voucher : Nat,
                               state : {"unopened", "open", "closed"}]]
  /\ known \subseteq Keys
  /\ overlapped \in BOOLEAN
  /\ peak \in Nat

\* A key that the client holds, sends or is told of has been sold, and has no
\* more calls left than its last view says.
KeysInv ==
  /\ \A t \in Tools : accessKeys[t] # None =>
       accessKeys[t].left > 0 /\ left[accessKeys[t].key] \in 0..accessKeys[t].left
  /\ \A c \in Calls : sentKey[c] # None => left[sentKey[c]] # None
  /\ \A c \in Callers : reply[c].view # None =>
       left[reply[c].view.key] \in 0..reply[c].view.left

ClientInv == LocalsTyped /\ HeldTyped /\ ServerTyped /\ KeysInv

\* The account of what was settled.
Tallied == settled \in Nat /\ unheard \in Nat

LEMMA InvTypes == ClientInv /\ Tallied => TypeOK
BY DEF ClientInv, LocalsTyped, HeldTyped, ServerTyped, Tallied, TypeOK

LEMMA InitClient == Init => ClientInv
<1> SUFFICES ASSUME Init PROVE ClientInv
  OBVIOUS
<1>1. NoReply \in Reply /\ NoReply.view = None
  BY DEF NoReply, Reply
<1>2. LocalsTyped
  BY <1>1 DEF Init, LocalsTyped, Callers, Active, Paying
<1>3. HeldTyped /\ ServerTyped
  BY DEF Init, HeldTyped, ServerTyped
<1>4. KeysInv
  BY <1>1 DEF Init, KeysInv, Callers
<1> QED
  BY <1>2, <1>3, <1>4 DEF ClientInv

\* A call moves on with its locals as they are.
LEMMA GotoTyped ==
  ASSUME LocalsTyped, NEW c \in Callers, NEW l \in {"idle"} \cup Active \cup Over, Goto(c, l),
         l \in Active => pc[c] \in Active,
         l \in {"closing", "closed there", "verifying"} /\ c \in Closes => target[c] # None,
         UNCHANGED locals
  PROVE  LocalsTyped'
BY DEF LocalsTyped, Goto, locals, Callers

\* A call of callTool returns: it carries no key and no answer any more.
LEMMA ReturnTyped ==
  ASSUME LocalsTyped, NEW c \in Calls, NEW l \in Over, Return(c, l)
  PROVE  /\ LocalsTyped'
         /\ \A b \in Calls : sentKey'[b] \in {sentKey[b], None}
         /\ \A b \in Callers : reply'[b] = reply[b] \/ reply'[b].view = None
<1>1. NoReply \in Reply /\ NoReply.view = None
  BY DEF NoReply, Reply
<1>2. c \in Callers /\ c \notin Closes /\ l \notin Active
  BY ClientAssumption DEF Callers, Over, Active, Paying
<1>3. LocalsTyped'
  <2>1. /\ pc' = [pc EXCEPT ![c] = l] /\ toolOf' = [toolOf EXCEPT ![c] = None]
        /\ sentKey' = [sentKey EXCEPT ![c] = None] /\ quote' = [quote EXCEPT ![c] = 0]
        /\ reply' = [reply EXCEPT ![c] = NoReply] /\ target' = target
    BY DEF Return, Goto
  <2>2. /\ pc' \in [Callers -> {"idle"} \cup Active \cup Over]
        /\ toolOf' \in [Callers -> Tools \cup {None}]
        /\ sentKey' \in [Calls -> Keys \cup {None}]
        /\ quote' \in [Calls -> Nat]
        /\ target' \in [Closes -> Session \cup {None}]
    BY <1>2, <2>1 DEF LocalsTyped
  <2>3. reply' \in [Callers -> Reply]
    BY <1>1, <2>1 DEF LocalsTyped
  <2>4. \A b \in Callers : pc'[b] \in Active => toolOf'[b] \in Tools
    BY <1>2, <2>1 DEF LocalsTyped
  <2>5. \A d \in Closes : pc'[d] \in {"closing", "closed there", "verifying"} => target'[d] # None
    BY <1>2, <2>1 DEF LocalsTyped, Callers
  <2> QED
    BY <2>2, <2>3, <2>4, <2>5 DEF LocalsTyped
<1> QED
  BY <1>1, <1>2, <1>3 DEF Return, LocalsTyped

\* What a step may do to keys and keep them as KeysInv says: it lets views go,
\* and counts calls down.
LEMMA KeysKeep ==
  ASSUME ClientInv, LocalsTyped', ServerTyped',
         \A t \in Tools : \/ accessKeys'[t] \in {accessKeys[t], None}
                          \/ /\ accessKeys'[t].left > 0
                             /\ \E c \in Callers : reply[c].view # None /\ accessKeys'[t] = reply[c].view,
         \A c \in Calls : sentKey'[c] \in {sentKey[c], None},
         \A c \in Callers : reply'[c].view \in {reply[c].view, None},
         left' = left
  PROVE  KeysInv'
BY DEF ClientInv, KeysInv

\* The steps that sell no key and use none.
LEMMA PlainSteps ==
  ASSUME ClientInv, NEW c \in Calls
  PROVE  /\ RequestFails(c) \/ Refuse(c) \/ PaymentFails(c) => ClientInv'
         /\ AskForPayment(c) => ClientInv'
         /\ StartPaying(c) => ClientInv'
<1> USE DEF ClientInv
<1>1. ASSUME NEW l \in Over, Return(c, l), ServerTyped', HeldTyped', UNCHANGED <<accessKeys, left>>
      PROVE  ClientInv'
  <2>1. LocalsTyped'
    BY <1>1, ReturnTyped
  <2>2. \A b \in Calls : sentKey'[b] \in {sentKey[b], None}
    BY <1>1, ReturnTyped
  <2>3. \A b \in Callers : reply'[b].view \in {reply[b].view, None}
    BY <1>1, ReturnTyped
  <2> QED
    BY <1>1, <2>1, <2>2, <2>3, KeysKeep
<1>2. CASE RequestFails(c) \/ Refuse(c) \/ PaymentFails(c)
  <2>1. Return(c, "threw") /\ UNCHANGED <<accessKeys, left>>
    BY <1>2 DEF RequestFails, Refuse, PaymentFails, client, server
  <2>2. ServerTyped'
    BY <1>2 DEF RequestFails, Refuse, PaymentFails, client, server, history, ServerTyped
  <2>3. HeldTyped'
    BY <1>2 DEF RequestFails, Refuse, PaymentFails, client, server, history, HeldTyped
  <2> QED
    BY <1>1, <2>1, <2>2, <2>3 DEF Over
<1>3. CASE AskForPayment(c)
  <2>1. /\ pc[c] = "asked" /\ Goto(c, "challenged")
        /\ UNCHANGED <<client, toolOf, sentKey, reply, target, server, history>>
    BY <1>3 DEF AskForPayment
  <2>2. quote' \in [Calls -> Nat]
    BY <1>3, ClientAssumption DEF AskForPayment, LocalsTyped
  <2>3. LocalsTyped'
    BY <2>1, <2>2, ClientAssumption DEF LocalsTyped, Goto, Callers, Active
  <2>4. HeldTyped' /\ ServerTyped'
    BY <2>1 DEF HeldTyped, ServerTyped, client, server, history
  <2> QED
    BY <2>1, <2>3, <2>4, KeysKeep DEF client, server
<1>4. CASE StartPaying(c)
  <2>1. Cardinality(Payers) \in Nat
    BY ClientAssumption, FS_Subset, FS_CardinalityType DEF Payers
  <2>2. /\ pc[c] = "challenged" /\ Goto(c, "paying") /\ currentSessionTool' = toolOf[c]
        /\ UNCHANGED <<totalSpent, capExceeded, accessKeys, openSessions, locals, server,
                       known, overlapped>>
    BY <1>4 DEF StartPaying
  <2>3. peak' \in Nat
    BY <1>4, <2>1 DEF StartPaying, ServerTyped
  <2>4. LocalsTyped'
    BY <2>2, GotoTyped, ClientAssumption DEF Callers, Active, Paying
  <2>5. toolOf[c] \in Tools
    BY <2>2 DEF LocalsTyped, Callers, Active
  <2>6. HeldTyped' /\ ServerTyped'
    BY <2>2, <2>3, <2>5 DEF HeldTyped, ServerTyped, server
  <2> QED
    BY <2>2, <2>4, <2>6, KeysKeep DEF locals, server
<1> QED
  BY <1>2, <1>3, <1>4

\* captureAccessKey takes the view of an answer.
LEMMA CaptureKeeps ==
  ASSUME ClientInv, NEW c \in Calls, Capture(toolOf[c], reply[c].view)
  PROVE  /\ accessKeys' \in [Tools -> View \cup {None}]
         /\ known' \subseteq Keys
         /\ \A t \in Tools : \/ accessKeys'[t] \in {accessKeys[t], None}
                             \/ /\ accessKeys'[t].left > 0
                                /\ reply[c].view # None /\ accessKeys'[t] = reply[c].view
<1> DEFINE v == reply[c].view
<1>1. v \in View \cup {None} /\ accessKeys \in [Tools -> View \cup {None}] /\ known \subseteq Keys
  BY DEF ClientInv, LocalsTyped, HeldTyped, ServerTyped, Reply, Callers
<1>2. CASE v = None
  BY <1>1, <1>2 DEF Capture
<1>3. CASE v # None
  <2>1. v \in View /\ v.key \in Keys /\ v.left \in Nat
    BY <1>1, <1>3 DEF View
  <2>2. /\ accessKeys' = [accessKeys EXCEPT ![toolOf[c]] = IF v.left = 0 THEN None ELSE v]
        /\ known' = known \cup {v.key}
    BY <1>3 DEF Capture
  <2>3. accessKeys' \in [Tools -> View \cup {None}] /\ known' \subseteq Keys
    BY <1>1, <2>1, <2>2
  <2>4. ASSUME NEW t \in Tools
        PROVE  accessKeys'[t] \in {accessKeys[t], None} \/ (accessKeys'[t].left > 0 /\ accessKeys'[t] = v)
    <3>1. CASE t = toolOf[c] /\ v.left # 0
      <4>1. accessKeys'[t] = v
        BY <1>1, <2>2, <3>1
      <4> QED
        BY <2>1, <3>1, <4>1
    <3>2. CASE t # toolOf[c] \/ v.left = 0
      BY <1>1, <2>2, <3>2
    <3> QED
      BY <3>1, <3>2
  <2> QED
    BY <1>3, <2>3, <2>4
<1> QED
  BY <1>2, <1>3

LEMMA ReturnSteps ==
  ASSUME ClientInv, NEW c \in Calls, ReturnUnpaid(c) \/ ReturnPaid(c)
  PROVE  ClientInv'
<1> USE DEF ClientInv
<1>1. Return(c, "returned") /\ Capture(toolOf[c], reply[c].view) /\ UNCHANGED <<server, openSessions>>
  BY DEF ReturnUnpaid, ReturnPaid
<1>2. LocalsTyped' /\ (\A b \in Calls : sentKey'[b] \in {sentKey[b], None})
      /\ \A b \in Callers : reply'[b].view \in {reply[b].view, None}
  <2>1. "returned" \in Over
    BY DEF Over
  <2> QED
    BY <1>1, <2>1, ReturnTyped
<1>3. HeldTyped'
  <2>1. totalSpent' \in Nat /\ capExceeded' = capExceeded
        /\ currentSessionTool' \in {currentSessionTool, None}
    <3>1. totalSpent \in Nat /\ quote[c] \in Nat
      BY DEF HeldTyped, LocalsTyped
    <3>2. CASE ReturnUnpaid(c)
      BY <3>1, <3>2 DEF ReturnUnpaid
    <3>3. CASE ReturnPaid(c)
      BY <3>1, <3>3 DEF ReturnPaid
    <3> QED
      BY <3>2, <3>3
  <2> QED
    BY <1>1, <2>1, CaptureKeeps DEF HeldTyped
<1>4. ServerTyped'
  BY <1>1, CaptureKeeps DEF ReturnUnpaid, ReturnPaid, server, ServerTyped
<1>5. \A t \in Tools : \/ accessKeys'[t] \in {accessKeys[t], None}
                       \/ /\ accessKeys'[t].left > 0
                          /\ \E b \in Callers : reply[b].view # None /\ accessKeys'[t] = reply[b].view
  BY <1>1, CaptureKeeps DEF Callers
<1> QED
  BY <1>1, <1>2, <1>3, <1>4, <1>5, KeysKeep DEF server

\* A call carries the cached key, if it can be used, and drops it if it cannot.
LEMMA CallSteps ==
  ASSUME ClientInv, NEW c \in Calls, NEW t \in Tools, CallTool(c, t)
  PROVE  ClientInv'
<1> USE DEF ClientInv
<1>1. /\ pc' = [pc EXCEPT ![c] = "asked"] /\ toolOf' = [toolOf EXCEPT ![c] = t]
      /\ sentKey' = [sentKey EXCEPT ![c] = IF Usable(t) THEN accessKeys[t].key ELSE None]
      /\ accessKeys' = [accessKeys EXCEPT ![t] = IF Usable(t) THEN @ ELSE None]
      /\ overlapped' = (overlapped \/ Busy # {})
      /\ UNCHANGED <<totalSpent, capExceeded, openSessions, currentSessionTool, quote,
                     reply, target, left, expired, channel, known, peak>>
  BY DEF CallTool, Begin, Goto, server
<1>2. c \in Callers /\ c \notin Closes
  BY ClientAssumption DEF Callers
<1>3. Usable(t) => accessKeys[t].key \in Keys /\ left[accessKeys[t].key] # None
  <2>1. Usable(t) => accessKeys[t] # None /\ accessKeys[t] \in View
    BY DEF Usable, HeldTyped
  <2>2. Usable(t) => left[accessKeys[t].key] \in Nat
    BY <2>1 DEF KeysInv, View
  <2> QED
    BY <2>1, <2>2, ClientAssumption DEF View
<1>4. LocalsTyped'
  <2>1. pc' \in [Callers -> {"idle"} \cup Active \cup Over] /\ toolOf' \in [Callers -> Tools \cup {None}]
        /\ sentKey' \in [Calls -> Keys \cup {None}]
    BY <1>1, <1>2, <1>3 DEF LocalsTyped, Active
  <2>2. \A b \in Callers : pc'[b] \in Active => toolOf'[b] \in Tools
    BY <1>1, <1>2 DEF LocalsTyped
  <2>3. \A d \in Closes : pc'[d] = pc[d]
    BY <1>1, <1>2 DEF LocalsTyped, Callers
  <2> QED
    BY <1>1, <2>1, <2>2, <2>3 DEF LocalsTyped
<1>5. HeldTyped' /\ ServerTyped'
  BY <1>1 DEF HeldTyped, ServerTyped
<1>6. KeysInv'
  BY <1>1, <1>3 DEF KeysInv, LocalsTyped, HeldTyped
<1> QED
  BY <1>4, <1>5, <1>6

\* A key is used: its last view is the answer's.
LEMMA ServeSteps ==
  ASSUME ClientInv, NEW c \in Calls, ServeUnpaid(c)
  PROVE  ClientInv'
<1> USE DEF ClientInv
<1> DEFINE k == sentKey[c]
<1>1. /\ pc[c] = "asked" /\ pc' = [pc EXCEPT ![c] = "served"] /\ c \in Callers /\ c \notin Closes
      /\ UNCHANGED <<totalSpent, capExceeded, accessKeys, openSessions, currentSessionTool, toolOf,
                     sentKey, quote, target, expired, channel, known, overlapped, peak>>
  BY ClientAssumption DEF ServeUnpaid, Goto, client, history, Callers
<1>2. HeldTyped'
  BY <1>1 DEF HeldTyped
<1>3. ASSUME reply' \in [Callers -> Reply] PROVE LocalsTyped'
  BY <1>1, <1>3 DEF LocalsTyped, Active, Callers
<1>4. CASE UNCHANGED <<left, reply>>
  <2>1. LocalsTyped' /\ ServerTyped'
    BY <1>1, <1>3, <1>4 DEF LocalsTyped, ServerTyped
  <2> QED
    BY <1>1, <1>2, <1>4, <2>1, KeysKeep
<1>5. CASE /\ Honoured(k)
           /\ left' = [left EXCEPT ![k] = @ - 1]
           /\ reply' = [reply EXCEPT ![c].view = [key |-> k, left |-> left[k] - 1]]
  <2>1. k \in Keys /\ left[k] \in 1..KeyCap
    <3>1. k \in Keys /\ left[k] # None
      BY <1>5 DEF Honoured, LocalsTyped, KeysInv
    <3> QED
      BY <1>5, <3>1 DEF Honoured, ServerTyped
  <2>2. left[k] - 1 \in 0..KeyCap /\ left[k] - 1 \in Nat /\ left[k] - 1 # None
    BY <2>1, ClientAssumption
  <2>3. [key |-> k, left |-> left[k] - 1] \in View
    BY <2>1, <2>2 DEF View
  <2>4. reply' \in [Callers -> Reply]
    BY <1>5, <2>3 DEF LocalsTyped, Reply
  <2>5. ServerTyped'
    BY <1>1, <1>5, <2>2 DEF ServerTyped
  <2>6. \A b \in Callers : reply'[b].view = reply[b].view \/ (b = c /\ reply'[b].view = [key |-> k, left |-> left[k] - 1])
    BY <1>1, <1>5 DEF LocalsTyped, Reply
  <2>7. \A j \in Keys : left'[j] = IF j = k THEN left[k] - 1 ELSE left[j]
    BY <1>5, <2>1 DEF ServerTyped
  <2>8. \A t \in Tools : accessKeys[t] # None => accessKeys[t].key \in Keys /\ accessKeys[t].left \in Nat
    BY DEF HeldTyped, View
  <2>9. \A b \in Callers : reply[b].view # None => reply[b].view.key \in Keys /\ reply[b].view.left \in Nat
    BY DEF LocalsTyped, Reply, View
  <2>10. KeysInv'
    <3>1. \A t \in Tools : accessKeys'[t] # None =>
            accessKeys'[t].left > 0 /\ left'[accessKeys'[t].key] \in 0..accessKeys'[t].left
      BY <1>1, <2>1, <2>2, <2>7, <2>8 DEF KeysInv
    <3>2. \A b \in Calls : sentKey'[b] # None => left'[sentKey'[b]] # None
      BY <1>1, <2>2, <2>7 DEF KeysInv, LocalsTyped
    <3>3. \A b \in Callers : reply'[b].view # None => left'[reply'[b].view.key] \in 0..reply'[b].view.left
      BY <2>1, <2>2, <2>6, <2>7, <2>9 DEF KeysInv
    <3> QED
      BY <3>1, <3>2, <3>3 DEF KeysInv
  <2> QED
    BY <1>2, <1>3, <2>4, <2>5, <2>10
<1> QED
  BY <1>4, <1>5 DEF ServeUnpaid

\* The wrapper signs: a channel is opened or goes on, and is tracked.
LEMMA SignSteps ==
  ASSUME ClientInv, NEW c \in Calls, Sign(c)
  PROVE  ClientInv'
<1> USE DEF ClientInv
<1>1. /\ pc[c] = "paying" /\ Goto(c, "signed") /\ c \in Callers /\ toolOf[c] \in Tools
      /\ UNCHANGED <<totalSpent, capExceeded, accessKeys, currentSessionTool, locals,
                     left, expired, known, overlapped, peak>>
  BY DEF Sign, Callers, LocalsTyped, Active, Paying, history
<1>2. LocalsTyped'
  BY <1>1, GotoTyped DEF Active, Paying
<1>3. \/ UNCHANGED <<channel, openSessions>>
      \/ \E h \in Channels, v \in Nat :
           /\ channel' = [channel EXCEPT ![h] = [tool |-> toolOf[c], voucher |-> v, state |-> "open"]]
           /\ OnChannelUpdate(h, v)
  <2>1. \A h \in Channels : channel[h].voucher + 1 \in Nat
    BY DEF ServerTyped
  <2> QED
    BY <2>1 DEF Sign
<1>4. HeldTyped' /\ ServerTyped'
  <2>1. ASSUME NEW h \in Channels, NEW v \in Nat,
               channel' = [channel EXCEPT ![h] = [tool |-> toolOf[c], voucher |-> v, state |-> "open"]]
        PROVE  ServerTyped'
    BY <1>1, <2>1 DEF ServerTyped
  <2>2. ASSUME NEW h \in Channels, NEW v \in Nat, OnChannelUpdate(h, v)
        PROVE  HeldTyped'
    <3>1. [channel |-> h, voucher |-> v] \in Session
      BY DEF Session
    <3> QED
      BY <1>1, <2>2, <3>1 DEF OnChannelUpdate, HeldTyped
  <2>3. CASE UNCHANGED <<channel, openSessions>>
    BY <1>1, <2>3 DEF HeldTyped, ServerTyped
  <2> QED
    BY <1>3, <2>1, <2>2, <2>3
<1> QED
  BY <1>1, <1>2, <1>4, KeysKeep DEF locals

\* The server sells a key that it has not sold before, or none.
LEMMA SettleSteps ==
  ASSUME ClientInv, NEW c \in Calls, Settle(c)
  PROVE  ClientInv'
<1> USE DEF ClientInv
<1>1. /\ pc[c] = "signed" /\ pc' = [pc EXCEPT ![c] = "settled"] /\ c \in Callers /\ c \notin Closes
      /\ UNCHANGED <<totalSpent, capExceeded, accessKeys, openSessions, currentSessionTool, toolOf,
                     sentKey, quote, target, expired, channel, known, overlapped, peak>>
  BY ClientAssumption DEF Settle, Goto, client, history, Callers
<1>2. HeldTyped'
  BY <1>1 DEF HeldTyped
<1>3. ASSUME reply' \in [Callers -> Reply] PROVE LocalsTyped'
  BY <1>1, <1>3 DEF LocalsTyped, Active, Paying, Callers
<1>4. ASSUME NEW r \in BOOLEAN, reply' = [reply EXCEPT ![c].receipt = r], left' = left PROVE ClientInv'
  <2>1. /\ reply' \in [Callers -> Reply]
        /\ \A b \in Callers : reply'[b].view = reply[b].view
    BY <1>1, <1>4 DEF LocalsTyped, Reply
  <2>2. LocalsTyped' /\ ServerTyped'
    BY <1>1, <1>3, <1>4, <2>1 DEF ServerTyped
  <2> QED
    BY <1>1, <1>2, <1>4, <2>1, <2>2, KeysKeep
<1>5. ASSUME NEW r \in BOOLEAN, NEW k \in Keys, left[k] = None,
             left' = [left EXCEPT ![k] = KeyCap - 1],
             reply' = [reply EXCEPT ![c] = [view |-> [key |-> k, left |-> KeyCap - 1], receipt |-> r]]
      PROVE  ClientInv'
  <2>1. KeyCap - 1 \in 0..KeyCap /\ KeyCap - 1 \in Nat /\ KeyCap - 1 # None
    BY ClientAssumption
  <2>2. [key |-> k, left |-> KeyCap - 1] \in View
    BY <2>1 DEF View
  <2>3. reply' \in [Callers -> Reply]
    BY <1>5, <2>2 DEF LocalsTyped, Reply
  <2>4. ServerTyped'
    BY <1>1, <1>5, <2>1 DEF ServerTyped
  <2>5. \A b \in Callers : reply'[b] = reply[b] \/ reply'[b].view = [key |-> k, left |-> KeyCap - 1]
    BY <1>1, <1>5 DEF LocalsTyped
  <2>6. \A j \in Keys : left'[j] = IF j = k THEN KeyCap - 1 ELSE left[j]
    BY <1>5 DEF ServerTyped
  <2>7. \A t \in Tools : accessKeys[t] # None => accessKeys[t].key \in Keys /\ accessKeys[t].left \in Nat
    BY DEF HeldTyped, View
  <2>8. \A b \in Callers : reply[b].view # None => reply[b].view.key \in Keys /\ reply[b].view.left \in Nat
    BY DEF LocalsTyped, Reply, View
  <2>9. None \notin Nat
    BY ClientAssumption
  <2>10. KeysInv'
    <3>1. \A t \in Tools : accessKeys'[t] # None =>
            accessKeys'[t].left > 0 /\ left'[accessKeys'[t].key] \in 0..accessKeys'[t].left
      BY <1>1, <1>5, <2>6, <2>7, <2>9 DEF KeysInv
    <3>2. \A b \in Calls : sentKey'[b] # None => left'[sentKey'[b]] # None
      BY <1>1, <2>1, <2>6 DEF KeysInv, LocalsTyped
    <3>3. \A b \in Callers : reply'[b].view # None => left'[reply'[b].view.key] \in 0..reply'[b].view.left
      BY <1>5, <2>1, <2>5, <2>6, <2>8, <2>9 DEF KeysInv
    <3> QED
      BY <3>1, <3>2, <3>3 DEF KeysInv
  <2> QED
    BY <1>2, <1>3, <2>3, <2>4, <2>10
<1> QED
  BY <1>4, <1>5 DEF Settle

\* The steps of closeSession.
LEMMA CloseSteps ==
  ASSUME ClientInv, NEW d \in Closes,
         \/ \E t \in Tools : CloseSession(d, t)
         \/ CloseThere(d) \/ CloseReturns(d) \/ CloseFails(d) \/ Verify(d)
  PROVE  ClientInv'
<1> USE DEF ClientInv
<1>1. d \in Callers /\ d \notin Calls
  BY ClientAssumption DEF Callers
<1>2. ASSUME NEW t \in Tools, CloseSession(d, t) PROVE ClientInv'
  <2>1. /\ pc' = [pc EXCEPT ![d] = IF openSessions[t] = None THEN "noChannel" ELSE "closing"]
        /\ toolOf' = [toolOf EXCEPT ![d] = t] /\ target' = [target EXCEPT ![d] = openSessions[t]]
        /\ overlapped' = (overlapped \/ Busy # {})
        /\ UNCHANGED <<totalSpent, capExceeded, accessKeys, openSessions, currentSessionTool, sentKey,
                       quote, reply, left, expired, channel, known, peak>>
    BY <1>2 DEF CloseSession, Begin, Goto, client, server
  <2>2. LocalsTyped'
    <3>1. openSessions[t] \in Session \cup {None}
      BY DEF HeldTyped
    <3>2. pc' \in [Callers -> {"idle"} \cup Active \cup Over] /\ toolOf' \in [Callers -> Tools \cup {None}]
          /\ target' \in [Closes -> Session \cup {None}]
      BY <1>1, <2>1, <3>1 DEF LocalsTyped, Active, Over
    <3>3. \A b \in Callers : pc'[b] \in Active => toolOf'[b] \in Tools
      BY <1>1, <2>1 DEF LocalsTyped
    <3>4. \A b \in Closes : pc'[b] \in {"closing", "closed there", "verifying"} => target'[b] # None
      BY <1>1, <2>1 DEF LocalsTyped, Callers
    <3> QED
      BY <2>1, <3>2, <3>3, <3>4 DEF LocalsTyped
  <2>3. HeldTyped' /\ ServerTyped'
    BY <2>1 DEF HeldTyped, ServerTyped
  <2> QED
    BY <2>1, <2>2, <2>3, KeysKeep
<1>3. CASE CloseThere(d)
  <2>1. PICK r \in BOOLEAN :
          /\ reply' = [reply EXCEPT ![d].receipt = r]
          /\ channel' = [channel EXCEPT ![target[d].channel].state = IF r THEN "closed" ELSE @]
    BY <1>3 DEF CloseThere
  <2>2. /\ pc[d] = "closing" /\ pc' = [pc EXCEPT ![d] = "closed there"]
        /\ UNCHANGED <<totalSpent, capExceeded, accessKeys, openSessions, currentSessionTool, toolOf,
                       sentKey, quote, target, left, expired, known, overlapped, peak>>
    BY <1>3 DEF CloseThere, Goto, client, history
  <2>3. /\ reply' \in [Callers -> Reply]
        /\ \A b \in Callers : reply'[b].view = reply[b].view
    BY <1>1, <2>1 DEF LocalsTyped, Reply
  <2>4. LocalsTyped'
    BY <1>1, <2>2, <2>3 DEF LocalsTyped, Active, Callers
  <2>5. HeldTyped' /\ ServerTyped'
    BY <2>1, <2>2 DEF HeldTyped, ServerTyped
  <2> QED
    BY <2>2, <2>3, <2>4, <2>5, KeysKeep
<1>4. CASE CloseReturns(d) \/ CloseFails(d) \/ Verify(d)
  <2>1. /\ pc[d] \in {"closing", "closed there", "verifying"}
        /\ \/ Goto(d, "threw") \/ Goto(d, "closed")
           \/ pc[d] = "closed there" /\ Goto(d, "verifying")
        /\ openSessions' = openSessions \/ openSessions' = [openSessions EXCEPT ![toolOf[d]] = None]
        /\ UNCHANGED <<totalSpent, capExceeded, accessKeys, currentSessionTool, locals, server, history>>
    BY <1>4 DEF CloseReturns, CloseFails, Verify, client
  <2>2. target[d] # None
    BY <2>1 DEF LocalsTyped
  <2>3. LocalsTyped'
    BY <1>1, <2>1, <2>2, GotoTyped DEF Active, Over
  <2>4. HeldTyped' /\ ServerTyped'
    BY <2>1 DEF HeldTyped, ServerTyped, server, history
  <2> QED
    BY <2>1, <2>3, <2>4, KeysKeep DEF locals, server
<1> QED
  BY <1>2, <1>3, <1>4

\* The other methods, and the clock.
LEMMA OtherSteps ==
  ASSUME ClientInv, \/ ResetSpending \/ (\E T \in SUBSET Tools : ClearAccessKeys(T))
                    \/ \E k \in Keys : Expire(k)
  PROVE  ClientInv'
<1> USE DEF ClientInv
<1>1. /\ UNCHANGED <<pc, locals, left, channel, openSessions, currentSessionTool, overlapped, peak>>
      /\ accessKeys' \in [Tools -> View \cup {None}]
      /\ \A t \in Tools : accessKeys'[t] \in {accessKeys[t], None}
      /\ {totalSpent', capExceeded'} \subseteq Nat
      /\ known' \subseteq Keys /\ expired' \subseteq Keys
  BY DEF ResetSpending, ClearAccessKeys, Expire, client, server, history, HeldTyped, ServerTyped
<1>2. LocalsTyped' /\ HeldTyped' /\ ServerTyped'
  BY <1>1 DEF LocalsTyped, HeldTyped, ServerTyped, locals
<1> QED
  BY <1>1, <1>2, KeysKeep DEF locals

LEMMA NextClient ==
  ASSUME ClientInv, [Next]_vars PROVE ClientInv'
<1>1. CASE UNCHANGED vars
  BY <1>1 DEF vars, client, locals, server, history, ClientInv, LocalsTyped, HeldTyped, ServerTyped, KeysInv
<1>2. CASE Next
  <2>1. \A T \in {{t} : t \in Tools} \cup {Tools} : T \in SUBSET Tools
    OBVIOUS
  <2> QED
    BY <1>2, <2>1, CallSteps, PlainSteps, ServeSteps, ReturnSteps, SignSteps, SettleSteps, CloseSteps, OtherSteps DEF Next
<1> QED
  BY <1>1, <1>2

LEMMA AlwaysClient == Spec => []ClientInv
BY InitClient, NextClient, PTL DEF Spec

LEMMA TallyStep ==
  ASSUME ClientInv, Tallied, [Next]_vars PROVE Tallied'
<1>1. ASSUME NEW c \in Calls, Settle(c) PROVE Tallied'
  <2>1. quote[c] \in Nat
    BY DEF ClientInv, LocalsTyped
  <2> QED
    BY <1>1, <2>1 DEF Settle, Tallied
<1>2. ASSUME NEW c \in Calls, ReturnPaid(c) \/ PaymentFails(c) PROVE Tallied'
  BY <1>2 DEF ReturnPaid, PaymentFails, Tallied
<1>3. CASE ResetSpending
  BY <1>3 DEF ResetSpending, Tallied
<1>4. ASSUME NEW c \in Calls,
             \/ \E t \in Tools : CallTool(c, t)
             \/ ServeUnpaid(c) \/ AskForPayment(c) \/ ReturnUnpaid(c) \/ RequestFails(c)
             \/ Refuse(c) \/ StartPaying(c) \/ Sign(c)
      PROVE  Tallied'
  BY <1>4 DEF CallTool, ServeUnpaid, AskForPayment, ReturnUnpaid, RequestFails, Refuse, StartPaying,
              Sign, history, Tallied
<1>5. ASSUME NEW d \in Closes,
             \/ \E t \in Tools : CloseSession(d, t)
             \/ CloseThere(d) \/ CloseReturns(d) \/ CloseFails(d) \/ Verify(d)
      PROVE  Tallied'
  BY <1>5 DEF CloseSession, CloseThere, CloseReturns, CloseFails, Verify, history, Tallied
<1>6. CASE (\E T \in SUBSET Tools : ClearAccessKeys(T)) \/ (\E k \in Keys : Expire(k)) \/ UNCHANGED vars
  BY <1>6 DEF ClearAccessKeys, Expire, vars, history, Tallied
<1>7. \A T \in {{t} : t \in Tools} \cup {Tools} : T \in SUBSET Tools
  OBVIOUS
<1> QED
  BY <1>1, <1>2, <1>3, <1>4, <1>5, <1>6, <1>7 DEF Next

LEMMA AlwaysTallied == Spec => []Tallied
<1>1. Init => Tallied
  BY DEF Init, Tallied
<1> QED
  BY <1>1, AlwaysClient, TallyStep, PTL DEF Spec

\* The variables of PaidClient keep their types.
THEOREM TypeCorrect == Spec => []TypeOK
BY AlwaysClient, AlwaysTallied, InvTypes, PTL

-----------------------------------------------------------------------------
(* The overrun.                                                            *)

\* What k maximal calls cost.
Room(k) == k * MaxPerCall

LEMMA RoomStep == \A k \in Int : Room(k) \in Int /\ Room(k + 1) = Room(k) + MaxPerCall
BY ClientAssumption DEF Room

LEMMA RoomGrows == \A j, k \in Int : j <= k => Room(j) <= Room(k)
<1> SUFFICES ASSUME NEW j \in Int, NEW k \in Int, j <= k PROVE Room(j) <= Room(k)
  OBVIOUS
<1>1. \A n, m \in Nat : n * m \in Nat
  OBVIOUS
<1>2. k - j \in Nat /\ MaxPerCall \in Nat
  BY ClientAssumption
<1>3. (k - j) * MaxPerCall \in Nat
  BY <1>1, <1>2
<1>4. k * MaxPerCall = j * MaxPerCall + (k - j) * MaxPerCall
  BY <1>2
<1>5. j * MaxPerCall \in Int
  BY <1>2
<1> QED
  BY <1>3, <1>4, <1>5 DEF Room

Paid == Cardinality(Payers)

\* Between the check of a cap and the payment other calls pay.  A call that is paying
\* passed the check when the total was at most what the others can have added since:
\* either the calls that are paying still fit, or one of them was the last to be
\* checked and all the room but its own is theirs.
BoundInv ==
  /\ Paid <= peak
  /\ \A c \in Payers : quote[c] <= MaxPerCall /\ quote[c] <= MaxTotal
  /\ peak = 0 => totalSpent = 0
  /\ peak > 0 => \/ totalSpent <= MaxTotal + Room(peak - 1 - Paid)
                 \/ \E c \in Payers : totalSpent + quote[c] <= MaxTotal + Room(peak - Paid)

LEMMA PaidNat == IsFiniteSet(Payers) /\ Paid \in Nat /\ (Paid = 0 <=> Payers = {})
<1>1. IsFiniteSet(Payers)
  BY ClientAssumption, FS_Subset DEF Payers
<1> QED
  BY <1>1, FS_CardinalityType, FS_EmptySet DEF Paid

\* What the total leaves, beside the calls that are paying.
LEMMA RoomLeft ==
  ASSUME ClientInv, BoundInv, peak > 0
  PROVE  \/ totalSpent + Room(Paid) <= MaxTotal + Room(peak - 1)
         \/ \E c \in Payers :
              totalSpent + quote[c] + Room(Paid - 1) <= MaxTotal + Room(peak - 1)
<1>1. totalSpent \in Nat /\ peak \in Nat /\ quote \in [Calls -> Nat] /\ MaxTotal \in Nat
  BY ClientAssumption DEF ClientInv, HeldTyped, ServerTyped, LocalsTyped
<1>2. \A j, k \in Int : Room(j) \in Int /\ Room(k) \in Int /\ Room(j + k) = Room(j) + Room(k)
  BY ClientAssumption DEF Room
<1>3. Paid \in Nat
  BY PaidNat
<1>4. /\ Room(peak - 1 - Paid) \in Int /\ Room(Paid) \in Int
      /\ Room((peak - 1 - Paid) + Paid) = Room(peak - 1 - Paid) + Room(Paid)
  BY <1>1, <1>2, <1>3
<1>5. /\ Room(peak - Paid) \in Int /\ Room(Paid - 1) \in Int
      /\ Room((peak - Paid) + (Paid - 1)) = Room(peak - Paid) + Room(Paid - 1)
  BY <1>1, <1>2, <1>3
<1>6. (peak - 1 - Paid) + Paid = peak - 1 /\ (peak - Paid) + (Paid - 1) = peak - 1
  BY <1>1, <1>3
<1>7. CASE totalSpent <= MaxTotal + Room(peak - 1 - Paid)
  <2>1. totalSpent + Room(Paid) <= MaxTotal + Room(peak - 1)
    BY <1>1, <1>4, <1>6, <1>7
  <2> QED
    BY <2>1
<1>8. ASSUME NEW c \in Payers, totalSpent + quote[c] <= MaxTotal + Room(peak - Paid)
      PROVE  totalSpent + quote[c] + Room(Paid - 1) <= MaxTotal + Room(peak - 1)
  <2>1. quote[c] \in Nat
    BY <1>1 DEF Payers
  <2> QED
    BY <1>1, <1>5, <1>6, <1>8, <2>1
<1> QED
  BY <1>7, <1>8 DEF BoundInv

\* The units of the calls in C that are settled, where p says which calls are and q
\* their prices.
Units(C, p, q) == {u \in C \X (1..MaxPerCall) : p[u[1]] = "settled" /\ u[2] <= q[u[1]]}

\* What was settled and is still to be counted.
Due == Cardinality(Units(Payers, pc, quote))

\* What was settled is counted, or due, or was not heard of.
DueInv == settled <= totalSpent + Due + Room(unheard)

\* The units of some calls are no more than these calls may cost.
LEMMA UnitsFit ==
  ASSUME NEW C, IsFiniteSet(C), NEW p, NEW q
  PROVE  /\ IsFiniteSet(Units(C, p, q)) /\ Cardinality(Units(C, p, q)) \in Nat
         /\ Cardinality(Units(C, p, q)) <= Room(Cardinality(C))
<1>1. MaxPerCall \in Nat
  BY ClientAssumption
<1>2. IsFiniteSet(1..MaxPerCall) /\ Cardinality(1..MaxPerCall) = MaxPerCall
  <2>1. /\ IsFiniteSet(1..MaxPerCall)
        /\ Cardinality(1..MaxPerCall) = IF 1 > MaxPerCall THEN 0 ELSE MaxPerCall - 1 + 1
    BY <1>1, FS_Interval
  <2> QED
    BY <1>1, <2>1
<1>3. /\ IsFiniteSet(C \X (1..MaxPerCall))
      /\ Cardinality(C \X (1..MaxPerCall)) = Cardinality(C) * Cardinality(1..MaxPerCall)
  BY <1>2, FS_Product
<1>4. Units(C, p, q) \subseteq C \X (1..MaxPerCall)
  BY DEF Units
<1>5. /\ IsFiniteSet(Units(C, p, q))
      /\ Cardinality(Units(C, p, q)) <= Cardinality(C \X (1..MaxPerCall))
  BY <1>3, <1>4, FS_Subset
<1>6. Cardinality(Units(C, p, q)) \in Nat
  BY <1>5, FS_CardinalityType
<1> QED
  BY <1>2, <1>3, <1>5, <1>6 DEF Room

\* The units of one call are its price, once it is settled.
LEMMA UnitsOfOne ==
  ASSUME NEW c, NEW p, NEW q, q[c] \in Nat, q[c] <= MaxPerCall
  PROVE  Cardinality(Units({c}, p, q)) = IF p[c] = "settled" THEN q[c] ELSE 0
<1>1. MaxPerCall \in Nat
  BY ClientAssumption
<1>2. CASE p[c] = "settled"
  <2>1. PICK n \in Nat : n = q[c]
    OBVIOUS
  <2>2. IsFiniteSet(1..n) /\ Cardinality(1..n) = IF 1 > n THEN 0 ELSE n - 1 + 1
    BY FS_Interval
  <2>3. Cardinality(1..n) = n
    BY <2>2
  <2>4. IsFiniteSet({c}) /\ Cardinality({c}) = 1
    BY FS_Singleton
  <2>5. Cardinality({c} \X (1..n)) = Cardinality({c}) * Cardinality(1..n)
    BY <2>2, <2>4, FS_Product
  <2>6. Units({c}, p, q) = {c} \X (1..n)
    <3>1. n <= MaxPerCall
      BY <2>1
    <3>2. \A i \in 1..MaxPerCall : i <= n <=> i \in 1..n
      OBVIOUS
    <3>3. 1..n \subseteq 1..MaxPerCall
      BY <1>1, <3>1
    <3>4. \A u \in {c} \X (1..MaxPerCall) : u[1] = c /\ u[2] \in 1..MaxPerCall
      OBVIOUS
    <3>5. \A u \in {c} \X (1..MaxPerCall) :
            p[u[1]] = "settled" /\ u[2] <= q[u[1]] <=> u \in {c} \X (1..n)
      BY <1>2, <2>1, <3>2, <3>4
    <3>6. {c} \X (1..n) \subseteq {c} \X (1..MaxPerCall)
      BY <3>3
    <3> QED
      BY <3>5, <3>6 DEF Units
  <2>7. Cardinality(Units({c}, p, q)) = n
    <3>1. 1 * n = n
      OBVIOUS
    <3> QED
      BY <2>3, <2>4, <2>5, <2>6, <3>1
  <2> QED
    BY <1>2, <2>1, <2>7
<1>3. CASE p[c] # "settled"
  <2>1. Units({c}, p, q) = {}
    BY <1>3 DEF Units
  <2> QED
    BY <1>3, <2>1, FS_EmptySet
<1> QED
  BY <1>2, <1>3

\* One call's units, and those of the others.
LEMMA UnitsApart ==
  ASSUME NEW C, IsFiniteSet(C), NEW c \in C, NEW p, NEW q
  PROVE  Cardinality(Units(C, p, q)) = Cardinality(Units({c}, p, q)) + Cardinality(Units(C \ {c}, p, q))
<1>1. IsFiniteSet(C \ {c}) /\ IsFiniteSet({c})
  BY FS_Subset, FS_Singleton
<1>2. /\ IsFiniteSet(Units(C \ {c}, p, q)) /\ Cardinality(Units(C \ {c}, p, q)) \in Nat
      /\ IsFiniteSet(Units({c}, p, q)) /\ Cardinality(Units({c}, p, q)) \in Nat
  BY <1>1, UnitsFit
<1>3. Units(C, p, q) = Units({c}, p, q) \cup Units(C \ {c}, p, q)
  BY DEF Units
<1>4. Units({c}, p, q) \cap Units(C \ {c}, p, q) = {}
  BY DEF Units
<1>5. Cardinality(Units({c}, p, q) \cap Units(C \ {c}, p, q)) = 0
  BY <1>4, FS_EmptySet
<1>6. Cardinality(Units({c}, p, q) \cup Units(C \ {c}, p, q))
        = Cardinality(Units({c}, p, q)) + Cardinality(Units(C \ {c}, p, q))
          - Cardinality(Units({c}, p, q) \cap Units(C \ {c}, p, q))
  BY <1>2, FS_Union
<1> QED
  BY <1>2, <1>3, <1>5, <1>6

\* Calls whose price and settlement stay the same.
LEMMA UnitsSame ==
  ASSUME NEW C, NEW p, NEW q, NEW r, NEW s,
         \A b \in C : s[b] = q[b] /\ (r[b] = "settled" <=> p[b] = "settled")
  PROVE  Units(C, r, s) = Units(C, p, q)
<1>1. \A u \in C \X (1..MaxPerCall) : u[1] \in C
  OBVIOUS
<1> QED
  BY <1>1 DEF Units

\* The bound follows: what is due is part of the room of the calls that are paying.
LEMMA BoundHolds == ClientInv /\ Tallied /\ BoundInv /\ DueInv => OverrunBounded
<1> SUFFICES ASSUME ClientInv, Tallied, BoundInv, DueInv PROVE OverrunBounded
  OBVIOUS
<1>1. totalSpent \in Nat /\ peak \in Nat /\ quote \in [Calls -> Nat] /\ MaxTotal \in Nat
      /\ settled \in Nat /\ unheard \in Nat
  BY ClientAssumption DEF ClientInv, HeldTyped, ServerTyped, LocalsTyped, Tallied
<1>2. Room(unheard) \in Int /\ Room(peak - 1) \in Int /\ Room(0) = 0
  <2>1. Room(0) = 0
    BY ClientAssumption DEF Room
  <2>2. unheard \in Int /\ peak - 1 \in Int
    BY <1>1
  <2> QED
    BY <2>1, <2>2, RoomStep
<1>3. Due \in Nat /\ Due <= Room(Paid)
  BY PaidNat, UnitsFit DEF Due, Paid
<1>4. Paid \in Nat /\ Room(Paid) \in Int
  BY PaidNat, RoomStep
<1>5. CASE peak = 0
  <2>1. Paid = 0 /\ totalSpent = 0
    BY <1>4, <1>5 DEF BoundInv
  <2>2. settled <= MaxTotal + Room(unheard)
    BY <1>1, <1>2, <1>3, <2>1 DEF DueInv
  <2> QED
    BY <1>1, <1>5, <2>2 DEF OverrunBounded, Room
<1>6. CASE peak > 0
  <2>1. totalSpent + Due <= MaxTotal + Room(peak - 1)
    <3>1. CASE totalSpent + Room(Paid) <= MaxTotal + Room(peak - 1)
      BY <1>1, <1>2, <1>3, <1>4, <3>1
    <3>2. ASSUME NEW c \in Payers,
                 totalSpent + quote[c] + Room(Paid - 1) <= MaxTotal + Room(peak - 1)
          PROVE  totalSpent + Due <= MaxTotal + Room(peak - 1)
      <4>1. quote[c] \in Nat /\ quote[c] <= MaxPerCall
        BY <1>1 DEF Payers, BoundInv
      <4>2. Cardinality(Units({c}, pc, quote)) \in Nat /\ Cardinality(Units({c}, pc, quote)) <= quote[c]
        BY <4>1, UnitsOfOne
      <4>3. IsFiniteSet(Payers \ {c}) /\ Cardinality(Payers \ {c}) = Paid - 1
        BY PaidNat, FS_RemoveElement DEF Paid
      <4>4. /\ Cardinality(Units(Payers \ {c}, pc, quote)) \in Nat
            /\ Cardinality(Units(Payers \ {c}, pc, quote)) <= Room(Paid - 1)
        BY <4>3, UnitsFit
      <4>5. Due = Cardinality(Units({c}, pc, quote)) + Cardinality(Units(Payers \ {c}, pc, quote))
        BY PaidNat, UnitsApart DEF Due
      <4>6. Due <= quote[c] + Room(Paid - 1) /\ Room(Paid - 1) \in Int
        <5>1. Room(Paid - 1) \in Int
          BY <1>4, RoomStep
        <5> QED
          BY <4>1, <4>2, <4>4, <4>5, <5>1
      <4> QED
        BY <1>1, <1>2, <1>3, <3>2, <4>1, <4>6
    <3> QED
      BY <1>6, <3>1, <3>2, RoomLeft
  <2>2. settled <= MaxTotal + Room(peak - 1) + Room(unheard)
    BY <1>1, <1>2, <1>3, <2>1 DEF DueInv
  <2>3. Room(peak - 1) + Room(unheard) = ((peak - 1) + unheard) * MaxPerCall
    BY <1>1, ClientAssumption DEF Room
  <2> QED
    BY <1>1, <1>2, <1>6, <2>2, <2>3 DEF OverrunBounded
<1> QED
  BY <1>1, <1>5, <1>6

\* A step that neither starts nor ends a payment.
LEMMA BoundKeeps ==
  ASSUME BoundInv, Payers' = Payers, UNCHANGED <<totalSpent, peak>>,
         \A c \in Payers : quote'[c] = quote[c]
  PROVE  BoundInv'
<1>1. Paid' = Paid
  BY DEF Paid
<1> QED
  BY <1>1 DEF BoundInv, Room

\* A payment ends, and is counted or not.
LEMMA BoundEnds ==
  ASSUME ClientInv, BoundInv, NEW c \in Payers, Payers' = Payers \ {c}, peak' = peak,
         totalSpent' \in {totalSpent, totalSpent + quote[c]},
         \A b \in Payers \ {c} : quote'[b] = quote[b]
  PROVE  BoundInv'
<1>1. totalSpent \in Nat /\ peak \in Nat /\ MaxTotal \in Nat /\ MaxPerCall \in Nat
      /\ \A b \in Payers : quote[b] \in Nat
  BY ClientAssumption DEF ClientInv, HeldTyped, ServerTyped, LocalsTyped, Payers
<1>2. Paid \in Nat /\ Paid >= 1
  BY PaidNat
<1>3. Paid' = Paid - 1
  BY PaidNat, FS_RemoveElement DEF Paid
<1>4. peak > 0 /\ quote[c] <= MaxPerCall /\ totalSpent' \in Nat /\ totalSpent' <= totalSpent + quote[c]
  BY <1>1, <1>2 DEF BoundInv
<1>5. /\ Room(peak - 1 - Paid') = Room(peak - Paid) /\ Room(peak - Paid) \in Int
      /\ Room(peak - Paid) = Room(peak - 1 - Paid) + MaxPerCall /\ Room(peak - 1 - Paid) \in Int
      /\ Room(peak - Paid') = Room(peak - Paid) + MaxPerCall
  <2>1. peak - 1 - Paid' = peak - Paid /\ peak - Paid = (peak - 1 - Paid) + 1
        /\ peak - Paid' = (peak - Paid) + 1 /\ peak - 1 - Paid \in Int /\ peak - Paid \in Int
    BY <1>1, <1>2, <1>3
  <2>2. Room(peak - 1 - Paid) \in Int /\ Room((peak - 1 - Paid) + 1) = Room(peak - 1 - Paid) + MaxPerCall
    BY <2>1, RoomStep
  <2>3. Room(peak - Paid) \in Int /\ Room((peak - Paid) + 1) = Room(peak - Paid) + MaxPerCall
    BY <2>1, RoomStep
  <2> QED
    BY <2>1, <2>2, <2>3
<1> DEFINE Fits == \/ totalSpent' <= MaxTotal + Room(peak - 1 - Paid')
                   \/ \E b \in Payers' : totalSpent' + quote'[b] <= MaxTotal + Room(peak - Paid')
<1>6. Fits
  <2>1. CASE totalSpent <= MaxTotal + Room(peak - 1 - Paid)
    BY <1>1, <1>4, <1>5, <2>1
  <2>2. ASSUME NEW b \in Payers, totalSpent + quote[b] <= MaxTotal + Room(peak - Paid)
        PROVE  Fits
    <3>1. CASE b = c
      BY <1>1, <1>4, <1>5, <2>2, <3>1
    <3>2. CASE b # c
      <4>1. b \in Payers' /\ quote'[b] = quote[b] /\ quote[b] \in Nat
        BY <1>1, <3>2
      <4>2. totalSpent' + quote[b] <= MaxTotal + Room(peak - Paid')
        BY <1>1, <1>4, <1>5, <2>2, <4>1
      <4> QED
        BY <4>1, <4>2
    <3> QED
      BY <3>1, <3>2
  <2> QED
    BY <1>4, <2>1, <2>2 DEF BoundInv
<1>7. \A b \in Payers' : quote'[b] <= MaxPerCall /\ quote'[b] <= MaxTotal
  BY DEF BoundInv
<1>8. Paid' <= peak'
  BY <1>1, <1>2, <1>3 DEF BoundInv
<1>9. Room(peak - 1 - Paid)' = Room(peak - 1 - Paid') /\ Room(peak - Paid)' = Room(peak - Paid')
  BY DEF Room
<1> QED
  BY <1>4, <1>6, <1>7, <1>8, <1>9 DEF BoundInv

\* Only StartPaying, ReturnPaid, PaymentFails and ResetSpending touch the bound.
LEMMA BoundStep ==
  ASSUME ClientInv, BoundInv, [Next]_vars PROVE BoundInv'
<1>1. pc \in [Callers -> {"idle"} \cup Active \cup Over]
  BY DEF ClientInv, LocalsTyped
<1>2. Payers \subseteq Calls /\ Calls \subseteq Callers /\ Calls \cap Closes = {}
  BY ClientAssumption DEF Payers, Callers
<1>3. \* A caller that is not paying goes on to something else than paying.
      ASSUME NEW b \in Callers, NEW l, Goto(b, l), pc[b] \notin Paying, l \notin Paying
      PROVE  Payers' = Payers
  BY <1>1, <1>2, <1>3 DEF Goto, Payers
<1>4. \* A call of callTool that is not paying.
      ASSUME NEW c \in Calls, NEW l, Goto(c, l), pc[c] \notin Paying, l \notin Paying,
             quote' = quote \/ \E p \in Nat : quote' = [quote EXCEPT ![c] = p],
             UNCHANGED <<totalSpent, peak>>
      PROVE  BoundInv'
  <2>1. Payers' = Payers
    BY <1>2, <1>3, <1>4
  <2>2. \A b \in Payers : b # c
    BY <1>4 DEF Payers
  <2>3. \A b \in Payers : quote'[b] = quote[b]
    BY <1>2, <1>4, <2>2 DEF ClientInv, LocalsTyped
  <2> QED
    BY <1>4, <2>1, <2>3, BoundKeeps
<1>5. ASSUME NEW c \in Calls,
             \/ \E t \in Tools : CallTool(c, t)
             \/ ServeUnpaid(c) \/ AskForPayment(c) \/ ReturnUnpaid(c) \/ RequestFails(c)
             \/ Refuse(c)
      PROVE  BoundInv'
  <2>1. /\ pc[c] \notin Paying
        /\ \E l \in {"asked", "served", "challenged", "returned", "threw"} : Goto(c, l)
        /\ quote' = quote \/ \E p \in Nat : quote' = [quote EXCEPT ![c] = p]
        /\ UNCHANGED <<totalSpent, peak>>
    BY <1>5, ClientAssumption
    DEF CallTool, Begin, ServeUnpaid, AskForPayment, ReturnUnpaid, RequestFails, Refuse, Return,
        Paying, client, history
  <2>2. \A l \in {"asked", "served", "challenged", "returned", "threw"} : l \notin Paying
    BY DEF Paying
  <2> QED
    BY <1>4, <2>1, <2>2
<1>6. ASSUME NEW c \in Calls, StartPaying(c) PROVE BoundInv'
  <2>1. /\ pc[c] = "challenged" /\ Goto(c, "paying") /\ UNCHANGED <<totalSpent, quote>>
        /\ quote[c] <= MaxPerCall /\ totalSpent + quote[c] <= MaxTotal
        /\ peak' = IF Paid >= peak THEN Paid + 1 ELSE peak
    BY <1>6 DEF StartPaying, WithinCaps, locals, Paid
  <2>2. totalSpent \in Nat /\ quote[c] \in Nat /\ peak \in Nat /\ MaxTotal \in Nat /\ Paid \in Nat
    BY ClientAssumption, PaidNat DEF ClientInv, HeldTyped, ServerTyped, LocalsTyped
  <2>3. Payers' = Payers \cup {c} /\ c \notin Payers
    BY <1>1, <1>2, <2>1 DEF Goto, Payers, Paying
  <2>4. Paid' = Paid + 1
    BY <2>3, PaidNat, FS_AddElement DEF Paid
  <2>5. peak' \in Nat /\ peak' > 0 /\ Paid' <= peak'
    BY <2>1, <2>2, <2>4
  <2>6. Room(peak' - Paid') \in Int /\ Room(peak' - Paid') >= 0
    <3>1. Room(0) = 0
      BY ClientAssumption DEF Room
    <3> QED
      BY <2>2, <2>4, <2>5, <3>1, RoomStep, RoomGrows
  <2>7. totalSpent' + quote'[c] <= MaxTotal + Room(peak' - Paid')
    BY <2>1, <2>2, <2>6
  <2>8. \A b \in Payers' : quote'[b] <= MaxPerCall /\ quote'[b] <= MaxTotal
    BY <2>1, <2>2, <2>3 DEF BoundInv
  <2>9. Room(peak - Paid)' = Room(peak' - Paid')
    BY DEF Room
  <2> QED
    BY <2>2, <2>3, <2>5, <2>7, <2>8, <2>9 DEF BoundInv
<1>7. ASSUME NEW c \in Calls, Sign(c) \/ Settle(c) PROVE BoundInv'
  <2>1. /\ pc[c] \in Paying /\ UNCHANGED <<totalSpent, quote, peak>>
        /\ \E l \in Paying : Goto(c, l)
    BY <1>7 DEF Sign, Settle, Paying, client, locals, history
  <2>2. Payers' = Payers
    BY <1>1, <1>2, <2>1 DEF Goto, Payers
  <2> QED
    BY <2>1, <2>2, BoundKeeps
<1>8. ASSUME NEW c \in Calls, ReturnPaid(c) \/ PaymentFails(c) PROVE BoundInv'
  <2>1. /\ pc[c] \in Paying /\ peak' = peak /\ totalSpent' \in {totalSpent, totalSpent + quote[c]}
        /\ quote' = [quote EXCEPT ![c] = 0] /\ \E l \in Over : Goto(c, l)
    BY <1>8 DEF ReturnPaid, PaymentFails, Return, Paying, Over, history
  <2>2. c \in Payers /\ Payers' = Payers \ {c}
    BY <1>1, <1>2, <2>1 DEF Goto, Payers, Paying, Over
  <2>3. \A b \in Payers \ {c} : quote'[b] = quote[b]
    BY <1>2, <2>1 DEF ClientInv, LocalsTyped
  <2> QED
    BY <2>1, <2>2, <2>3, BoundEnds
<1>9. ASSUME NEW d \in Closes,
             \/ \E t \in Tools : CloseSession(d, t)
             \/ CloseThere(d) \/ CloseReturns(d) \/ CloseFails(d) \/ Verify(d)
      PROVE  BoundInv'
  <2>1. /\ pc[d] \notin Paying
        /\ \E l \in {"noChannel", "closing", "closed there", "threw", "verifying", "closed"} : Goto(d, l)
        /\ UNCHANGED <<totalSpent, quote, peak>>
    BY <1>9 DEF CloseSession, Begin, CloseThere, CloseReturns, CloseFails, Verify, Paying,
                client, locals, history
  <2>2. \A l \in {"noChannel", "closing", "closed there", "threw", "verifying", "closed"} : l \notin Paying
    BY DEF Paying
  <2>3. Payers' = Payers
    BY <1>3, <2>1, <2>2 DEF Callers
  <2> QED
    BY <2>1, <2>3, BoundKeeps
<1>10. CASE ResetSpending
  <2>1. totalSpent' = 0 /\ UNCHANGED <<pc, quote, peak>>
    BY <1>10 DEF ResetSpending, locals, history
  <2>2. Payers' = Payers /\ Paid' = Paid
    BY <2>1 DEF Payers, Paid
  <2>3. peak \in Nat /\ MaxTotal \in Nat /\ quote \in [Calls -> Nat] /\ Paid \in Nat
    BY ClientAssumption, PaidNat DEF ClientInv, ServerTyped, LocalsTyped
  <2>4. Room(0) = 0
    BY ClientAssumption DEF Room
  <2>5. CASE Payers = {}
    <3>1. Paid = 0
      BY <2>5, PaidNat
    <3>2. peak > 0 => Room(peak - 1 - Paid) >= 0 /\ Room(peak - 1 - Paid) \in Int
      BY <2>3, <2>4, <3>1, RoomStep, RoomGrows
    <3>3. Room(peak - 1 - Paid)' = Room(peak - 1 - Paid)
      BY <2>1, <2>2 DEF Room
    <3> QED
      BY <2>1, <2>2, <2>3, <3>2, <3>3 DEF BoundInv
  <2>6. ASSUME NEW c \in Payers PROVE BoundInv'
    <3>1. quote[c] \in Nat /\ quote[c] <= MaxTotal
      BY <2>3 DEF BoundInv, Payers
    <3>2. Room(peak - Paid) >= 0 /\ Room(peak - Paid) \in Int
      BY <2>3, <2>4, RoomStep, RoomGrows DEF BoundInv
    <3>3. totalSpent' + quote'[c] <= MaxTotal + Room(peak - Paid)
      BY <2>1, <2>3, <3>1, <3>2
    <3>4. Room(peak - Paid)' = Room(peak - Paid)
      BY <2>1, <2>2 DEF Room
    <3> QED
      BY <2>1, <2>2, <3>3, <3>4 DEF BoundInv
  <2> QED
    BY <2>5, <2>6
<1>11. CASE (\E T \in SUBSET Tools : ClearAccessKeys(T)) \/ (\E k \in Keys : Expire(k)) \/ UNCHANGED vars
  <2>1. UNCHANGED <<totalSpent, pc, quote, peak>>
    BY <1>11 DEF ClearAccessKeys, Expire, vars, client, locals, history
  <2> QED
    BY <2>1, BoundKeeps DEF Payers
<1>12. \A T \in {{t} : t \in Tools} \cup {Tools} : T \in SUBSET Tools
  OBVIOUS
<1> QED
  BY <1>5, <1>6, <1>7, <1>8, <1>9, <1>10, <1>11, <1>12 DEF Next

LEMMA BoundInit == Init => BoundInv
<1> SUFFICES ASSUME Init PROVE BoundInv
  OBVIOUS
<1>1. Payers = {}
  BY DEF Init, Payers, Paying, Callers
<1> QED
  BY <1>1, PaidNat DEF Init, BoundInv

\* A step that settles nothing and ends nothing that is settled.
LEMMA DueKeeps ==
  ASSUME DueInv, Payers' = Payers, UNCHANGED <<totalSpent, settled, unheard>>,
         \A c \in Payers : quote'[c] = quote[c] /\ (pc'[c] = "settled" <=> pc[c] = "settled")
  PROVE  DueInv'
<1>1. Units(Payers, pc', quote') = Units(Payers, pc, quote)
  BY UnitsSame
<1>2. Due' = Due
  BY <1>1 DEF Due, Units
<1>3. Room(unheard)' = Room(unheard)
  BY DEF Room
<1> QED
  BY <1>2, <1>3 DEF DueInv

\* A payment that is settled becomes due; one that ends is counted, or not heard of.
LEMMA DueMoves ==
  ASSUME ClientInv, Tallied, BoundInv, DueInv, NEW c \in Calls,
         \/ StartPaying(c) \/ Settle(c) \/ ReturnPaid(c) \/ PaymentFails(c)
  PROVE  DueInv'
<1>1. pc \in [Callers -> {"idle"} \cup Active \cup Over] /\ quote \in [Calls -> Nat]
      /\ totalSpent \in Nat /\ settled \in Nat /\ unheard \in Nat /\ c \in Callers /\ MaxPerCall \in Nat
  BY ClientAssumption DEF ClientInv, LocalsTyped, HeldTyped, Tallied, Callers
<1>2. Payers \subseteq Calls /\ Payers \subseteq Callers /\ IsFiniteSet(Payers)
  BY PaidNat DEF Payers, Callers
<1> DEFINE Rest == Units(Payers \ {c}, pc, quote)
           One == Cardinality(Units({c}, pc, quote))
<1>3. Cardinality(Rest) \in Nat /\ IsFiniteSet(Payers \ {c})
  BY <1>2, FS_Subset, UnitsFit
<1>4. quote[c] \in Nat /\ Due \in Nat
  BY <1>1, <1>2, UnitsFit DEF Due
<1>5. c \in Payers => /\ quote[c] <= MaxPerCall
                      /\ One = IF pc[c] = "settled" THEN quote[c] ELSE 0
                      /\ Due = One + Cardinality(Rest)
  <2> SUFFICES ASSUME c \in Payers
               PROVE  /\ quote[c] <= MaxPerCall
                      /\ One = IF pc[c] = "settled" THEN quote[c] ELSE 0
                      /\ Due = One + Cardinality(Rest)
    OBVIOUS
  <2>1. quote[c] <= MaxPerCall
    BY DEF BoundInv
  <2>2. One = IF pc[c] = "settled" THEN quote[c] ELSE 0
    BY <1>4, <2>1, UnitsOfOne
  <2> QED
    BY <1>2, <2>1, <2>2, UnitsApart DEF Due
<1>6. \A n \in Nat : Room(n) \in Int /\ Room(n + 1) = Room(n) + MaxPerCall
  BY RoomStep
<1>7. \A n \in Nat : unheard' = n => Room(unheard)' = Room(n)
  BY DEF Room
<1>8. CASE StartPaying(c)
  <2>1. /\ pc[c] = "challenged" /\ pc' = [pc EXCEPT ![c] = "paying"]
        /\ UNCHANGED <<totalSpent, quote, settled, unheard>>
    BY <1>8 DEF StartPaying, Goto, locals
  <2>2. Payers' = Payers \cup {c} /\ c \notin Payers
    BY <1>1, <2>1 DEF Payers, Paying, Callers
  <2>3. Units(Payers, pc', quote') = Units(Payers, pc, quote)
    <3>1. \A b \in Payers : quote'[b] = quote[b] /\ (pc'[b] = "settled" <=> pc[b] = "settled")
      BY <1>1, <1>2, <2>1, <2>2
    <3> QED
      BY <3>1, UnitsSame
  <2>4. Units(Payers', pc', quote') = Units(Payers, pc', quote')
    <3>1. pc'[c] # "settled"
      BY <1>1, <2>1
    <3> QED
      BY <2>2, <3>1 DEF Units
  <2>5. Due' = Due
    BY <2>3, <2>4 DEF Due, Units
  <2> QED
    BY <1>1, <1>7, <2>1, <2>5 DEF DueInv
<1>9. CASE Settle(c)
  <2>1. /\ pc[c] = "signed" /\ pc' = [pc EXCEPT ![c] = "settled"] /\ settled' = settled + quote[c]
        /\ UNCHANGED <<totalSpent, quote, unheard>>
    BY <1>9 DEF Settle, Goto, client
  <2>2. Payers' = Payers /\ c \in Payers
    BY <1>1, <2>1 DEF Payers, Paying, Callers
  <2>3. Units(Payers \ {c}, pc', quote') = Rest
    <3>1. \A b \in Payers \ {c} : quote'[b] = quote[b] /\ (pc'[b] = "settled" <=> pc[b] = "settled")
      BY <1>1, <1>2, <2>1
    <3> QED
      BY <3>1, UnitsSame
  <2>4. Cardinality(Units({c}, pc', quote')) = quote[c]
    <3>1. pc'[c] = "settled" /\ quote'[c] = quote[c]
      BY <1>1, <2>1
    <3>2. quote'[c] \in Nat /\ quote'[c] <= MaxPerCall
      BY <1>4, <1>5, <2>2, <3>1
    <3> QED
      BY <3>1, <3>2, UnitsOfOne
  <2>5. Due' = quote[c] + Cardinality(Rest)
    <3>1. Cardinality(Units(Payers, pc', quote'))
            = Cardinality(Units({c}, pc', quote')) + Cardinality(Units(Payers \ {c}, pc', quote'))
      BY <1>2, <2>2, UnitsApart
    <3> QED
      BY <2>2, <2>3, <2>4, <3>1 DEF Due, Units
  <2>6. Due = Cardinality(Rest)
    BY <1>3, <1>5, <2>1, <2>2
  <2>7. Room(unheard)' = Room(unheard) /\ Room(unheard) \in Int
    BY <1>1, <1>6, <1>7, <2>1
  <2> QED
    BY <1>1, <1>3, <1>4, <2>1, <2>5, <2>6, <2>7 DEF DueInv
<1>10. CASE ReturnPaid(c) \/ PaymentFails(c)
  <2>1. /\ pc[c] \in Paying /\ quote' = [quote EXCEPT ![c] = 0] /\ settled' = settled
        /\ \E l \in Over : pc' = [pc EXCEPT ![c] = l]
        /\ \/ totalSpent' = totalSpent + quote[c] /\ unheard' = unheard
           \/ totalSpent' = totalSpent /\ unheard' = unheard + 1
           \/ pc[c] # "settled" /\ totalSpent' = totalSpent /\ unheard' = unheard
    BY <1>10 DEF ReturnPaid, PaymentFails, Return, Goto, Paying, Over
  <2>2. c \in Payers /\ Payers' = Payers \ {c}
    BY <1>1, <2>1 DEF Payers, Paying, Over, Callers
  <2>3. Units(Payers \ {c}, pc', quote') = Rest
    <3>1. \A b \in Payers \ {c} : quote'[b] = quote[b] /\ (pc'[b] = "settled" <=> pc[b] = "settled")
      BY <1>1, <1>2, <2>1
    <3> QED
      BY <3>1, UnitsSame
  <2>4. Due' = Cardinality(Rest)
    BY <2>2, <2>3 DEF Due, Units
  <2>5. PICK one \in Nat, rest \in Nat : one = One /\ rest = Cardinality(Rest)
    BY <1>3, <1>4, <1>5, <2>2
  <2>6. /\ Due = one + rest /\ Due' = rest /\ one <= quote[c] /\ one <= MaxPerCall
        /\ (pc[c] # "settled" => one = 0)
    BY <1>1, <1>4, <1>5, <2>2, <2>4, <2>5
  <2>7. PICK room \in Int : room = Room(unheard)
    BY <1>1, <1>6
  <2>8. settled <= totalSpent + (one + rest) + room
    BY <2>6, <2>7 DEF DueInv
  <2>9. CASE unheard' = unheard
    <3>1. Room(unheard)' = room
      BY <1>1, <1>7, <2>7, <2>9
    <3>2. totalSpent' \in Nat /\ totalSpent' >= totalSpent + one
      <4>1. \/ totalSpent' = totalSpent + quote[c]
            \/ pc[c] # "settled" /\ totalSpent' = totalSpent
        BY <1>1, <2>1, <2>9
      <4> QED
        BY <1>1, <1>4, <2>5, <2>6, <4>1
    <3>3. settled' = settled /\ settled \in Nat /\ totalSpent \in Nat
      BY <1>1, <2>1
    <3>4. \A s, t, u \in Nat : s <= t + (one + rest) + room /\ u >= t + one => s <= u + rest + room
      OBVIOUS
    <3>5. settled' <= totalSpent' + rest + room
      BY <2>8, <3>2, <3>3, <3>4
    <3> QED
      BY <2>6, <3>1, <3>5 DEF DueInv
  <2>10. CASE unheard' = unheard + 1
    <3>1. Room(unheard)' = room + MaxPerCall
      BY <1>1, <1>6, <1>7, <2>7, <2>10
    <3>2. totalSpent' = totalSpent
      BY <1>1, <2>1, <2>10
    <3>3. settled' <= totalSpent' + rest + (room + MaxPerCall)
      BY <1>1, <2>1, <2>6, <2>8, <3>2
    <3> QED
      BY <2>6, <3>1, <3>3 DEF DueInv
  <2> QED
    BY <2>1, <2>9, <2>10
<1> QED
  BY <1>8, <1>9, <1>10

LEMMA DueStep ==
  ASSUME ClientInv, Tallied, BoundInv, DueInv, [Next]_vars PROVE DueInv'
<1>1. pc \in [Callers -> {"idle"} \cup Active \cup Over] /\ quote \in [Calls -> Nat]
      /\ Payers \subseteq Calls /\ Calls \subseteq Callers /\ Calls \cap Closes = {}
  BY ClientAssumption DEF ClientInv, LocalsTyped, Payers, Callers
<1>2. \* Steps of a caller that is not paying, nor will be, or signs.
      ASSUME NEW b \in Callers, NEW l, Goto(b, l), UNCHANGED <<totalSpent, settled, unheard>>,
             quote' = quote \/ \E p \in Nat : quote' = [quote EXCEPT ![b] = p],
             \/ pc[b] \notin Paying /\ l \notin Paying
             \/ pc[b] = "paying" /\ l = "signed" /\ quote' = quote
      PROVE  DueInv'
  <2>1. \A c \in Callers : c # b => pc'[c] = pc[c]
    BY <1>1, <1>2 DEF Goto
  <2>2. pc'[b] = l
    BY <1>1, <1>2 DEF Goto
  <2>3. Payers' = Payers
    BY <1>1, <1>2, <2>1, <2>2 DEF Payers, Paying
  <2>4. \A c \in Payers : quote'[c] = quote[c]
    BY <1>1, <1>2 DEF Payers
  <2>5. \A c \in Payers : pc'[c] = "settled" <=> pc[c] = "settled"
    BY <1>1, <1>2, <2>1, <2>2 DEF Payers, Paying
  <2> QED
    BY <1>2, <2>3, <2>4, <2>5, DueKeeps
<1>3. ASSUME NEW c \in Calls,
             \/ \E t \in Tools : CallTool(c, t)
             \/ ServeUnpaid(c) \/ AskForPayment(c) \/ ReturnUnpaid(c) \/ RequestFails(c)
             \/ Refuse(c)
      PROVE  DueInv'
  <2>1. /\ pc[c] \notin Paying
        /\ \E l \in {"asked", "served", "challenged", "returned", "threw"} : Goto(c, l)
        /\ quote' = quote \/ \E p \in Nat : quote' = [quote EXCEPT ![c] = p]
        /\ UNCHANGED <<totalSpent, settled, unheard>>
    BY <1>3, ClientAssumption
    DEF CallTool, Begin, ServeUnpaid, AskForPayment, ReturnUnpaid, RequestFails, Refuse, Return,
        Paying, client, history
  <2>2. \A l \in {"asked", "served", "challenged", "returned", "threw"} : l \notin Paying
    BY DEF Paying
  <2> QED
    BY <1>1, <1>2, <2>1, <2>2
<1>4. ASSUME NEW c \in Calls, Sign(c) PROVE DueInv'
  <2>1. /\ pc[c] = "paying" /\ Goto(c, "signed")
        /\ UNCHANGED <<totalSpent, quote, settled, unheard>>
    BY <1>4 DEF Sign, locals, history
  <2> QED
    BY <1>1, <1>2, <2>1
<1>5. ASSUME NEW c \in Calls, StartPaying(c) \/ Settle(c) \/ ReturnPaid(c) \/ PaymentFails(c)
      PROVE  DueInv'
  BY <1>5, DueMoves
<1>6. ASSUME NEW d \in Closes,
             \/ \E t \in Tools : CloseSession(d, t)
             \/ CloseThere(d) \/ CloseReturns(d) \/ CloseFails(d) \/ Verify(d)
      PROVE  DueInv'
  <2>1. /\ pc[d] \notin Paying
        /\ \E l \in {"noChannel", "closing", "closed there", "threw", "verifying", "closed"} : Goto(d, l)
        /\ UNCHANGED <<totalSpent, quote, settled, unheard>>
    BY <1>6 DEF CloseSession, Begin, CloseThere, CloseReturns, CloseFails, Verify, Paying,
                client, locals, history
  <2>2. \A l \in {"noChannel", "closing", "closed there", "threw", "verifying", "closed"} : l \notin Paying
    BY DEF Paying
  <2>3. d \in Callers
    BY DEF Callers
  <2> QED
    BY <1>2, <2>1, <2>2, <2>3
<1>7. CASE ResetSpending
  <2>1. totalSpent' = 0 /\ settled' = 0 /\ unheard' = 0 /\ UNCHANGED <<pc, quote>>
    BY <1>7 DEF ResetSpending, locals
  <2>2. Due' = Due /\ Due \in Nat
    <3>1. Payers' = Payers
      BY <2>1 DEF Payers
    <3> QED
      BY <2>1, <3>1, PaidNat, UnitsFit DEF Due, Units
  <2>3. Room(unheard)' = 0
    BY <2>1, ClientAssumption DEF Room
  <2> QED
    BY <2>1, <2>2, <2>3 DEF DueInv
<1>8. CASE (\E T \in SUBSET Tools : ClearAccessKeys(T)) \/ (\E k \in Keys : Expire(k)) \/ UNCHANGED vars
  <2>1. UNCHANGED <<totalSpent, pc, quote, settled, unheard>>
    BY <1>8 DEF ClearAccessKeys, Expire, vars, client, locals, history
  <2> QED
    BY <2>1, DueKeeps DEF Payers
<1>9. \A T \in {{t} : t \in Tools} \cup {Tools} : T \in SUBSET Tools
  OBVIOUS
<1> QED
  BY <1>3, <1>4, <1>5, <1>6, <1>7, <1>8, <1>9 DEF Next

LEMMA DueInit == Init => DueInv
<1> SUFFICES ASSUME Init PROVE DueInv
  OBVIOUS
<1>1. Due \in Nat
  BY PaidNat, UnitsFit DEF Due
<1>2. Room(0) = 0
  BY ClientAssumption DEF Room
<1> QED
  BY <1>1, <1>2 DEF Init, DueInv

\* What is settled overruns the cap by a bounded amount: a call checks the cap before
\* it pays and counts after, so that only the others that are paying can have come
\* between, and what was never counted.
THEOREM OverrunIsBounded == Spec => []OverrunBounded
<1>1. Spec => []BoundInv
  BY AlwaysClient, BoundInit, BoundStep, PTL DEF Spec
<1>2. Spec => []DueInv
  BY <1>1, AlwaysClient, AlwaysTallied, DueInit, DueStep, PTL DEF Spec
<1> QED
  BY <1>1, <1>2, AlwaysClient, AlwaysTallied, BoundHolds, PTL

-----------------------------------------------------------------------------
(* The cache.                                                              *)

Live(k) == left[k] > 0 /\ k \notin expired

Caches(t, k) == accessKeys[t] # None /\ accessKeys[t].key = k

\* While a call is under way that names a tool with a live key in the cache, it carries
\* that key, its answer is about that key, and the server asks it for no new one.
HoldsOn(c) ==
  \A k \in Keys :
    Live(k) /\ Caches(toolOf[c], k) =>
      /\ pc[c] = "asked" => sentKey[c] = k
      /\ reply[c].view # None => reply[c].view.key = k
      /\ pc[c] \in {"challenged"} \cup Paying => Mode[toolOf[c]] # "key"

\* No answer yet, no view of a key.
RepliesInv ==
  \A c \in Calls :
    pc[c] \in {"idle", "asked", "challenged", "paying", "signed"} => reply[c].view = None

AloneInv ==
  ~overlapped =>
    /\ \A a, b \in Busy : a = b
    /\ \A k \in known : Live(k) => \E t \in Tools : Caches(t, k)
    /\ \A c \in Calls : pc[c] \in Active => HoldsOn(c)

CacheInv ==
  /\ RepliesInv
  /\ \A k \in known : left[k] # None
  /\ AloneInv

LEMMA CacheHolds == ClientInv /\ CacheInv => KeyCacheTrue
BY DEF ClientInv, KeysInv, CacheInv, AloneInv, Live, Caches, KeyCacheTrue

LEMMA InitCache == Init => CacheInv
<1> SUFFICES ASSUME Init PROVE CacheInv
  OBVIOUS
<1>1. RepliesInv
  BY DEF Init, RepliesInv, NoReply, Callers
<1>2. Busy = {} /\ \A c \in Calls : pc[c] \notin Active
  BY DEF Init, Busy, Active, Paying, Callers
<1> QED
  BY <1>1, <1>2 DEF Init, CacheInv, AloneInv

\* A cached key is sold, and so is a known one; so what is live after a step that sells
\* no such key was live before.
LEMMA LiveBefore ==
  ASSUME ClientInv, NEW k \in Keys, left[k] # None, Live(k)',
         expired \subseteq expired',
         left'[k] = left[k] \/ (left[k] > 0 /\ left'[k] = left[k] - 1)
  PROVE  Live(k)
BY DEF Live

LEMMA CachedIsSold ==
  ASSUME ClientInv, NEW t \in Tools, NEW k \in Keys, Caches(t, k)
  PROVE  left[k] # None
<1>1. accessKeys[t] \in View /\ left[k] \in 0..accessKeys[t].left
  BY DEF ClientInv, HeldTyped, KeysInv, Caches
<1>2. left[k] \in Nat
  BY <1>1 DEF View
<1> QED
  BY <1>2, ClientAssumption

\* A step that leaves the cache alone, and starts nothing.
LEMMA CacheKeeps ==
  ASSUME ClientInv, ClientInv', CacheInv, RepliesInv', UNCHANGED <<accessKeys, known, overlapped>>,
         Busy' \subseteq Busy, expired \subseteq expired',
         \A k \in Keys : left[k] # None =>
           left'[k] = left[k] \/ (left[k] > 0 /\ left'[k] = left[k] - 1),
         \A c \in Calls : pc'[c] \in Active => (HoldsOn(c) /\ ~overlapped => HoldsOn(c)')
  PROVE  CacheInv'
<1>1. known \subseteq Keys /\ \A k \in Keys : left[k] \in Nat \cup {None}
  BY DEF ClientInv, ServerTyped
<1>2. \A k \in known' : left'[k] # None
  <2>1. \A k \in known : left'[k] \in Nat
    BY <1>1 DEF CacheInv
  <2> QED
    BY <2>1, ClientAssumption
<1>3. \A k \in known : Live(k)' => Live(k)
  BY <1>1, LiveBefore DEF CacheInv
<1>4. ASSUME ~overlapped' PROVE /\ \A a, b \in Busy' : a = b
                                /\ \A k \in known' : Live(k)' => \E t \in Tools : Caches(t, k)'
  BY <1>3, <1>4 DEF CacheInv, AloneInv, Caches
<1>5. ASSUME ~overlapped', NEW c \in Calls, pc'[c] \in Active PROVE HoldsOn(c)'
  <2>1. c \in Busy
    BY <1>5 DEF Busy, Callers
  <2>2. HoldsOn(c)
    BY <1>5, <2>1 DEF CacheInv, AloneInv, Busy
  <2> QED
    BY <1>5, <2>2
<1>6. AloneInv'
  BY <1>4, <1>5 DEF AloneInv
<1> QED
  BY <1>2, <1>6 DEF CacheInv

\* A call starts: it drops the key of its tool, when that has expired, or carries it.
LEMMA CacheCall ==
  ASSUME ClientInv, ClientInv', CacheInv, NEW c \in Calls, NEW t \in Tools, CallTool(c, t)
  PROVE  CacheInv'
<1>1. /\ pc[c] = "idle" /\ pc' = [pc EXCEPT ![c] = "asked"] /\ toolOf' = [toolOf EXCEPT ![c] = t]
      /\ sentKey' = [sentKey EXCEPT ![c] = IF Usable(t) THEN accessKeys[t].key ELSE None]
      /\ accessKeys' = [accessKeys EXCEPT ![t] = IF Usable(t) THEN @ ELSE None]
      /\ overlapped' = (overlapped \/ Busy # {})
      /\ UNCHANGED <<reply, left, expired, known>>
  BY DEF CallTool, Begin, Goto, server
<1>2. /\ c \in Callers /\ pc \in [Callers -> {"idle"} \cup Active \cup Over]
      /\ toolOf \in [Callers -> Tools \cup {None}] /\ sentKey \in [Calls -> Keys \cup {None}]
      /\ accessKeys \in [Tools -> View \cup {None}]
  BY DEF Callers, ClientInv, LocalsTyped, HeldTyped
<1>3. RepliesInv'
  BY <1>1, <1>2 DEF CacheInv, RepliesInv, Callers
<1>4. ASSUME NEW k \in Keys, Live(k), Caches(t, k) PROVE Usable(t)
  BY <1>4 DEF Live, Caches, Usable, ClientInv, KeysInv
<1>5. ASSUME ~overlapped' PROVE /\ \A a, b \in Busy' : a = b
                                /\ \A k \in known' : Live(k)' => \E u \in Tools : Caches(u, k)'
                                /\ \A b \in Calls : pc'[b] \in Active => HoldsOn(b)'
  <2>1. ~overlapped /\ Busy = {}
    BY <1>1, <1>5
  <2>2. \A b \in Callers : pc'[b] \in Active => b = c
    BY <1>1, <1>2, <2>1 DEF Busy
  <2>3. \A a, b \in Busy' : a = b
    BY <2>2 DEF Busy
  <2>4. ASSUME NEW k \in known, Live(k)' PROVE \E u \in Tools : Caches(u, k)'
    <3>1. Live(k) /\ k \in Keys
      BY <1>1, <2>4 DEF Live, ClientInv, ServerTyped
    <3>2. PICK u \in Tools : Caches(u, k)
      BY <2>1, <3>1 DEF CacheInv, AloneInv
    <3>3. u = t => Usable(t)
      BY <1>4, <3>1, <3>2
    <3>4. accessKeys'[u] = accessKeys[u]
      BY <1>1, <1>2, <3>3
    <3> QED
      BY <3>2, <3>4 DEF Caches
  <2>5. HoldsOn(c)'
    <3> SUFFICES ASSUME NEW k \in Keys, Live(k)', Caches(toolOf[c], k)'
                 PROVE  /\ pc'[c] = "asked" => sentKey'[c] = k
                        /\ reply'[c].view # None => reply'[c].view.key = k
                        /\ pc'[c] \in {"challenged"} \cup Paying => Mode[toolOf'[c]] # "key"
      BY DEF HoldsOn
    <3>1. toolOf'[c] = t /\ pc'[c] = "asked" /\ reply'[c].view = None
      BY <1>1, <1>2, <1>3 DEF RepliesInv
    <3>2. accessKeys'[t] # None /\ accessKeys'[t].key = k
      BY <3>1 DEF Caches
    <3>3. Usable(t) /\ accessKeys'[t] = accessKeys[t]
      BY <1>1, <1>2, <3>2
    <3>4. sentKey'[c] = k
      BY <1>1, <1>2, <3>2, <3>3
    <3> QED
      BY <3>1, <3>4 DEF Paying
  <2> QED
    BY <1>1, <1>2, <2>2, <2>3, <2>4, <2>5 DEF Callers
<1>6. AloneInv'
  BY <1>5 DEF AloneInv
<1> QED
  BY <1>1, <1>6, <1>3 DEF CacheInv

\* A call moves on, with the cache as it is.
LEMMA CacheMoves ==
  ASSUME ClientInv, ClientInv', CacheInv, NEW c \in Calls,
         \/ ServeUnpaid(c) \/ AskForPayment(c) \/ StartPaying(c) \/ Sign(c) \/ Settle(c)
  PROVE  CacheInv'
<1>1. /\ UNCHANGED <<accessKeys, known, overlapped, toolOf, sentKey, expired>>
      /\ pc[c] \in Active
      /\ \E l \in Active : pc' = [pc EXCEPT ![c] = l]
  BY DEF ServeUnpaid, AskForPayment, StartPaying, Sign, Settle, Goto, client, locals, server, history,
         Active, Paying
<1>2. /\ c \in Callers /\ pc \in [Callers -> {"idle"} \cup Active \cup Over]
      /\ sentKey \in [Calls -> Keys \cup {None}] /\ left \in [Keys -> 0..KeyCap \cup {None}]
      /\ reply \in [Callers -> Reply]
  BY DEF Callers, ClientInv, LocalsTyped, ServerTyped
<1>3. Busy' = Busy /\ \A b \in Callers : b # c => pc'[b] = pc[b]
  BY <1>1, <1>2 DEF Busy
<1>4. /\ \A b \in Callers : b # c => reply'[b] = reply[b]
      /\ pc'[c] \in {"challenged", "paying", "signed"} => reply'[c] = reply[c]
      /\ pc'[c] \notin {"idle", "asked"}
      /\ pc'[c] = "challenged" => pc[c] = "asked"
      /\ pc'[c] = "paying" => pc[c] = "challenged"
      /\ pc'[c] = "signed" => pc[c] = "paying"
  BY <1>2 DEF ServeUnpaid, AskForPayment, StartPaying, Sign, Settle, Goto, locals
<1>5. RepliesInv'
  BY <1>2, <1>3, <1>4 DEF CacheInv, RepliesInv, Callers
<1>6. \A k \in Keys : left[k] # None => left'[k] = left[k] \/ (left[k] > 0 /\ left'[k] = left[k] - 1)
  BY <1>2 DEF ServeUnpaid, AskForPayment, StartPaying, Sign, Settle, Honoured, server
<1>7. \A b \in Calls : HoldsOn(b) /\ ~overlapped => (pc'[b] \in Active => HoldsOn(b)')
  <2> SUFFICES ASSUME NEW b \in Calls, HoldsOn(b), ~overlapped, NEW k \in Keys,
                      Live(k)', Caches(toolOf[b], k)', pc'[b] \in Active
               PROVE  /\ pc'[b] = "asked" => sentKey'[b] = k
                      /\ reply'[b].view # None => reply'[b].view.key = k
                      /\ pc'[b] \in {"challenged"} \cup Paying => Mode[toolOf'[b]] # "key"
    BY DEF HoldsOn
  <2>1. toolOf[b] \in Tools
    BY <1>1, <1>3 DEF ClientInv, LocalsTyped, Callers
  <2>2. Caches(toolOf[b], k) /\ Live(k)
    <3>1. Caches(toolOf[b], k)
      BY <1>1 DEF Caches
    <3> QED
      BY <1>1, <1>6, <2>1, <3>1, CachedIsSold, LiveBefore
  <2>3. CASE b # c
    BY <1>1, <1>3, <1>4, <2>2, <2>3 DEF HoldsOn, Callers
  <2>4. CASE b = c /\ ServeUnpaid(c)
    <3>1. pc[c] = "asked" /\ pc'[c] = "served" /\ sentKey[c] = k
      BY <1>2, <2>2, <2>4 DEF ServeUnpaid, Goto, HoldsOn
    <3>2. reply'[c].view = reply[c].view \/ reply'[c].view.key = sentKey[c]
      BY <1>2, <2>4 DEF ServeUnpaid, Reply
    <3> QED
      BY <2>2, <2>4, <3>1, <3>2 DEF HoldsOn, Paying
  <2>5. CASE b = c /\ AskForPayment(c)
    <3>1. pc[c] = "asked" /\ pc'[c] = "challenged" /\ sentKey[c] = k /\ reply'[c] = reply[c]
      BY <1>2, <2>2, <2>5 DEF AskForPayment, Goto, HoldsOn
    <3>2. k # None
      BY <2>2, <3>1, ClientAssumption
    <3>3. Mode[toolOf[c]] # "key"
      BY <2>2, <2>5, <3>1, <3>2 DEF AskForPayment, Honoured, Live
    <3> QED
      BY <1>1, <2>2, <2>5, <3>1, <3>3 DEF HoldsOn
  <2>6. CASE b = c /\ (StartPaying(c) \/ Sign(c))
    BY <1>1, <1>4, <2>2, <2>6 DEF StartPaying, Sign, locals, HoldsOn, Paying
  <2>7. CASE b = c /\ Settle(c)
    <3>1. pc[c] = "signed" /\ pc'[c] = "settled" /\ Mode[toolOf[c]] # "key"
      BY <1>2, <2>2, <2>7 DEF Settle, Goto, HoldsOn, Paying
    <3>2. reply'[c].view = reply[c].view
      BY <1>2, <2>7, <3>1 DEF Settle, Reply
    <3> QED
      BY <1>1, <2>2, <2>7, <3>1, <3>2 DEF HoldsOn
  <2> QED
    BY <2>3, <2>4, <2>5, <2>6, <2>7
<1> QED
  BY <1>1, <1>3, <1>5, <1>6, <1>7, CacheKeeps

\* A call ends, with the cache as it is.
LEMMA CacheLeaves ==
  ASSUME ClientInv, ClientInv', CacheInv, NEW c \in Calls,
         RequestFails(c) \/ Refuse(c) \/ PaymentFails(c)
  PROVE  CacheInv'
<1>1. /\ Return(c, "threw") /\ UNCHANGED <<accessKeys, known, overlapped, left, expired>>
  BY DEF RequestFails, Refuse, PaymentFails, client, server, history
<1>2. /\ c \in Callers /\ pc \in [Callers -> {"idle"} \cup Active \cup Over]
      /\ toolOf \in [Callers -> Tools \cup {None}] /\ reply \in [Callers -> Reply]
      /\ sentKey \in [Calls -> Keys \cup {None}]
  BY DEF Callers, ClientInv, LocalsTyped
<1>3. \A b \in Callers : b # c => /\ pc'[b] = pc[b] /\ toolOf'[b] = toolOf[b] /\ reply'[b] = reply[b]
                                  /\ b \in Calls => sentKey'[b] = sentKey[b]
  BY <1>1, <1>2 DEF Return, Goto
<1>4. pc'[c] = "threw"
  BY <1>1, <1>2 DEF Return, Goto
<1>5. Busy' \subseteq Busy /\ c \notin Busy'
  BY <1>3, <1>4 DEF Busy, Active, Paying
<1>6. RepliesInv'
  BY <1>3, <1>4 DEF CacheInv, RepliesInv, Callers
<1>7. ASSUME NEW b \in Calls, pc'[b] \in Active, HoldsOn(b) PROVE HoldsOn(b)'
  <2>1. b # c /\ b \in Callers
    BY <1>4, <1>7 DEF Active, Paying, Callers
  <2> QED
    BY <1>1, <1>3, <1>7, <2>1 DEF HoldsOn, Live, Caches
<1> QED
  BY <1>1, <1>5, <1>6, <1>7, CacheKeeps

\* A call comes back with the view of a key, or with none.
LEMMA CacheReturns ==
  ASSUME ClientInv, ClientInv', CacheInv, NEW c \in Calls, ReturnUnpaid(c) \/ ReturnPaid(c)
  PROVE  CacheInv'
<1> DEFINE t == toolOf[c]
           v == reply[c].view
<1>1. /\ Return(c, "returned") /\ Capture(t, v) /\ UNCHANGED <<overlapped, left, expired>>
      /\ pc[c] \in {"served", "settled"}
  BY DEF ReturnUnpaid, ReturnPaid, server
<1>2. /\ c \in Callers /\ pc \in [Callers -> {"idle"} \cup Active \cup Over]
      /\ toolOf \in [Callers -> Tools \cup {None}] /\ reply \in [Callers -> Reply]
      /\ v \in View \cup {None} /\ t \in Tools /\ accessKeys \in [Tools -> View \cup {None}]
      /\ known \subseteq Keys
  BY <1>1 DEF Callers, ClientInv, LocalsTyped, HeldTyped, ServerTyped, Reply, Active, Paying
<1>3. \A b \in Callers : b # c => pc'[b] = pc[b] /\ reply'[b] = reply[b]
  BY <1>1, <1>2 DEF Return, Goto
<1>4. pc'[c] = "returned" /\ c \in Busy
  BY <1>1, <1>2 DEF Return, Goto, Busy, Active, Paying
<1>5. RepliesInv'
  BY <1>3, <1>4 DEF CacheInv, RepliesInv, Callers
<1>6. CASE v = None
  <2>1. accessKeys' = accessKeys /\ known' = known
    BY <1>1, <1>6 DEF Capture
  <2>2. Busy' \subseteq Busy
    BY <1>3, <1>4 DEF Busy, Active, Paying
  <2>3. ASSUME NEW b \in Calls, pc'[b] \in Active, HoldsOn(b), ~overlapped PROVE HoldsOn(b)'
    <3>1. b # c /\ b \in Busy
      BY <1>3, <1>4, <2>3 DEF Active, Paying, Callers, Busy
    <3> QED
      BY <1>4, <2>3, <3>1 DEF CacheInv, AloneInv
  <2> QED
    BY <1>1, <1>5, <2>1, <2>2, <2>3, CacheKeeps
<1>7. CASE v # None
  <2>1. v.key \in Keys /\ v.left \in Nat /\ left[v.key] \in 0..v.left
    BY <1>2, <1>7 DEF View, ClientInv, KeysInv
  <2>2. /\ accessKeys' = [accessKeys EXCEPT ![t] = IF v.left = 0 THEN None ELSE v]
        /\ known' = known \cup {v.key}
    BY <1>1, <1>7 DEF Capture
  <2>3. \A k \in known' : left'[k] # None
    <3>1. left[v.key] \in Nat
      BY <2>1
    <3> QED
      BY <1>1, <2>2, <3>1, ClientAssumption DEF CacheInv
  <2>4. ASSUME ~overlapped' PROVE /\ \A a, b \in Busy' : a = b
                                  /\ \A k \in known' : Live(k)' => \E u \in Tools : Caches(u, k)'
                                  /\ \A b \in Calls : pc'[b] \in Active => HoldsOn(b)'
    <3>1. ~overlapped /\ \A b \in Busy : b = c
      BY <1>1, <1>4, <2>4 DEF CacheInv, AloneInv
    <3>2. Busy' = {}
      BY <1>3, <1>4, <3>1 DEF Busy, Active, Paying
    <3>3. \A b \in Calls : pc'[b] \notin Active
      BY <3>2 DEF Busy, Callers
    <3>4. HoldsOn(c)
      BY <1>4, <3>1 DEF CacheInv, AloneInv, Busy
    <3>5. ASSUME NEW k \in known', Live(k)' PROVE \E u \in Tools : Caches(u, k)'
      <4>1. Live(k) /\ k \in Keys
        BY <1>1, <1>2, <2>1, <2>2, <3>5 DEF Live
      <4>2. CASE k = v.key
        <5>1. v.left # 0
          BY <2>1, <4>1, <4>2 DEF Live
        <5>2. accessKeys'[t] = v
          BY <1>2, <2>2, <5>1
        <5> QED
          BY <1>2, <1>7, <4>2, <5>2 DEF Caches
      <4>3. CASE k # v.key
        <5>1. PICK u \in Tools : Caches(u, k)
          BY <2>2, <3>1, <4>1, <4>3 DEF CacheInv, AloneInv
        <5>2. u # t
          BY <1>7, <3>4, <4>1, <4>3, <5>1 DEF HoldsOn
        <5>3. accessKeys'[u] = accessKeys[u]
          BY <1>2, <2>2, <5>2
        <5> QED
          BY <5>1, <5>3 DEF Caches
      <4> QED
        BY <4>2, <4>3
    <3> QED
      BY <3>2, <3>3, <3>5
  <2>5. AloneInv'
    BY <2>4 DEF AloneInv
  <2> QED
    BY <1>5, <2>3, <2>5 DEF CacheInv
<1> QED
  BY <1>6, <1>7

\* closeSession leaves the cache alone.
LEMMA CacheCloses ==
  ASSUME ClientInv, ClientInv', CacheInv, NEW d \in Closes,
         \/ \E t \in Tools : CloseSession(d, t)
         \/ CloseThere(d) \/ CloseReturns(d) \/ CloseFails(d) \/ Verify(d)
  PROVE  CacheInv'
<1>1. /\ d \in Callers /\ d \notin Calls /\ pc \in [Callers -> {"idle"} \cup Active \cup Over]
      /\ toolOf \in [Callers -> Tools \cup {None}] /\ reply \in [Callers -> Reply]
  BY ClientAssumption DEF Callers, ClientInv, LocalsTyped
<1>2. /\ UNCHANGED <<accessKeys, known, left, expired, sentKey>>
      /\ \A c \in Calls : pc'[c] = pc[c] /\ toolOf'[c] = toolOf[c] /\ reply'[c] = reply[c]
  BY <1>1 DEF CloseSession, Begin, CloseThere, CloseReturns, CloseFails, Verify, Goto,
              client, locals, server, history, Callers
<1>3. RepliesInv'
  BY <1>2 DEF CacheInv, RepliesInv
<1>4. \A c \in Calls : HoldsOn(c) => HoldsOn(c)'
  BY <1>2 DEF HoldsOn, Live, Caches
<1>5. CASE \E t \in Tools : CloseSession(d, t)
  <2>1. overlapped' = (overlapped \/ Busy # {}) /\ \A b \in Callers : b # d => pc'[b] = pc[b]
    BY <1>1, <1>5 DEF CloseSession, Begin, Goto
  <2>2. ASSUME ~overlapped' PROVE ~overlapped /\ \A a, b \in Busy' : a = b
    BY <2>1, <2>2 DEF Busy
  <2>3. \A k \in known' : Live(k)' => Live(k) /\ k \in known
    BY <1>2 DEF Live
  <2>4. AloneInv'
    BY <1>2, <1>4, <2>2, <2>3 DEF CacheInv, AloneInv, Caches
  <2> QED
    BY <1>2, <1>3, <2>4 DEF CacheInv
<1>6. CASE CloseThere(d) \/ CloseReturns(d) \/ CloseFails(d) \/ Verify(d)
  <2>1. overlapped' = overlapped /\ pc[d] \in Active /\ \A b \in Callers : b # d => pc'[b] = pc[b]
    BY <1>1, <1>6 DEF CloseThere, CloseReturns, CloseFails, Verify, Goto, Active, history
  <2>2. Busy' \subseteq Busy
    BY <1>1, <2>1 DEF Busy
  <2> QED
    BY <1>2, <1>3, <1>4, <2>1, <2>2, CacheKeeps
<1> QED
  BY <1>5, <1>6

\* The other methods, and the clock.
LEMMA CacheOther ==
  ASSUME ClientInv, ClientInv', CacheInv,
         \/ ResetSpending \/ (\E T \in SUBSET Tools : ClearAccessKeys(T))
         \/ (\E k \in Keys : Expire(k)) \/ UNCHANGED vars
  PROVE  CacheInv'
<1>1. UNCHANGED <<pc, toolOf, sentKey, reply, left, overlapped>>
  BY DEF ResetSpending, ClearAccessKeys, Expire, vars, client, locals, server, history
<1>2. RepliesInv' /\ Busy' = Busy
  BY <1>1 DEF CacheInv, RepliesInv, Busy
<1>3. CASE ResetSpending \/ (\E k \in Keys : Expire(k)) \/ UNCHANGED vars
  <2>1. UNCHANGED <<accessKeys, known>> /\ expired \subseteq expired'
    BY <1>3 DEF ResetSpending, Expire, vars, client, server, history
  <2>2. \A c \in Calls : HoldsOn(c) => HoldsOn(c)'
    BY <1>1, <2>1 DEF HoldsOn, Live, Caches
  <2> QED
    BY <1>1, <1>2, <2>1, <2>2, CacheKeeps
<1>4. ASSUME NEW T \in SUBSET Tools, ClearAccessKeys(T) PROVE CacheInv'
  <2>1. /\ accessKeys' = [t \in Tools |-> IF t \in T THEN None ELSE accessKeys[t]]
        /\ known' = {k \in known : \A t \in T : accessKeys[t] = None \/ accessKeys[t].key # k}
        /\ expired' = expired
    BY <1>4 DEF ClearAccessKeys, server
  <2>2. \A t \in Tools, k \in Keys : Caches(t, k)' => Caches(t, k)
    BY <2>1 DEF Caches
  <2>3. \A c \in Calls : pc[c] \in Active => toolOf[c] \in Tools
    BY DEF ClientInv, LocalsTyped, Callers
  <2>4. \A c \in Calls : pc[c] \in Active /\ HoldsOn(c) => HoldsOn(c)'
    BY <1>1, <2>1, <2>2, <2>3 DEF HoldsOn, Live, Caches
  <2>5. ASSUME ~overlapped, NEW k \in known', Live(k)' PROVE \E t \in Tools : Caches(t, k)'
    <3>1. k \in known /\ Live(k) /\ \A t \in T : ~Caches(t, k)
      BY <1>1, <2>1, <2>5 DEF Live, Caches
    <3>2. PICK t \in Tools : Caches(t, k)
      BY <2>5, <3>1 DEF CacheInv, AloneInv
    <3> QED
      BY <2>1, <3>1, <3>2 DEF Caches
  <2>6. AloneInv'
    BY <1>1, <1>2, <2>4, <2>5 DEF CacheInv, AloneInv
  <2> QED
    BY <1>1, <1>2, <2>1, <2>6 DEF CacheInv
<1> QED
  BY <1>3, <1>4

\* The cache of keys is true: it never shows fewer calls on a key than it has, and a
\* client that makes one call at a time forgets no key it could use.
THEOREM CacheIsTrue == Spec => []KeyCacheTrue
<1>1. ASSUME ClientInv, CacheInv, [Next]_vars PROVE CacheInv'
  <2>1. \A T \in {{t} : t \in Tools} \cup {Tools} : T \in SUBSET Tools
    OBVIOUS
  <2> QED
    BY <1>1, <2>1, NextClient, CacheCall, CacheMoves, CacheLeaves, CacheReturns, CacheCloses, CacheOther
    DEF Next
<1>2. Spec => []CacheInv
  BY <1>1, AlwaysClient, InitCache, PTL DEF Spec
<1> QED
  BY <1>2, AlwaysClient, CacheHolds, PTL

-----------------------------------------------------------------------------
(* The sessions.                                                           *)

\* closeSession threw for these tools: the client may have dropped a channel that is
\* open, or kept one that is closed.
Excused == {toolOf[d] : d \in {e \in Closes : pc[e] = "threw"}}

\* The server has answered a closeSession for these, and the client does not know.
Answered == {toolOf[d] : d \in {e \in Closes : pc[e] = "closed there"}}

\* The server closed what closeSession was told it closed.
ClosedInv ==
  \A d \in Closes :
    pc[d] \in {"verifying", "closed"} \/ (pc[d] = "closed there" /\ reply[d].receipt) =>
      target[d] # None /\ channel[target[d].channel].state = "closed"

\* What is true of the table of sessions at every step of a call that is alone.
TracksInv ==
  ~overlapped =>
    /\ \A a, b \in Busy : a = b
    /\ \A c \in Calls : pc[c] \in Paying => currentSessionTool = toolOf[c]
    /\ \A d \in Closes :
         pc[d] \in {"closing", "closed there"} => target[d] = openSessions[toolOf[d]]
    /\ \A h \in Channels :
         channel[h].state = "open" =>
           \/ openSessions[channel[h].tool] = [channel |-> h, voucher |-> channel[h].voucher]
           \/ channel[h].tool \in Excused
    /\ \A t \in Tools :
         openSessions[t] # None =>
           /\ channel[openSessions[t].channel].tool = t
           /\ channel[openSessions[t].channel].state # "unopened"
           /\ \/ channel[openSessions[t].channel].state = "open"
              \/ t \in Excused
              \/ t \in Answered

SessionInv ==
  /\ \A h \in Channels : channel[h].state = "open" => channel[h].tool \in Tools
  /\ ClosedInv
  /\ TracksInv

LEMMA SessionsHold == ClientInv /\ SessionInv => SessionsTracked
<1> SUFFICES ASSUME ClientInv, SessionInv PROVE SessionsTracked
  OBVIOUS
<1>1. \A d \in Closes : pc[d] = "closed there" => d \in Busy
  BY DEF Busy, Active, Callers
<1>2. \A t : t \in Excused <=> \E d \in Closes : pc[d] = "threw" /\ toolOf[d] = t
  BY DEF Excused
<1>3. Busy = {} => Answered = {}
  BY <1>1 DEF Answered
<1>4. \A d \in Closes : pc[d] = "closed" => channel[target[d].channel].state = "closed"
  BY DEF SessionInv, ClosedInv
<1>5. ASSUME ~overlapped, NEW h \in Channels, channel[h].state = "open"
      PROVE  \/ openSessions[channel[h].tool] = [channel |-> h, voucher |-> channel[h].voucher]
             \/ \E d \in Closes : pc[d] = "threw" /\ toolOf[d] = channel[h].tool
  BY <1>2, <1>5 DEF SessionInv, TracksInv
<1>6. ASSUME ~overlapped, Busy = {}, NEW t \in Tools, openSessions[t] # None
      PROVE  \/ /\ channel[openSessions[t].channel].tool = t
                /\ channel[openSessions[t].channel].state = "open"
             \/ \E d \in Closes : pc[d] = "threw" /\ toolOf[d] = t
  BY <1>2, <1>3, <1>6 DEF SessionInv, TracksInv
<1> QED
  BY <1>4, <1>5, <1>6 DEF SessionsTracked

LEMMA InitSessions == Init => SessionInv
<1> SUFFICES ASSUME Init PROVE SessionInv
  OBVIOUS
<1>1. Busy = {} /\ \A c \in Callers : pc[c] = "idle"
  BY DEF Init, Busy, Active, Paying, Callers
<1>2. ClosedInv /\ \A h \in Channels : channel[h].state = "unopened"
  BY <1>1 DEF Init, ClosedInv, Callers
<1>3. TracksInv
  BY <1>1, <1>2 DEF Init, TracksInv, Callers, Paying
<1> QED
  BY <1>2, <1>3 DEF SessionInv

\* A step that no closeSession takes and that signs no voucher.
LEMMA SessionsKeep ==
  ASSUME SessionInv, UNCHANGED <<openSessions, channel, target>>,
         \A d \in Closes : pc'[d] = pc[d] /\ toolOf'[d] = toolOf[d] /\ reply'[d] = reply[d],
         ~overlapped' => /\ ~overlapped
                         /\ \A a, b \in Busy' : a = b
                         /\ \A c \in Calls : pc'[c] \in Paying => currentSessionTool' = toolOf'[c]
  PROVE  SessionInv'
<1>1. ClosedInv'
  BY DEF SessionInv, ClosedInv
<1>2. Excused' = Excused /\ Answered' = Answered
  BY DEF Excused, Answered
<1>3. TracksInv'
  <2> SUFFICES ASSUME ~overlapped' PROVE TracksInv'
    BY DEF TracksInv
  <2>1. \A d \in Closes :
          pc'[d] \in {"closing", "closed there"} => target'[d] = openSessions'[toolOf'[d]]
    BY DEF SessionInv, TracksInv
  <2>2. \A h \in Channels :
          channel'[h].state = "open" =>
            \/ openSessions'[channel'[h].tool] = [channel |-> h, voucher |-> channel'[h].voucher]
            \/ channel'[h].tool \in Excused'
    BY <1>2 DEF SessionInv, TracksInv
  <2>3. \A t \in Tools :
          openSessions'[t] # None =>
            /\ channel'[openSessions'[t].channel].tool = t
            /\ channel'[openSessions'[t].channel].state # "unopened"
            /\ \/ channel'[openSessions'[t].channel].state = "open"
               \/ t \in Excused'
               \/ t \in Answered'
    BY <1>2 DEF SessionInv, TracksInv
  <2> QED
    BY <2>1, <2>2, <2>3 DEF TracksInv
<1> QED
  BY <1>1, <1>3 DEF SessionInv

\* The steps of callTool but for Sign.
LEMMA SessionsCall ==
  ASSUME ClientInv, ClientInv', SessionInv, NEW c \in Calls,
         \/ \E t \in Tools : CallTool(c, t)
         \/ ServeUnpaid(c) \/ AskForPayment(c) \/ ReturnUnpaid(c) \/ RequestFails(c)
         \/ Refuse(c) \/ StartPaying(c) \/ Settle(c) \/ ReturnPaid(c) \/ PaymentFails(c)
  PROVE  SessionInv'
<1>1. /\ c \in Callers /\ c \notin Closes /\ pc \in [Callers -> {"idle"} \cup Active \cup Over]
      /\ toolOf \in [Callers -> Tools \cup {None}] /\ reply \in [Callers -> Reply]
  BY ClientAssumption DEF Callers, ClientInv, LocalsTyped
<1>2. /\ UNCHANGED <<openSessions, channel, target>>
      /\ \A b \in Callers : b # c => pc'[b] = pc[b] /\ toolOf'[b] = toolOf[b] /\ reply'[b] = reply[b]
  BY <1>1 DEF CallTool, Begin, ServeUnpaid, AskForPayment, ReturnUnpaid, RequestFails, Refuse,
              StartPaying, Settle, ReturnPaid, PaymentFails, Return, Goto, client, locals, server
<1>3. CASE \E t \in Tools : CallTool(c, t)
  <2>1. /\ pc'[c] = "asked" /\ overlapped' = (overlapped \/ Busy # {})
    BY <1>1, <1>3 DEF CallTool, Begin, Goto
  <2>2. ASSUME ~overlapped' PROVE /\ ~overlapped
                                  /\ \A a, b \in Busy' : a = b
                                  /\ \A b \in Calls : pc'[b] \notin Paying
    BY <1>2, <2>1, <2>2 DEF Busy, Paying, Active, Callers
  <2> QED
    BY <1>1, <1>2, <2>2, SessionsKeep DEF Callers
<1>4. CASE \/ ServeUnpaid(c) \/ AskForPayment(c) \/ ReturnUnpaid(c) \/ RequestFails(c)
           \/ Refuse(c) \/ StartPaying(c) \/ Settle(c) \/ ReturnPaid(c) \/ PaymentFails(c)
  <2>1. /\ c \in Busy /\ overlapped' = overlapped
        /\ \/ pc'[c] \notin Paying
           \/ pc'[c] = "paying" /\ currentSessionTool' = toolOf[c] /\ toolOf'[c] = toolOf[c]
           \/ pc[c] = "signed" /\ pc'[c] = "settled" /\ UNCHANGED <<currentSessionTool, toolOf>>
    BY <1>1, <1>4
    DEF ServeUnpaid, AskForPayment, ReturnUnpaid, RequestFails, Refuse, StartPaying, Settle,
        ReturnPaid, PaymentFails, Return, Goto, client, locals, history, Busy, Active, Paying
  <2>2. ASSUME ~overlapped' PROVE /\ \A b \in Busy : b = c
                                  /\ pc[c] \in Paying => currentSessionTool = toolOf[c]
    BY <2>1, <2>2 DEF SessionInv, TracksInv
  <2>3. ASSUME ~overlapped' PROVE \A b \in Callers : pc'[b] \in Active => b = c
    BY <1>2, <2>2, <2>3 DEF Busy
  <2>4. ASSUME ~overlapped', NEW b \in Calls, pc'[b] \in Paying PROVE currentSessionTool' = toolOf'[b]
    <3>1. b = c
      BY <2>3, <2>4 DEF Active, Callers
    <3> QED
      BY <2>1, <2>2, <2>4, <3>1 DEF Paying
  <2>5. ASSUME ~overlapped' PROVE \A a, b \in Busy' : a = b
    BY <2>3, <2>5 DEF Busy
  <2> QED
    BY <1>1, <1>2, <2>1, <2>4, <2>5, SessionsKeep DEF Callers
<1> QED
  BY <1>3, <1>4

\* A voucher is signed: the channel it is for is the one that is tracked.
LEMMA SessionsSign ==
  ASSUME ClientInv, ClientInv', SessionInv, NEW c \in Calls, Sign(c)
  PROVE  SessionInv'
<1> DEFINE t == toolOf[c]
<1>1. /\ c \in Callers /\ c \notin Closes /\ pc \in [Callers -> {"idle"} \cup Active \cup Over]
      /\ t \in Tools /\ t # None /\ c \in Busy /\ pc[c] = "paying" /\ pc' = [pc EXCEPT ![c] = "signed"]
      /\ openSessions \in [Tools -> Session \cup {None}]
      /\ channel \in [Channels -> [tool : Tools \cup {None}, voucher : Nat,
                                   state : {"unopened", "open", "closed"}]]
      /\ target \in [Closes -> Session \cup {None}]
  <2>1. c \in Callers /\ c \notin Closes /\ pc[c] = "paying" /\ pc' = [pc EXCEPT ![c] = "signed"]
    BY ClientAssumption DEF Callers, Sign, Goto
  <2>2. c \in Busy
    BY <2>1 DEF Busy, Active, Paying
  <2>3. t \in Tools /\ t # None
    BY <2>2, ClientAssumption DEF Busy, ClientInv, LocalsTyped
  <2> QED
    BY <2>1, <2>2, <2>3 DEF ClientInv, LocalsTyped, HeldTyped, ServerTyped
<1>2. UNCHANGED <<currentSessionTool, toolOf, reply, target, overlapped>>
  BY DEF Sign, locals, history
<1>3. Busy' = Busy /\ \A b \in Callers : b # c => pc'[b] = pc[b]
  BY <1>1 DEF Busy, Active, Paying
<1>4. Excused' = Excused
  BY <1>1, <1>2, <1>3 DEF Excused, Callers
<1>5. CASE UNCHANGED <<channel, openSessions>>
  <2>1. \A d \in Closes : pc'[d] = pc[d]
    BY <1>1, <1>3 DEF Callers
  <2>2. ASSUME ~overlapped' PROVE /\ ~overlapped /\ \A a, b \in Busy' : a = b
                                  /\ \A b \in Calls : pc'[b] \in Paying => currentSessionTool' = toolOf'[b]
    BY <1>1, <1>2, <1>3, <2>2 DEF SessionInv, TracksInv, Paying, Callers
  <2> QED
    BY <1>2, <1>5, <2>1, <2>2, SessionsKeep
<1>6. ASSUME NEW h \in Channels,
             \/ channel[h].tool = t /\ channel[h].state = "open"
             \/ /\ channel[h].state = "unopened"
                /\ \A g \in Channels : ~(channel[g].tool = t /\ channel[g].state = "open"),
             channel' = [channel EXCEPT ![h] =
                [tool |-> t, voucher |-> channel[h].voucher + 1, state |-> "open"]],
             OnChannelUpdate(h, channel[h].voucher + 1)
      PROVE  SessionInv'
  <2>1. /\ channel'[h] = [tool |-> t, voucher |-> channel[h].voucher + 1, state |-> "open"]
        /\ \A g \in Channels : g # h => channel'[g] = channel[g]
    BY <1>1, <1>6
  <2>2. \A g \in Channels : channel'[g].state = "open" => channel'[g].tool \in Tools
    BY <1>1, <2>1 DEF SessionInv
  <2>3. ClosedInv'
    <3> SUFFICES ASSUME NEW d \in Closes,
                        \/ pc'[d] \in {"verifying", "closed"}
                        \/ pc'[d] = "closed there" /\ reply'[d].receipt
                 PROVE  target'[d] # None /\ channel'[target'[d].channel].state = "closed"
      BY DEF ClosedInv
    <3>1. target[d] # None /\ channel[target[d].channel].state = "closed"
      BY <1>1, <1>2, <1>3 DEF SessionInv, ClosedInv, Callers
    <3>2. target[d].channel \in Channels /\ target[d].channel # h
      BY <1>1, <1>6, <3>1 DEF Session
    <3> QED
      BY <1>2, <2>1, <3>1, <3>2
  <2>4. TracksInv'
    <3> SUFFICES ASSUME ~overlapped' PROVE TracksInv'
      BY DEF TracksInv
    <3>1. ~overlapped /\ (\A b \in Busy : b = c) /\ currentSessionTool = t
      BY <1>1, <1>2 DEF SessionInv, TracksInv, Paying
    <3>2. openSessions' = [openSessions EXCEPT ![t] = [channel |-> h, voucher |-> channel[h].voucher + 1]]
      BY <1>1, <1>6, <3>1 DEF OnChannelUpdate
    <3>3. \A d \in Closes : pc'[d] \notin {"closing", "closed there"}
      BY <1>1, <1>3, <3>1 DEF Busy, Active, Callers
    <3>4. \A b \in Calls : pc'[b] \in Paying => currentSessionTool' = toolOf'[b]
      BY <1>1, <1>2, <1>3, <3>1 DEF Busy, Active, Callers
    <3>5. ASSUME NEW g \in Channels, channel'[g].state = "open"
          PROVE  \/ openSessions'[channel'[g].tool] = [channel |-> g, voucher |-> channel'[g].voucher]
                 \/ channel'[g].tool \in Excused'
      <4>1. CASE g = h
        BY <1>1, <2>1, <3>2, <4>1
      <4>2. CASE g # h
        <5>1. channel'[g] = channel[g] /\ channel[g].state = "open" /\ channel[g].tool \in Tools
          BY <2>1, <2>2, <3>5, <4>2
        <5>2. \/ openSessions[channel[g].tool] = [channel |-> g, voucher |-> channel[g].voucher]
              \/ channel[g].tool \in Excused
          BY <3>1, <5>1 DEF SessionInv, TracksInv
        <5>3. CASE channel[g].tool = t
          <6>1. channel[h].tool = t /\ channel[h].state = "open"
            BY <1>6, <5>1, <5>3
          <6>2. \/ openSessions[t] = [channel |-> h, voucher |-> channel[h].voucher]
                \/ t \in Excused
            BY <3>1, <6>1 DEF SessionInv, TracksInv
          <6>3. t \in Excused
            BY <4>2, <5>2, <5>3, <6>2
          <6> QED
            BY <1>4, <5>1, <5>3, <6>3
        <5>4. CASE channel[g].tool # t
          BY <1>1, <1>4, <3>2, <5>1, <5>2, <5>4
        <5> QED
          BY <5>3, <5>4
      <4> QED
        BY <4>1, <4>2
    <3>6. ASSUME NEW u \in Tools, openSessions'[u] # None
          PROVE  /\ channel'[openSessions'[u].channel].tool = u
                 /\ channel'[openSessions'[u].channel].state # "unopened"
                 /\ \/ channel'[openSessions'[u].channel].state = "open"
                    \/ u \in Excused'
      <4>1. CASE u = t
        BY <1>1, <2>1, <3>2, <4>1
      <4>2. CASE u # t
        <5>1. openSessions'[u] = openSessions[u]
          BY <1>1, <3>2, <4>2
        <5>2. /\ openSessions[u].channel \in Channels
              /\ channel[openSessions[u].channel].tool = u
              /\ channel[openSessions[u].channel].state # "unopened"
          BY <1>1, <3>1, <3>6, <5>1 DEF SessionInv, TracksInv, Session
        <5>3. openSessions[u].channel # h
          BY <1>6, <4>2, <5>2
        <5>4. \A d \in Closes : pc[d] # "closed there"
          BY <1>1, <1>3, <3>3 DEF Callers
        <5>5. u \notin Answered
          BY <5>4 DEF Answered
        <5>6. \/ channel[openSessions[u].channel].state = "open"
              \/ u \in Excused
          BY <3>1, <3>6, <5>1, <5>5 DEF SessionInv, TracksInv
        <5> QED
          BY <1>4, <2>1, <5>1, <5>2, <5>3, <5>6
      <4> QED
        BY <4>1, <4>2
    <3>7. \A a, b \in Busy' : a = b
      BY <1>3, <3>1
    <3> QED
      BY <3>3, <3>4, <3>5, <3>6, <3>7 DEF TracksInv
  <2> QED
    BY <2>2, <2>3, <2>4 DEF SessionInv
<1> QED
  BY <1>5, <1>6 DEF Sign

\* The tools that one closeSession adds to these sets, or takes from them.
LEMMA OneClose ==
  ASSUME NEW d \in Closes, toolOf'[d] = toolOf[d],
         \A b \in Closes : b # d => pc'[b] = pc[b] /\ toolOf'[b] = toolOf[b]
  PROVE  /\ pc[d] # "threw" => Excused \subseteq Excused'
         /\ pc'[d] = "threw" => toolOf[d] \in Excused'
         /\ \A t \in Answered : t = toolOf[d] \/ t \in Answered'
<1>1. ASSUME NEW t \in Excused, pc[d] # "threw" PROVE t \in Excused'
  <2>1. PICK b \in Closes : pc[b] = "threw" /\ toolOf[b] = t
    BY DEF Excused
  <2>2. pc'[b] = "threw" /\ toolOf'[b] = t
    BY <1>1, <2>1
  <2> QED
    BY <2>2 DEF Excused
<1>2. ASSUME NEW t \in Answered, t # toolOf[d] PROVE t \in Answered'
  <2>1. PICK b \in Closes : pc[b] = "closed there" /\ toolOf[b] = t
    BY DEF Answered
  <2>2. pc'[b] = "closed there" /\ toolOf'[b] = t
    BY <1>2, <2>1
  <2> QED
    BY <2>2 DEF Answered
<1>3. pc'[d] = "threw" => toolOf[d] \in Excused'
  BY DEF Excused
<1> QED
  BY <1>1, <1>2, <1>3

\* The steps of closeSession.
LEMMA SessionsClose ==
  ASSUME ClientInv, ClientInv', SessionInv, NEW d \in Closes,
         \/ \E t \in Tools : CloseSession(d, t)
         \/ CloseThere(d) \/ CloseReturns(d) \/ CloseFails(d) \/ Verify(d)
  PROVE  SessionInv'
<1>1. /\ d \in Callers /\ d \notin Calls /\ pc \in [Callers -> {"idle"} \cup Active \cup Over]
      /\ toolOf \in [Callers -> Tools \cup {None}] /\ reply \in [Callers -> Reply]
      /\ openSessions \in [Tools -> Session \cup {None}]
      /\ channel \in [Channels -> [tool : Tools \cup {None}, voucher : Nat,
                                   state : {"unopened", "open", "closed"}]]
      /\ target \in [Closes -> Session \cup {None}]
      /\ pc[d] \in {"closing", "closed there", "verifying"} => toolOf[d] \in Tools /\ target[d] # None
  BY ClientAssumption DEF Callers, ClientInv, LocalsTyped, HeldTyped, ServerTyped, Active
<1>2. UNCHANGED currentSessionTool /\ \A b \in Callers : b # d =>
        pc'[b] = pc[b] /\ toolOf'[b] = toolOf[b] /\ reply'[b] = reply[b]
        /\ (b \in Closes => target'[b] = target[b])
  BY <1>1 DEF CloseSession, Begin, CloseThere, CloseReturns, CloseFails, Verify, Goto, client, locals
<1>5. \A b \in Closes : b # d => pc'[b] = pc[b] /\ toolOf'[b] = toolOf[b]
  BY <1>2 DEF Callers
<1>3. ASSUME NEW t \in Tools, CloseSession(d, t) PROVE SessionInv'
  <2>1. /\ pc[d] = "idle" /\ pc'[d] = IF openSessions[t] = None THEN "noChannel" ELSE "closing"
        /\ toolOf'[d] = t /\ target'[d] = openSessions[t]
        /\ overlapped' = (overlapped \/ Busy # {})
        /\ UNCHANGED <<openSessions, channel, reply>>
    BY <1>1, <1>3 DEF CloseSession, Begin, Goto, client, server
  <2>2. ClosedInv'
    BY <1>1, <1>2, <2>1 DEF SessionInv, ClosedInv, Callers
  <2>3. Excused' = Excused /\ Answered' = Answered
    <3>1. /\ {e \in Closes : pc'[e] = "threw"} = {e \in Closes : pc[e] = "threw"}
          /\ {e \in Closes : pc'[e] = "closed there"} = {e \in Closes : pc[e] = "closed there"}
      BY <1>5, <2>1
    <3> DEFINE S == {e \in Closes : pc[e] = "threw"}
               R == {e \in Closes : pc[e] = "closed there"}
    <3>2. \A e \in S \cup R : toolOf'[e] = toolOf[e]
      BY <1>5, <2>1
    <3> HIDE DEF S, R
    <3>3. {toolOf'[e] : e \in S} = {toolOf[e] : e \in S} /\ {toolOf'[e] : e \in R} = {toolOf[e] : e \in R}
      BY <3>2
    <3> QED
      BY <3>1, <3>3 DEF Excused, Answered, S, R
  <2>4. ASSUME ~overlapped'
        PROVE  /\ ~overlapped /\ \A a, b \in Busy' : a = b
               /\ \A b \in Calls : pc'[b] \notin Paying
               /\ \A b \in Closes : pc'[b] \in {"closing", "closed there"} => target'[b] = openSessions'[toolOf'[b]]
    <3>1. ~overlapped /\ \A b \in Callers : b # d => pc'[b] \notin Active
      BY <1>2, <2>1, <2>4 DEF Busy
    <3> QED
      BY <1>1, <2>1, <3>1 DEF Busy, Active, Callers
  <2>5. TracksInv'
    BY <2>1, <2>3, <2>4 DEF SessionInv, TracksInv
  <2> QED
    BY <2>1, <2>2, <2>5 DEF SessionInv
<1>4. \* The other steps are those of a call that is busy.
      CASE CloseThere(d) \/ CloseReturns(d) \/ CloseFails(d) \/ Verify(d)
  <2>1. /\ d \in Busy /\ UNCHANGED <<overlapped, toolOf, target>>
    BY <1>1, <1>4 DEF CloseThere, CloseReturns, CloseFails, Verify, locals, history, Busy, Active
  <2>2. Busy' \subseteq Busy
    BY <1>2, <2>1 DEF Busy
  <2>3. ASSUME ~overlapped' PROVE /\ ~overlapped /\ \A b \in Callers : b # d => pc[b] \notin Active
    BY <2>1, <2>3 DEF SessionInv, TracksInv, Busy
  <2>4. ASSUME ~overlapped' PROVE /\ \A a, b \in Busy' : a = b
                                  /\ \A b \in Calls : pc'[b] \notin Paying
                                  /\ \A b \in Closes : b # d => pc[b] \notin {"closing", "closed there"}
    BY <1>1, <1>2, <2>2, <2>3, <2>4 DEF SessionInv, TracksInv, Active, Callers
  <2>5. CASE CloseThere(d)
    <3>1. PICK r \in BOOLEAN :
            /\ reply' = [reply EXCEPT ![d].receipt = r]
            /\ channel' = [channel EXCEPT ![target[d].channel].state = IF r THEN "closed" ELSE @]
      BY <2>5 DEF CloseThere
    <3> DEFINE g == target[d].channel
    <3>2. /\ pc[d] = "closing" /\ pc'[d] = "closed there" /\ openSessions' = openSessions
          /\ target[d] # None /\ toolOf[d] \in Tools
      BY <1>1, <2>5 DEF CloseThere, Goto, client
    <3>3. g \in Channels
      BY <1>1, <3>2 DEF Session
    <3>4. /\ \A h \in Channels : channel'[h].tool = channel[h].tool /\ channel'[h].voucher = channel[h].voucher
          /\ \A h \in Channels : h # g => channel'[h] = channel[h]
          /\ channel'[g].state = IF r THEN "closed" ELSE channel[g].state
      BY <1>1, <3>1, <3>3
    <3>5. reply'[d].receipt = r
      BY <1>1, <3>1 DEF Reply
    <3>6. \A h \in Channels : channel'[h].state = "open" => channel[h].state = "open"
      BY <3>4
    <3>7. \A h \in Channels : channel[h].state = "closed" => channel'[h].state = "closed"
      BY <3>4
    <3>8. ClosedInv'
      <4> SUFFICES ASSUME NEW b \in Closes,
                          \/ pc'[b] \in {"verifying", "closed"}
                          \/ pc'[b] = "closed there" /\ reply'[b].receipt
                   PROVE  target'[b] # None /\ channel'[target'[b].channel].state = "closed"
        BY DEF ClosedInv
      <4>1. CASE b = d
        BY <2>1, <3>2, <3>4, <3>5, <4>1
      <4>2. CASE b # d
        <5>1. target[b] # None /\ channel[target[b].channel].state = "closed"
          BY <1>2, <4>2 DEF SessionInv, ClosedInv, Callers
        <5>2. target[b].channel \in Channels
          BY <1>1, <5>1 DEF Session
        <5> QED
          BY <2>1, <3>7, <5>1, <5>2
      <4> QED
        BY <4>1, <4>2
    <3>9. Excused' = Excused
      BY <1>2, <2>1, <3>2 DEF Excused, Callers
    <3>10. toolOf[d] \in Answered' /\ Answered \subseteq Answered'
      BY <1>1, <1>2, <2>1, <3>2 DEF Answered, Callers
    <3>11. TracksInv'
      <4> SUFFICES ASSUME ~overlapped' PROVE TracksInv'
        BY DEF TracksInv
      <4>1. ~overlapped /\ target[d] = openSessions[toolOf[d]]
        BY <2>1, <3>2 DEF SessionInv, TracksInv
      <4>2. \A b \in Closes : pc'[b] \in {"closing", "closed there"} => target'[b] = openSessions'[toolOf'[b]]
        BY <1>2, <2>1, <2>4, <3>2, <4>1 DEF Callers
      <4>3. \A h \in Channels :
              channel'[h].state = "open" =>
                \/ openSessions'[channel'[h].tool] = [channel |-> h, voucher |-> channel'[h].voucher]
                \/ channel'[h].tool \in Excused'
        BY <3>2, <3>4, <3>6, <3>9, <4>1 DEF SessionInv, TracksInv
      <4>4. ASSUME NEW t \in Tools, openSessions'[t] # None
            PROVE  /\ channel'[openSessions'[t].channel].tool = t
                   /\ channel'[openSessions'[t].channel].state # "unopened"
                   /\ \/ channel'[openSessions'[t].channel].state = "open"
                      \/ t \in Excused'
                      \/ t \in Answered'
        <5>1. /\ openSessions[t].channel \in Channels
              /\ channel[openSessions[t].channel].tool = t
              /\ channel[openSessions[t].channel].state # "unopened"
              /\ \/ channel[openSessions[t].channel].state = "open"
                 \/ t \in Excused
                 \/ t \in Answered
          BY <1>1, <3>2, <4>1, <4>4 DEF SessionInv, TracksInv, Session
        <5>2. CASE openSessions[t].channel # g
          BY <3>2, <3>4, <3>9, <3>10, <5>1, <5>2
        <5>3. CASE openSessions[t].channel = g
          <6>1. t = toolOf[d]
            BY <3>2, <4>1, <5>1, <5>3 DEF SessionInv, TracksInv
          <6> QED
            BY <3>2, <3>3, <3>4, <3>10, <5>1, <5>3, <6>1
        <5> QED
          BY <5>2, <5>3
      <4> QED
        BY <2>4, <4>2, <4>3, <4>4, <1>2 DEF TracksInv
    <3>12. \A h \in Channels : channel'[h].state = "open" => channel'[h].tool \in Tools
      BY <3>4, <3>6 DEF SessionInv
    <3> QED
      BY <3>8, <3>11, <3>12 DEF SessionInv
  <2>6. CASE CloseReturns(d)
    <3>1. /\ pc[d] = "closed there" /\ openSessions' = [openSessions EXCEPT ![toolOf[d]] = None]
          /\ pc'[d] = IF ~reply[d].receipt THEN "threw"
                      ELSE IF VerifySettlement THEN "verifying" ELSE "closed"
          /\ UNCHANGED <<channel, reply>> /\ toolOf[d] \in Tools
      BY <1>1, <2>6 DEF CloseReturns, Goto, locals, server
    <3>2. ClosedInv'
      BY <1>2, <2>1, <3>1 DEF SessionInv, ClosedInv, Callers
    <3>3. Excused \subseteq Excused' /\ (~reply[d].receipt => toolOf[d] \in Excused')
      BY <1>1, <1>2, <2>1, <3>1 DEF Excused, Callers
    <3>4. \A t \in Answered : t = toolOf[d] \/ t \in Answered'
      BY <1>5, <2>1, <3>1, OneClose
    <3>5. TracksInv'
      <4> SUFFICES ASSUME ~overlapped' PROVE TracksInv'
        BY DEF TracksInv
      <4>1. ~overlapped /\ target[d] = openSessions[toolOf[d]]
        BY <2>1, <3>1 DEF SessionInv, TracksInv
      <4>2. \A b \in Closes : pc'[b] \notin {"closing", "closed there"}
        BY <1>2, <2>4, <3>1 DEF Callers
      <4>3. ASSUME NEW h \in Channels, channel'[h].state = "open"
            PROVE  \/ openSessions'[channel'[h].tool] = [channel |-> h, voucher |-> channel'[h].voucher]
                   \/ channel'[h].tool \in Excused'
        <5>1. /\ channel[h].state = "open" /\ channel[h].tool \in Tools
              /\ \/ openSessions[channel[h].tool] = [channel |-> h, voucher |-> channel[h].voucher]
                 \/ channel[h].tool \in Excused
          BY <3>1, <4>1, <4>3 DEF SessionInv, TracksInv
        <5>2. CASE channel[h].tool # toolOf[d]
          BY <1>1, <3>1, <3>3, <5>1, <5>2
        <5>3. CASE channel[h].tool = toolOf[d] /\ reply[d].receipt
          <6>1. channel[target[d].channel].state = "closed"
            BY <3>1, <5>3 DEF SessionInv, ClosedInv
          <6>2. channel[h].tool \in Excused
            BY <4>1, <5>1, <5>3, <6>1
          <6> QED
            BY <3>1, <3>3, <6>2
        <5>4. CASE channel[h].tool = toolOf[d] /\ ~reply[d].receipt
          BY <3>1, <3>3, <5>4
        <5> QED
          BY <1>1, <5>2, <5>3, <5>4
      <4>4. ASSUME NEW t \in Tools, openSessions'[t] # None
            PROVE  /\ channel'[openSessions'[t].channel].tool = t
                   /\ channel'[openSessions'[t].channel].state # "unopened"
                   /\ \/ channel'[openSessions'[t].channel].state = "open"
                      \/ t \in Excused'
                      \/ t \in Answered'
        <5>1. t # toolOf[d] /\ openSessions'[t] = openSessions[t]
          BY <1>1, <3>1, <4>4
        <5> QED
          BY <3>1, <3>3, <3>4, <4>1, <4>4, <5>1 DEF SessionInv, TracksInv
      <4> QED
        BY <2>4, <4>2, <4>3, <4>4 DEF TracksInv
    <3> QED
      BY <3>1, <3>2, <3>5 DEF SessionInv
  <2>7. CASE CloseFails(d) \/ Verify(d)
    <3>1. /\ pc[d] \in {"closing", "closed there", "verifying"}
          /\ pc'[d] = "threw" \/ (pc[d] = "verifying" /\ pc'[d] = "closed")
          /\ UNCHANGED <<openSessions, channel, reply>>
      BY <1>1, <2>7 DEF CloseFails, Verify, Goto, client, locals, server
    <3>2. ClosedInv'
      BY <1>2, <2>1, <3>1 DEF SessionInv, ClosedInv, Callers
    <3>3. Excused \subseteq Excused' /\ (pc'[d] = "threw" => toolOf[d] \in Excused')
      BY <1>5, <2>1, <3>1, OneClose
    <3>4. ASSUME ~overlapped' PROVE \A b \in Closes : pc'[b] \notin {"closing", "closed there"}
      BY <1>2, <2>4, <3>1, <3>4 DEF Callers
    <3>5. ASSUME ~overlapped', NEW t \in Answered PROVE t \in Excused'
      <4>1. PICK b \in Closes : pc[b] = "closed there" /\ toolOf[b] = t
        BY DEF Answered
      <4>2. b = d
        BY <2>4, <3>5, <4>1
      <4> QED
        BY <3>1, <3>3, <4>1, <4>2
    <3>6. TracksInv'
      BY <2>1, <2>4, <3>1, <3>3, <3>4, <3>5 DEF SessionInv, TracksInv
    <3> QED
      BY <3>1, <3>2, <3>6 DEF SessionInv
  <2> QED
    BY <1>4, <2>5, <2>6, <2>7
<1> QED
  BY <1>3, <1>4

\* What closeSession calls closed is closed, and the table of sessions of a client that
\* makes one call at a time is true.
THEOREM SessionsAreTracked == Spec => []SessionsTracked
<1>1. ASSUME ClientInv, SessionInv, [Next]_vars PROVE SessionInv'
  <2>1. ClientInv'
    BY <1>1, NextClient
  <2>2. CASE \/ ResetSpending \/ UNCHANGED vars \/ (\E k \in Keys : Expire(k))
             \/ \E T \in {{t} : t \in Tools} \cup {Tools} : ClearAccessKeys(T)
    <3>1. UNCHANGED <<pc, toolOf, reply, target, openSessions, channel, overlapped, currentSessionTool>>
      BY <2>2 DEF ResetSpending, ClearAccessKeys, Expire, vars, client, locals, server, history
    <3>2. Busy' = Busy
      BY <3>1 DEF Busy
    <3> QED
      BY <1>1, <3>1, <3>2, SessionsKeep DEF SessionInv, TracksInv
  <2> QED
    BY <1>1, <2>1, <2>2, SessionsCall, SessionsSign, SessionsClose DEF Next
<1>2. Spec => []SessionInv
  BY <1>1, AlwaysClient, InitSessions, PTL DEF Spec
<1> QED
  BY <1>2, AlwaysClient, SessionsHold, PTL

=============================================================================
