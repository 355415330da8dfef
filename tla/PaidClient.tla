----------------------------- MODULE PaidClient -----------------------------
(***************************************************************************)
(* PaidMcpClient of src/client.ts: callTool with its spending caps, its    *)
(* cache of access keys and its table of session channels, and             *)
(* closeSession, with calls of both in progress at once.                   *)
(*                                                                         *)
(* The server and mppx's wrapper are modelled from how the client uses     *)
(* them.  wrapped.callTool is not given the challenge that callTool        *)
(* checked: it asks the server again and signs what is asked then, and     *)
(* reports the channel it signed a voucher for through onChannelUpdate.    *)
(***************************************************************************)
EXTENDS Integers, FiniteSets

CONSTANTS
  Calls,      \* calls of callTool, each made once
  Closes,     \* calls of closeSession, each made once
  Tools,      \* the server's tools
  Mode,       \* [Tools -> "free", "charge", "session" or "key"]
  Prices,     \* what a tool may cost, at any request
  Deposits,   \* deposits a session tool may suggest
  Keys,       \* access keys the server may sell
  KeyCap,     \* calls a key is sold with
  Mortal,     \* keys that may expire
  Channels,   \* session channels that may be opened
  MaxPerCall, MaxTotal, MaxSessionDeposit,  \* the caps, in base units
  VerifySettlement,  \* is a settlement looked up on the chain
  None

ASSUME ClientAssumption ==
  /\ IsFiniteSet(Calls)
  /\ Calls \cap Closes = {}
  /\ Mode \in [Tools -> {"free", "charge", "session", "key"}]
  /\ Prices \subseteq Nat
  /\ Deposits \subseteq Nat
  /\ KeyCap \in Nat \ {0}
  /\ Mortal \subseteq Keys
  /\ {MaxPerCall, MaxTotal, MaxSessionDeposit} \subseteq Nat \ {0}
  /\ VerifySettlement \in BOOLEAN
  /\ None \notin Nat \cup Tools \cup Keys \cup Channels

VARIABLES
  \* The client.
  totalSpent,          \* totalSpentUnits
  capExceeded,         \* capExceededCount
  accessKeys,          \* [Tools -> cached key and calls left, or None]
  openSessions,        \* [Tools -> channel and voucher, or None]
  currentSessionTool,  \* the tool channel updates are attributed to
  \* The calls in progress.
  pc,                  \* [Calls \cup Closes -> where it is]
  toolOf,              \* [Calls \cup Closes -> the tool it names]
  sentKey,             \* [Calls -> the key it carries, or None]
  quote,               \* [Calls -> the price in the challenge it checked]
  reply,               \* [Calls \cup Closes -> the answer under way]
  target,              \* [Closes -> the session it read, or None]
  \* The server.
  left,                \* [Keys -> calls left, None when not sold]
  expired,             \* keys past expiresAt, by the clock of both sides
  channel,             \* [Channels -> its tool, last voucher and state]
  \* History.
  known,               \* keys the client was told of and never cleared
  overlapped,          \* have two calls ever been in progress at once
  peak,                \* the most calls that were paying at once
  settled,             \* what the server settled since resetSpending, as quoted
  unheard              \* how many settled payments came back without a receipt

client == <<totalSpent, capExceeded, accessKeys, openSessions,
            currentSessionTool>>
server == <<left, expired, channel>>
history == <<known, overlapped, peak, settled, unheard>>
locals == <<toolOf, sentKey, quote, reply, target>>
vars == <<client, pc, locals, server, history>>

-----------------------------------------------------------------------------

Callers == Calls \cup Closes

View == [key : Keys, left : Nat]

Session == [channel : Channels, voucher : Nat]

ASSUME AbsenceAssumption == None \notin View \cup Session

\* An answer: an access key's state or none, and is there a receipt.
Reply == [view : View \cup {None}, receipt : BOOLEAN]

NoReply == [view |-> None, receipt |-> FALSE]

Paying == {"paying", "signed", "settled"}

Active == {"asked", "served", "challenged", "closing", "closed there",
           "verifying"} \cup Paying

Over == {"returned", "threw", "noChannel", "closed"}

Busy == {c \in Callers : pc[c] \in Active}

Payers == {c \in Calls : pc[c] \in Paying}

TypeOK ==
  /\ totalSpent \in Nat
  /\ capExceeded \in Nat
  /\ accessKeys \in [Tools -> View \cup {None}]
  /\ openSessions \in [Tools -> Session \cup {None}]
  /\ currentSessionTool \in Tools \cup {None}
  /\ pc \in [Callers -> {"idle"} \cup Active \cup Over]
  /\ toolOf \in [Callers -> Tools \cup {None}]
  /\ \A c \in Callers : pc[c] \in Active => toolOf[c] \in Tools
  /\ sentKey \in [Calls -> Keys \cup {None}]
  /\ quote \in [Calls -> Nat]
  /\ reply \in [Callers -> Reply]
  /\ target \in [Closes -> Session \cup {None}]
  /\ left \in [Keys -> 0..KeyCap \cup {None}]
  /\ expired \subseteq Keys
  /\ channel \in [Channels -> [tool : Tools \cup {None}, voucher : Nat,
                               state : {"unopened", "open", "closed"}]]
  /\ known \subseteq Keys
  /\ overlapped \in BOOLEAN
  /\ {peak, settled, unheard} \subseteq Nat

Init ==
  /\ totalSpent = 0
  /\ capExceeded = 0
  /\ accessKeys = [t \in Tools |-> None]
  /\ openSessions = [t \in Tools |-> None]
  /\ currentSessionTool = None
  /\ pc = [c \in Callers |-> "idle"]
  /\ toolOf = [c \in Callers |-> None]
  /\ sentKey = [c \in Calls |-> None]
  /\ quote = [c \in Calls |-> 0]
  /\ reply = [c \in Callers |-> NoReply]
  /\ target = [d \in Closes |-> None]
  /\ left = [k \in Keys |-> None]
  /\ expired = {}
  /\ channel = [h \in Channels |->
                  [tool |-> None, voucher |-> 0, state |-> "unopened"]]
  /\ known = {}
  /\ overlapped = FALSE
  /\ peak = 0
  /\ settled = 0
  /\ unheard = 0

Goto(c, l) == pc' = [pc EXCEPT ![c] = l]

\* A call of callTool is over, and its local state gone.
Return(c, l) ==
  /\ Goto(c, l)
  /\ toolOf' = [toolOf EXCEPT ![c] = None]
  /\ sentKey' = [sentKey EXCEPT ![c] = None]
  /\ quote' = [quote EXCEPT ![c] = 0]
  /\ reply' = [reply EXCEPT ![c] = NoReply]
  /\ UNCHANGED target

Begin(c, t, l) ==
  /\ Goto(c, l)
  /\ toolOf' = [toolOf EXCEPT ![c] = t]
  /\ overlapped' = (overlapped \/ Busy # {})

-----------------------------------------------------------------------------
(* callTool, up to the payment.                                            *)

\* lookupAccessKey: the cached key, unless it has expired or is used up.
Usable(t) ==
  /\ accessKeys[t] # None
  /\ accessKeys[t].key \notin expired
  /\ accessKeys[t].left > 0

CallTool(c, t) ==
  /\ pc[c] = "idle"
  /\ Begin(c, t, "asked")
  /\ sentKey' = [sentKey EXCEPT ![c] = IF Usable(t) THEN accessKeys[t].key ELSE None]
  /\ accessKeys' = [accessKeys EXCEPT ![t] = IF Usable(t) THEN @ ELSE None]
  /\ UNCHANGED <<totalSpent, capExceeded, openSessions, currentSessionTool, quote,
                 reply, target, server, known, peak, settled, unheard>>

\* What the server makes of the key a call carries.
Honoured(k) == k # None /\ k \notin expired /\ left[k] > 0

\* The server takes the key, or the tool is free.
ServeUnpaid(c) ==
  /\ pc[c] = "asked"
  /\ LET k == sentKey[c]
     IN  \/ /\ Mode[toolOf[c]] = "free"
            /\ UNCHANGED <<left, reply>>
         \/ /\ Mode[toolOf[c]] = "key"
            /\ Honoured(k)
            /\ left' = [left EXCEPT ![k] = @ - 1]
            /\ reply' = [reply EXCEPT ![c].view = [key |-> k, left |-> left[k] - 1]]
  /\ Goto(c, "served")
  /\ UNCHANGED <<client, toolOf, sentKey, quote, target, expired, channel,
                 history>>

\* The server asks for payment.
AskForPayment(c) ==
  /\ pc[c] = "asked"
  /\ Mode[toolOf[c]] # "free"
  /\ ~(Mode[toolOf[c]] = "key" /\ Honoured(sentKey[c]))
  /\ Goto(c, "challenged")
  /\ \E p \in Prices : quote' = [quote EXCEPT ![c] = p]
  /\ UNCHANGED <<client, toolOf, sentKey, reply, target, server, history>>

\* Variant: the call is counted once more in the cache.
CaptureCountsTwice(t, v) ==
  IF v = None THEN UNCHANGED <<accessKeys, known>>
  ELSE /\ accessKeys' = [accessKeys EXCEPT
            ![t] = IF v.left = 0 THEN None ELSE [v EXCEPT !.left = @ - 1]]
       /\ known' = known \cup {v.key}

\* captureAccessKey: cache the key of an answer, or evict it when it is used up.
Capture(t, v) ==
  IF v = None THEN UNCHANGED <<accessKeys, known>>
  ELSE /\ accessKeys' = [accessKeys EXCEPT ![t] = IF v.left = 0 THEN None ELSE v]
       /\ known' = known \cup {v.key}

\* The answer of a call that needed no payment.
ReturnUnpaid(c) ==
  /\ pc[c] = "served"
  /\ Return(c, "returned")
  /\ Capture(toolOf[c], reply[c].view)
  /\ UNCHANGED <<totalSpent, capExceeded, openSessions, currentSessionTool, server,
                 overlapped, peak, settled, unheard>>

\* The first request or its answer is lost: callTool throws.
RequestFails(c) ==
  /\ pc[c] \in {"asked", "served"}
  /\ Return(c, "threw")
  /\ UNCHANGED <<client, server, history>>

-----------------------------------------------------------------------------
(* The caps.                                                               *)

\* Variant: the total is compared without the price asked.
WithinCapsSoFar(c, deposit) ==
  /\ Mode[toolOf[c]] = "session" => deposit <= MaxSessionDeposit
  /\ quote[c] <= MaxPerCall
  /\ totalSpent <= MaxTotal

\* enforceCaps.
WithinCaps(c, deposit) ==
  /\ Mode[toolOf[c]] = "session" => deposit <= MaxSessionDeposit
  /\ quote[c] <= MaxPerCall
  /\ totalSpent + quote[c] <= MaxTotal

\* A cap is exceeded: nothing is signed.
Refuse(c) ==
  /\ pc[c] = "challenged"
  /\ \E d \in Deposits : ~WithinCaps(c, d)
  /\ Return(c, "threw")
  /\ capExceeded' = capExceeded + 1
  /\ UNCHANGED <<totalSpent, accessKeys, openSessions, currentSessionTool, server,
                 history>>

\* Hand over to the wrapper.
StartPaying(c) ==
  /\ pc[c] = "challenged"
  /\ \E d \in Deposits : WithinCaps(c, d)
  /\ Goto(c, "paying")
  /\ currentSessionTool' = toolOf[c]
  /\ peak' = IF Cardinality(Payers) >= peak THEN Cardinality(Payers) + 1 ELSE peak
  /\ UNCHANGED <<totalSpent, capExceeded, accessKeys, openSessions, locals, server,
                 known, overlapped, settled, unheard>>

-----------------------------------------------------------------------------
(* wrapped.callTool.                                                       *)

\* Variant: the update is stored whatever tool it is for.
UpdateUnattributed(h, v) ==
  openSessions' = [t \in Tools \cup {currentSessionTool} |->
                     IF t = currentSessionTool THEN [channel |-> h, voucher |-> v]
                     ELSE openSessions[t]]

\* onChannelUpdate.
OnChannelUpdate(h, v) ==
  openSessions' = IF currentSessionTool = None THEN openSessions
                  ELSE [openSessions EXCEPT ![currentSessionTool] =
                          [channel |-> h, voucher |-> v]]

\* The wrapper asks again and signs what the tool costs by then.  For a session
\* it opens a channel, or signs the next voucher of the one that is open.
Sign(c) ==
  /\ pc[c] = "paying"
  /\ Goto(c, "signed")
  /\ IF Mode[toolOf[c]] = "session"
     THEN LET open == {h \in Channels : channel[h].tool = toolOf[c]
                                         /\ channel[h].state = "open"}
              unopened == {h \in Channels : channel[h].state = "unopened"}
          IN  \E h \in IF open = {} THEN unopened ELSE open :
                LET v == channel[h].voucher + 1
                IN  /\ channel' = [channel EXCEPT ![h] =
                         [tool |-> toolOf[c], voucher |-> v, state |-> "open"]]
                    /\ OnChannelUpdate(h, v)
     ELSE UNCHANGED <<channel, openSessions>>
  /\ UNCHANGED <<totalSpent, capExceeded, accessKeys, currentSessionTool, locals,
                 left, expired, history>>

\* The server settles, and sells a key where that is what the tool is priced by.
Settle(c) ==
  /\ pc[c] = "signed"
  /\ Goto(c, "settled")
  /\ \E r \in BOOLEAN :
       IF Mode[toolOf[c]] = "key"
       THEN \E k \in Keys :
              /\ left[k] = None
              /\ left' = [left EXCEPT ![k] = KeyCap - 1]
              /\ reply' = [reply EXCEPT ![c] =
                   [view |-> [key |-> k, left |-> KeyCap - 1], receipt |-> r]]
       ELSE /\ reply' = [reply EXCEPT ![c].receipt = r]
            /\ UNCHANGED left
  /\ settled' = settled + quote[c]
  /\ UNCHANGED <<client, toolOf, sentKey, quote, target, expired, channel,
                 known, overlapped, peak, unheard>>

\* The wrapper returns.
ReturnPaid(c) ==
  /\ pc[c] = "settled"
  /\ Return(c, "returned")
  /\ currentSessionTool' = None
  /\ IF reply[c].receipt
     THEN totalSpent' = totalSpent + quote[c] /\ UNCHANGED unheard
     ELSE unheard' = unheard + 1 /\ UNCHANGED totalSpent
  /\ Capture(toolOf[c], reply[c].view)
  /\ UNCHANGED <<capExceeded, openSessions, server, overlapped, peak, settled>>

\* The wrapper throws: it could not ask, sign or settle, or the answer is lost,
\* and with it what was settled.
PaymentFails(c) ==
  /\ pc[c] \in Paying
  /\ Return(c, "threw")
  /\ currentSessionTool' = None
  /\ unheard' = IF pc[c] = "settled" THEN unheard + 1 ELSE unheard
  /\ UNCHANGED <<totalSpent, capExceeded, accessKeys, openSessions, server, known,
                 overlapped, peak, settled>>

-----------------------------------------------------------------------------
(* closeSession.                                                           *)

CloseSession(d, t) ==
  /\ pc[d] = "idle"
  /\ Begin(d, t, IF openSessions[t] = None THEN "noChannel" ELSE "closing")
  /\ target' = [target EXCEPT ![d] = openSessions[t]]
  /\ UNCHANGED <<client, sentKey, quote, reply, server, known, peak, settled, unheard>>

\* The server settles the channel, or answers without a receipt.
CloseThere(d) ==
  /\ pc[d] = "closing"
  /\ \E r \in BOOLEAN :
       /\ reply' = [reply EXCEPT ![d].receipt = r]
       /\ channel' = [channel EXCEPT ![target[d].channel].state =
                        IF r THEN "closed" ELSE @]
  /\ Goto(d, "closed there")
  /\ UNCHANGED <<client, toolOf, sentKey, quote, target, left, expired,
                 history>>

\* Variant: an answer without a receipt is taken for a settlement.
CloseReturnsAnyway(d) ==
  /\ pc[d] = "closed there"
  /\ openSessions' = [openSessions EXCEPT ![toolOf[d]] = None]
  /\ Goto(d, IF VerifySettlement THEN "verifying" ELSE "closed")
  /\ UNCHANGED <<totalSpent, capExceeded, accessKeys, currentSessionTool, locals,
                 server, history>>

\* The wrapper returns: the local state is dropped, and without a receipt
\* closeSession throws.
CloseReturns(d) ==
  /\ pc[d] = "closed there"
  /\ openSessions' = [openSessions EXCEPT ![toolOf[d]] = None]
  /\ Goto(d, IF ~reply[d].receipt THEN "threw"
             ELSE IF VerifySettlement THEN "verifying" ELSE "closed")
  /\ UNCHANGED <<totalSpent, capExceeded, accessKeys, currentSessionTool, locals,
                 server, history>>

\* The wrapper throws, whatever the server did.
CloseFails(d) ==
  /\ pc[d] \in {"closing", "closed there"}
  /\ Goto(d, "threw")
  /\ UNCHANGED <<client, locals, server, history>>

\* verifySettlementTx: the chain says the settlement reverted, or it does not.
Verify(d) ==
  /\ pc[d] = "verifying"
  /\ Goto(d, "closed") \/ Goto(d, "threw")
  /\ UNCHANGED <<client, locals, server, history>>

-----------------------------------------------------------------------------
(* The other methods, and the server's own steps.                          *)

ResetSpending ==
  /\ totalSpent' = 0
  /\ capExceeded' = 0
  /\ settled' = 0
  /\ unheard' = 0
  /\ UNCHANGED <<accessKeys, openSessions, currentSessionTool, pc, locals, server,
                 known, overlapped, peak>>

ClearAccessKeys(T) ==
  /\ accessKeys' = [t \in Tools |-> IF t \in T THEN None ELSE accessKeys[t]]
  /\ known' = {k \in known : \A t \in T : accessKeys[t] = None \/ accessKeys[t].key # k}
  /\ UNCHANGED <<totalSpent, capExceeded, openSessions, currentSessionTool, pc,
                 locals, server, overlapped, peak, settled, unheard>>

\* expiresAt passes.
Expire(k) ==
  /\ k \in Mortal
  /\ left[k] # None
  /\ k \notin expired
  /\ expired' = expired \cup {k}
  /\ UNCHANGED <<client, pc, locals, left, channel, history>>

-----------------------------------------------------------------------------

Next ==
  \/ \E c \in Calls :
       \/ \E t \in Tools : CallTool(c, t)
       \/ ServeUnpaid(c) \/ AskForPayment(c) \/ ReturnUnpaid(c) \/ RequestFails(c)
       \/ Refuse(c) \/ StartPaying(c)
       \/ Sign(c) \/ Settle(c) \/ ReturnPaid(c) \/ PaymentFails(c)
  \/ \E d \in Closes :
       \/ \E t \in Tools : CloseSession(d, t)
       \/ CloseThere(d) \/ CloseReturns(d) \/ CloseFails(d) \/ Verify(d)
  \/ ResetSpending
  \/ \E T \in {{t} : t \in Tools} \cup {Tools} : ClearAccessKeys(T)
  \/ \E k \in Keys : Expire(k)

Spec == Init /\ [][Next]_vars

-----------------------------------------------------------------------------
(* Properties.                                                             *)

\* What the server has settled since resetSpending, counted or not, at the prices
\* that callTool checked, exceeds maxTotal ("Max total amount the agent can spend
\* (safety cap)", types.ts:392) by at most one maximal call for each call that was
\* paying beside another, and one for each settled payment whose receipt the client
\* never saw: it forgets those, and will spend their amount again.
OverrunBounded ==
  settled <= MaxTotal + ((IF peak = 0 THEN 0 ELSE peak - 1) + unheard) * MaxPerCall

\* However the answers of concurrent calls are reordered, the cache never shows
\* fewer calls on a key than it has, and never shows a used-up key; and a client
\* that makes one call at a time never forgets a key it was told of while the key
\* has calls left, unless it is asked to or the key expires.
KeyCacheTrue ==
  /\ \A t \in Tools :
       accessKeys[t] # None =>
         /\ accessKeys[t].left > 0
         /\ left[accessKeys[t].key] \in 0..accessKeys[t].left
  /\ ~overlapped =>
       \A k \in known :
         left[k] > 0 /\ k \notin expired =>
           \E t \in Tools : accessKeys[t] # None /\ accessKeys[t].key = k

\* When closeSession says that a channel is closed the server has settled it,
\* whatever other calls did to the client's table of sessions meanwhile.  A client
\* that makes one call at a time tracks every open channel under the tool that
\* opened it, with its last voucher, until a closeSession for the tool comes back;
\* and what it tracks between calls is open.
SessionsTracked ==
  /\ \A d \in Closes :
       pc[d] = "closed" => channel[target[d].channel].state = "closed"
  /\ ~overlapped =>
       /\ \A h \in Channels :
            channel[h].state = "open" =>
              \/ openSessions[channel[h].tool] = [channel |-> h, voucher |-> channel[h].voucher]
              \/ \E d \in Closes : pc[d] = "threw" /\ toolOf[d] = channel[h].tool
       /\ Busy = {} =>
            \A t \in Tools :
              openSessions[t] # None =>
                \/ channel[openSessions[t].channel].tool = t
                     /\ channel[openSessions[t].channel].state = "open"
                \/ \E d \in Closes : pc[d] = "threw" /\ toolOf[d] = t
=============================================================================
