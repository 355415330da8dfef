------------------------------ MODULE Metering ------------------------------
(***************************************************************************)
(* What src/server.ts charges, counts and reports: the prices of tools     *)
(* (priceFor), the awaits of every call, which are the redemption of a key,*)
(* the payment, the handler and the puts of a new key (runWrappedHandler,  *)
(* runSession, runAccessKey), the statistics and the revenue               *)
(* (recordPaidCall), the ring buffer of recent calls (appendCall,          *)
(* getRecentCalls), the spans of a call (src/tracing.ts), and what is      *)
(* published of all this: the metrics (src/metrics.ts), the offers of the  *)
(* discovery document (src/discovery.ts) and the calls of the dashboard.   *)
(*                                                                         *)
(* Amounts are decimals at the boundary and base units inside, as in       *)
(* src/amounts.ts.  The records of access keys are in AccessKeys, the      *)
(* shutdown gate and the rate limiter in Gateway.                          *)
(***************************************************************************)
EXTENDS Integers, Sequences, FiniteSets, FiniteSetsExt, Functions

CONSTANTS
  Calls,     \* tool calls, each answered once
  Tools,     \* the server's tools
  Pricing,   \* [Tools -> their PricingModel]
  Amount,    \* [Tools -> the price of those with a flat one]
  Tiers,     \* the tiers: a sequence of [upTo, amount]
  Accept,    \* [Tools -> the currency offers of those with a flat price]
  Currencies, Currency,  \* the currencies, and that of the server
  Capped,    \* whether access keys have maxCalls
  Bound,     \* whether accessKeyBinding is 'wallet'
  Decimals,  \* REVENUE_DECIMALS
  Channels,  \* session channels that may be opened
  LogSize,   \* callLogSize
  MaxExpired,  \* bound: keys that are refused because they have ended
  None       \* no tool, no entry; as upTo, no bound

PricingModel == {"free", "per-call", "tiered", "session", "access-key"}

\* A decimal string, by what it stands for: "0.25" has digits 25 and scale 2.
Decimal == [digits : Nat, scale : Nat]

PricingTier == [upTo : Nat \cup {None}, amount : Decimal]

\* What a call may do to a session channel.
Actions == {"open", "topUp", "voucher", "close"}

ASSUME MeteringAssumption ==
  /\ IsFiniteSet(Calls) /\ IsFiniteSet(Tools)
  /\ Pricing \in [Tools -> PricingModel]
  /\ Amount \in [Tools -> Decimal]
  /\ Decimals \in Nat
  /\ Tiers \in Seq(PricingTier) /\ Tiers # <<>>
  /\ Accept \in [Tools -> SUBSET [currency : Currencies, amount : Decimal]]
  /\ Currency \in Currencies
  /\ {Capped, Bound} \subseteq BOOLEAN
  /\ LogSize \in Nat
  /\ None \notin Nat \cup Tools \cup Channels \cup Actions

VARIABLES
  pc,              \* [Calls -> where the call is]
  toolOf,          \* [Calls -> its tool]
  amount,          \* [Calls -> the price it was charged]
  action,          \* [Calls -> what it did to a session channel, or None]
  trace,           \* [Calls -> its spans, in the order they started]
  stats,           \* the counters of GatewayStats
  callsByTool,     \* [Tools -> calls counted]
  revenueUnitsByTool, totalRevenueUnits,  \* base units
  revenueByTool, totalRevenue,            \* the decimals shown in GatewayStats
  callLog,         \* the slots of the ring buffer
  callLogWriteIndex, callLogCount,
  open,            \* the channels that are open, as mppx has them
  minted,          \* the calls whose key is in the store
  logged,          \* history: every entry appended to the log, in order
  received,        \* history: calls a payment.received was emitted for
  issued,          \* history: calls an access-key.issued was emitted for
  failures,        \* history: calls a call.failed was emitted for
  peak             \* history: the most calls that were inside at once

revenue == <<revenueUnitsByTool, totalRevenueUnits, revenueByTool, totalRevenue>>
meters == <<stats, callsByTool, revenue>>
log == <<callLog, callLogWriteIndex, callLogCount, logged>>
events == <<received, issued, failures>>
vars == <<pc, toolOf, amount, action, trace, meters, log, open, minted, events, peak>>

-----------------------------------------------------------------------------

Counters == {"totalCalls", "paidCalls", "freeCalls", "sessionCalls",
             "accessKeyCalls", "sessionsOpened", "sessionsClosed",
             "accessKeysIssued", "accessKeysExpired"}

Entry == [call : Calls, paid : BOOLEAN, error : BOOLEAN]

Slots == 0..LogSize - 1

Span == [name : {"tool.call", "access-key.redeem", "payment.charge",
                 "session.advance", "handler.run"},
         status : {"open", "ok", "error", "unset"}]

Inside == {c \in Calls : pc[c] \in {"redeeming", "charging", "handling", "storing", "restoring"}}

Answered == {c \in Calls : pc[c] = "answered"}

\* The call went by a payment: it is not free, and no key was redeemed for it.
Charged(c) ==
  \E i \in DOMAIN trace[c] : trace[c][i].name \in {"payment.charge", "session.advance"}

Paid == {c \in Answered : Charged(c)}

TypeOK ==
  /\ pc \in [Calls -> {"idle", "redeeming", "charging", "handling", "storing", "restoring",
                      "answered", "failed", "challenged"}]
  /\ toolOf \in [Calls -> Tools \cup {None}]
  /\ amount \in [Calls -> Decimal]
  /\ action \in [Calls -> Actions \cup {None}]
  /\ trace \in [Calls -> Seq(Span)]
  /\ stats \in [Counters -> Nat]
  /\ callsByTool \in [Tools -> Nat]
  /\ revenueUnitsByTool \in [Tools -> Nat]
  /\ totalRevenueUnits \in Nat
  /\ revenueByTool \in [Tools -> Decimal]
  /\ totalRevenue \in Decimal
  /\ callLog \in [Slots -> Entry \cup {None}]
  /\ callLogWriteIndex \in Slots \cup {0}
  /\ callLogCount \in 0..LogSize
  /\ open \subseteq Channels
  /\ logged \in Seq(Entry)
  /\ minted \cup received \cup issued \cup failures \subseteq Calls
  /\ peak \in Nat

Zero == [digits |-> 0, scale |-> 0]

Init ==
  /\ pc = [c \in Calls |-> "idle"]
  /\ toolOf = [c \in Calls |-> None]
  /\ amount = [c \in Calls |-> Zero]
  /\ action = [c \in Calls |-> None]
  /\ trace = [c \in Calls |-> <<>>]
  /\ stats = [s \in Counters |-> 0]
  /\ callsByTool = [t \in Tools |-> 0]
  /\ revenueUnitsByTool = [t \in Tools |-> 0]
  /\ totalRevenueUnits = 0
  /\ revenueByTool = [t \in Tools |-> Zero]
  /\ totalRevenue = Zero
  /\ callLog = [i \in Slots |-> None]
  /\ callLogWriteIndex = 0
  /\ callLogCount = 0
  /\ open = {}
  /\ minted = {}
  /\ logged = <<>>
  /\ received = {}
  /\ issued = {}
  /\ failures = {}
  /\ peak = 0

-----------------------------------------------------------------------------
(* Amounts and prices.                                                     *)

\* usdStringToBaseUnits throws at more decimals than the currency has.
Supported(d) == d.scale <= Decimals

\* 10 ** n, as a function that can be reasoned about.
Pow10[n \in Nat] == IF n = 0 THEN 1 ELSE 10 * Pow10[n - 1]

\* usdStringToBaseUnits: the fraction is padded to Decimals digits.
ToBaseUnits(d) == d.digits * Pow10[Decimals - d.scale]

\* baseUnitsToUsdString: "0", or all the decimals of the currency.
ToUsdString(units) ==
  IF units = 0 THEN Zero ELSE [digits |-> units, scale |-> Decimals]

\* Variant: the call that reaches upTo still has the tier's price.
PriceUpToIncluded(t, calls) ==
  IF Pricing[t] # "tiered" THEN Amount[t]
  ELSE LET fits == {i \in DOMAIN Tiers : Tiers[i].upTo = None \/ calls <= Tiers[i].upTo}
       IN  Tiers[IF fits = {} THEN Len(Tiers) ELSE Min(fits)].amount

\* priceFor: the first tier with room for another call, or else the last one.
PriceFor(t, calls) ==
  IF Pricing[t] # "tiered" THEN Amount[t]
  ELSE LET fits == {i \in DOMAIN Tiers : Tiers[i].upTo = None \/ calls < Tiers[i].upTo}
       IN  Tiers[IF fits = {} THEN Len(Tiers) ELSE Min(fits)].amount

-----------------------------------------------------------------------------
(* The call log.                                                           *)

\* Variant: the buffer wraps one slot early.
AppendCallShort(e) ==
  IF LogSize = 0 THEN UNCHANGED log
  ELSE /\ callLog' = [callLog EXCEPT ![callLogWriteIndex] = e]
       /\ callLogWriteIndex' =
            IF callLogWriteIndex + 1 >= LogSize - 1 THEN 0 ELSE callLogWriteIndex + 1
       /\ callLogCount' = IF callLogCount < LogSize THEN callLogCount + 1 ELSE LogSize
       /\ logged' = Append(logged, e)

\* Variant: the count goes on past the capacity.
AppendCallUnbounded(e) ==
  IF LogSize = 0 THEN UNCHANGED log
  ELSE /\ callLog' = [callLog EXCEPT ![callLogWriteIndex] = e]
       /\ callLogWriteIndex' = (callLogWriteIndex + 1) % LogSize
       /\ callLogCount' = callLogCount + 1
       /\ logged' = Append(logged, e)

\* appendCall.
AppendCall(e) ==
  IF LogSize = 0 THEN UNCHANGED log
  ELSE /\ callLog' = [callLog EXCEPT ![callLogWriteIndex] = e]
       /\ callLogWriteIndex' = (callLogWriteIndex + 1) % LogSize
       /\ callLogCount' = IF callLogCount < LogSize THEN callLogCount + 1
                          ELSE callLogCount
       /\ logged' = Append(logged, e)

\* getRecentCalls: newest first.
RecentCalls(limit) ==
  LET n == Max({0, Min({limit, callLogCount})})
  IN  [i \in 1..n |-> callLog[(callLogWriteIndex - i + LogSize) % LogSize]]

-----------------------------------------------------------------------------
(* Spans.                                                                  *)

\* startSpan.
Start(spans, name) == Append(spans, [name |-> name, status |-> "open"])

\* The span started last gets its status and ends.
End(spans, status) == [spans EXCEPT ![Len(spans)].status = status]

Root == Start(<<>>, "tool.call")

\* The root span ends, and with it the call.
EndRoot(spans, status) == [spans EXCEPT ![1].status = status]

PaymentSpan(t) ==
  IF Pricing[t] = "session" THEN "session.advance" ELSE "payment.charge"

-----------------------------------------------------------------------------
(* A call.                                                                 *)

Count(S) == [s \in Counters |-> IF s \in S THEN stats[s] + 1 ELSE stats[s]]

Enter(c, t, where, span) ==
  /\ pc[c] = "idle"
  /\ pc' = [pc EXCEPT ![c] = where]
  /\ toolOf' = [toolOf EXCEPT ![c] = t]
  /\ trace' = [trace EXCEPT ![c] = Start(Root, span)]
  /\ peak' = Max({peak, Cardinality(Inside) + 1})

\* A free tool: counted before its handler runs.
CallFree(c, t) ==
  /\ Pricing[t] = "free"
  /\ Enter(c, t, "handling", "handler.run")
  /\ stats' = Count({"totalCalls", "freeCalls"})
  /\ callsByTool' = [callsByTool EXCEPT ![t] = @ + 1]
  /\ UNCHANGED <<amount, action, revenue, log, open, minted, events>>

\* A paid tool: the price is taken from the calls counted so far.
CallPaid(c, t) ==
  /\ Pricing[t] # "free"
  /\ Enter(c, t, "charging", PaymentSpan(t))
  /\ amount' = [amount EXCEPT ![c] = PriceFor(t, callsByTool[t])]
  /\ UNCHANGED <<action, meters, log, open, minted, events>>

\* The call presents an access key.
CallWithKey(c, t) ==
  /\ Pricing[t] = "access-key"
  /\ Enter(c, t, "redeeming", "access-key.redeem")
  /\ UNCHANGED <<amount, action, meters, log, open, minted, events>>

\* Variant: a failed call is announced and not logged.
FailUnlogged(c, spans) ==
  /\ pc' = [pc EXCEPT ![c] = "failed"]
  /\ trace' = [trace EXCEPT ![c] = EndRoot(spans, "error")]
  /\ failures' = failures \cup {c}
  /\ UNCHANGED <<amount, action, log, open, received, issued>>

\* The catch blocks of runWrappedHandler and of the handler around it.
Fail(c, spans) ==
  /\ pc' = [pc EXCEPT ![c] = "failed"]
  /\ trace' = [trace EXCEPT ![c] = EndRoot(spans, "error")]
  /\ AppendCall([call |-> c, paid |-> FALSE, error |-> TRUE])
  /\ failures' = failures \cup {c}
  /\ UNCHANGED <<amount, action, open, received, issued>>

\* The wallet of the payer cannot be read, and the call is refused before it is
\* charged (resolveKeyBinding).
CallUnbound(c, t) ==
  /\ Pricing[t] = "access-key" /\ Bound
  /\ pc[c] = "idle"
  /\ toolOf' = [toolOf EXCEPT ![c] = t]
  /\ peak' = Max({peak, Cardinality(Inside) + 1})
  /\ Fail(c, Root)
  /\ UNCHANGED <<meters, minted>>

\* The key is good: its call runs without a payment.
KeyHonoured(c) ==
  /\ pc[c] = "redeeming"
  /\ pc' = [pc EXCEPT ![c] = "handling"]
  /\ trace' = [trace EXCEPT ![c] = Start(End(trace[c], "ok"), "handler.run")]
  /\ UNCHANGED <<toolOf, amount, action, meters, log, open, minted, events, peak>>

\* The key is refused, and counted if it had ended.  The call goes on to the
\* payment, unless its wallet cannot be read (resolveKeyBinding).
KeyRejected(c) ==
  /\ pc[c] = "redeeming"
  /\ \E ended \in BOOLEAN :
       /\ ended => stats["accessKeysExpired"] < MaxExpired
       /\ stats' = Count(IF ended THEN {"accessKeysExpired"} ELSE {})
  /\ LET spans == End(trace[c], "ok")
     IN  \/ /\ pc' = [pc EXCEPT ![c] = "charging"]
            /\ amount' = [amount EXCEPT ![c] = Amount[toolOf[c]]]
            /\ trace' = [trace EXCEPT ![c] = Start(spans, "payment.charge")]
            /\ UNCHANGED <<toolOf, action, log, open, events, peak>>
         \/ Bound /\ Fail(c, spans) /\ UNCHANGED <<toolOf, peak>>
  /\ UNCHANGED <<callsByTool, revenue, minted>>

RedeemThrows(c) ==
  /\ pc[c] = "redeeming"
  /\ Fail(c, End(trace[c], "error"))
  /\ UNCHANGED <<toolOf, meters, minted, peak>>

\* The call carries no payment: it ends with the challenge, and is made again.
\* The span is marked only if the challenge was returned and not thrown.
PaymentRequired(c) ==
  /\ pc[c] = "charging"
  /\ pc' = [pc EXCEPT ![c] = "idle"]
  /\ toolOf' = [toolOf EXCEPT ![c] = None]
  /\ amount' = [amount EXCEPT ![c] = Zero]
  /\ \E status \in {"ok", "unset"} :
       trace' = [trace EXCEPT ![c] = EndRoot(End(trace[c], status), "ok")]
  /\ UNCHANGED <<action, meters, log, open, minted, events, peak>>

\* mppx.charge or mppx.session settles.
PaymentSettles(c) ==
  /\ pc[c] = "charging"
  /\ pc' = [pc EXCEPT ![c] = "handling"]
  /\ trace' = [trace EXCEPT ![c] = Start(End(trace[c], "ok"), "handler.run")]
  /\ IF Pricing[toolOf[c]] # "session" THEN UNCHANGED <<action, open>>
     ELSE \E a \in Actions, h \in Channels :
            /\ IF a = "open" THEN h \notin open /\ open' = open \cup {h}
               ELSE /\ h \in open
                    /\ open' = IF a = "close" THEN open \ {h} ELSE open
            /\ action' = [action EXCEPT ![c] = a]
  /\ UNCHANGED <<toolOf, amount, meters, log, minted, events, peak>>

\* Variant: nothing ends the span of a payment that failed.
PaymentThrowsOpen(c) ==
  /\ pc[c] = "charging"
  /\ Fail(c, trace[c])
  /\ UNCHANGED <<toolOf, meters, minted, peak>>

PaymentThrows(c) ==
  /\ pc[c] = "charging"
  /\ Fail(c, End(trace[c], "error"))
  /\ UNCHANGED <<toolOf, meters, minted, peak>>

\* mppx.session throws where it is called, outside the try of its span.
SessionSetupThrows(c) ==
  /\ pc[c] = "charging" /\ Pricing[toolOf[c]] = "session"
  /\ Fail(c, trace[c])
  /\ UNCHANGED <<toolOf, meters, minted, peak>>

HandlerThrows(c) ==
  /\ pc[c] = "handling"
  /\ Fail(c, End(trace[c], "error"))
  /\ UNCHANGED <<toolOf, meters, minted, peak>>

\* The handler throws what looks like a challenge (isPaymentRequired): the call
\* ends with it, with no entry and no event, even if it has been paid for.
HandlerChallenges(c) ==
  /\ pc[c] = "handling"
  /\ pc' = [pc EXCEPT ![c] = "challenged"]
  /\ trace' = [trace EXCEPT ![c] = EndRoot(End(trace[c], "error"), "ok")]
  /\ UNCHANGED <<toolOf, amount, action, meters, log, open, minted, events, peak>>

-----------------------------------------------------------------------------
(* Its books.                                                              *)

\* Variant: only channels that are opened are counted.
CountPaidOpensOnly(c, more) ==
  /\ stats' = Count({"totalCalls", "paidCalls"} \cup more
                    \cup (IF Pricing[toolOf[c]] = "session" THEN {"sessionCalls"} ELSE {})
                    \cup (IF action[c] = "open" THEN {"sessionsOpened"} ELSE {}))
  /\ callsByTool' = [callsByTool EXCEPT ![toolOf[c]] = @ + 1]

\* The counters of runSession and recordPaidCall, raised before the amount is
\* converted.
CountPaid(c, more) ==
  /\ stats' = Count({"totalCalls", "paidCalls"} \cup more
                    \cup (IF Pricing[toolOf[c]] = "session" THEN {"sessionCalls"} ELSE {})
                    \cup (IF action[c] = "open" THEN {"sessionsOpened"} ELSE {})
                    \cup (IF action[c] = "close" THEN {"sessionsClosed"} ELSE {}))
  /\ callsByTool' = [callsByTool EXCEPT ![toolOf[c]] = @ + 1]

\* Variant: the revenue is what the tool costs when the handler returns.
EarnedLate(c) ==
  LET price == PriceFor(toolOf[c], callsByTool[toolOf[c]])
  IN  IF Supported(price) THEN ToBaseUnits(price) ELSE 0

Earned(c) == ToBaseUnits(amount[c])

\* The rest of recordPaidCall: the sums in base units, and the decimals shown.
AddRevenue(t, units) ==
  /\ revenueUnitsByTool' = [revenueUnitsByTool EXCEPT ![t] = @ + units]
  /\ totalRevenueUnits' = totalRevenueUnits + units
  /\ revenueByTool' =
       [revenueByTool EXCEPT ![t] = ToUsdString(revenueUnitsByTool[t] + units)]
  /\ totalRevenue' = ToUsdString(totalRevenueUnits + units)

Answer(c, spans) ==
  /\ pc' = [pc EXCEPT ![c] = "answered"]
  /\ trace' = [trace EXCEPT ![c] = EndRoot(spans, "ok")]
  /\ AppendCall([call |-> c, paid |-> Charged(c), error |-> FALSE])
  /\ received' = IF Charged(c) THEN received \cup {c} ELSE received
  /\ issued' = IF Charged(c) /\ Pricing[toolOf[c]] = "access-key"
               THEN issued \cup {c} ELSE issued
  /\ UNCHANGED <<toolOf, amount, action, open, failures, peak>>

\* The end of a paid call.  It is counted, and then fails if its amount cannot
\* be converted: it has settled, and no revenue is recorded.
Record(c, spans, more) ==
  /\ CountPaid(c, more)
  /\ IF Supported(amount[c])
       THEN AddRevenue(toolOf[c], Earned(c)) /\ Answer(c, spans)
       ELSE Fail(c, spans) /\ UNCHANGED <<toolOf, revenue, peak>>

\* The handler returns.  A redeemed call is counted now, as a free one was at its
\* start; a purchase of a key has the key to store.
HandlerReturns(c) ==
  /\ pc[c] = "handling"
  /\ LET spans == End(trace[c], "ok")
     IN  \/ /\ ~Charged(c)
            /\ Answer(c, spans)
            /\ IF Pricing[toolOf[c]] = "free" THEN UNCHANGED <<stats, callsByTool>>
               ELSE /\ stats' = Count({"totalCalls", "accessKeyCalls"})
                    /\ callsByTool' = [callsByTool EXCEPT ![toolOf[c]] = @ + 1]
            /\ UNCHANGED <<revenue, minted>>
         \/ /\ Charged(c) /\ Pricing[toolOf[c]] # "access-key"
            /\ Record(c, spans, {})
            /\ UNCHANGED minted
         \/ /\ Charged(c) /\ Pricing[toolOf[c]] = "access-key"
            /\ pc' = [pc EXCEPT ![c] = "storing"]
            /\ trace' = [trace EXCEPT ![c] = spans]
            /\ UNCHANGED <<toolOf, amount, action, meters, log, open, minted, events, peak>>

\* storeRecord is done: the key is counted, and if it is capped put once more.
KeyStored(c) ==
  \/ /\ pc[c] = "storing"
     /\ minted' = minted \cup {c}
     /\ IF Capped
        THEN /\ pc' = [pc EXCEPT ![c] = "restoring"]
             /\ stats' = Count({"accessKeysIssued"})
             /\ UNCHANGED <<toolOf, amount, action, trace, callsByTool, revenue, log, open,
                            events, peak>>
        ELSE Record(c, trace[c], {"accessKeysIssued"})
  \/ /\ pc[c] = "restoring"
     /\ Record(c, trace[c], {})
     /\ UNCHANGED minted

\* A put fails, before the store took it or after.
StoreThrows(c) ==
  /\ pc[c] \in {"storing", "restoring"}
  /\ minted' \in {minted, minted \cup {c}}
  /\ Fail(c, trace[c])
  /\ UNCHANGED <<toolOf, meters, peak>>

-----------------------------------------------------------------------------
(* What is published.                                                      *)

\* revenueToMicroUsd.
MicroUsd(d) == IF d = Zero THEN 0 ELSE ToBaseUnits(d)

\* formatMetrics.
Scrape ==
  [calls     |-> callsByTool,
   mode      |-> [paid |-> stats["paidCalls"], free |-> stats["freeCalls"],
                  session |-> stats["sessionCalls"],
                  access_key |-> stats["accessKeyCalls"], total |-> stats["totalCalls"]],
   revenue   |-> MicroUsd(totalRevenue),
   revenueOf |-> [t \in Tools |-> MicroUsd(revenueByTool[t])],
   inFlight  |-> Cardinality(Inside),
   issued    |-> stats["accessKeysIssued"],
   expired   |-> stats["accessKeysExpired"],
   opened    |-> stats["sessionsOpened"],
   closed    |-> stats["sessionsClosed"]]

\* usdToBaseUnits: Math.round, which takes the half up.
UsdToBaseUnits(d) ==
  (2 * d.digits * Pow10[Decimals] + Pow10[d.scale]) \div (2 * Pow10[d.scale])

\* d is less than e.
Cheaper(d, e) == d.digits * Pow10[e.scale] < e.digits * Pow10[d.scale]

\* Variant: the first tier is advertised.
CheapestIsFirst == Tiers[1].amount

\* The first of the cheapest tiers.
Cheapest ==
  LET least == {i \in DOMAIN Tiers :
                  \A j \in DOMAIN Tiers : ~Cheaper(Tiers[j].amount, Tiers[i].amount)}
  IN  Tiers[Min(least)].amount

\* buildOffers, of a tool that is not free.
Offers(t) ==
  LET offer(d, currency) ==
        [intent |-> IF Pricing[t] = "session" THEN "session" ELSE "charge",
         amount |-> UsdToBaseUnits(d), currency |-> currency]
  IN  IF Pricing[t] = "tiered" THEN {offer(Cheapest, Currency)}
      ELSE IF Accept[t] = {} THEN {offer(Amount[t], Currency)}
      ELSE {offer(o.amount, o.currency) : o \in Accept[t]}

\* buildOpenApi: what the document says of each tool.
OpenApi ==
  [t \in Tools |-> [responses |-> IF Pricing[t] = "free" THEN {200} ELSE {200, 402},
                    offers    |-> IF Pricing[t] = "free" THEN {} ELSE Offers(t)]]

\* listTools, of a tool that is not free.
ListedPrice(t) == PriceFor(t, callsByTool[t])

-----------------------------------------------------------------------------

Next ==
  \E c \in Calls :
    \/ \E t \in Tools : CallFree(c, t) \/ CallPaid(c, t)
                    \/ CallWithKey(c, t) \/ CallUnbound(c, t)
    \/ KeyHonoured(c) \/ KeyRejected(c) \/ RedeemThrows(c)
    \/ PaymentRequired(c) \/ PaymentThrows(c) \/ SessionSetupThrows(c) \/ PaymentSettles(c)
    \/ HandlerReturns(c) \/ HandlerThrows(c) \/ HandlerChallenges(c)
    \/ KeyStored(c) \/ StoreThrows(c)

Spec == Init /\ [][Next]_vars

-----------------------------------------------------------------------------
(* Properties.                                                             *)

\* The value of a decimal, to one more decimal than the currency has.
Value(d) == d.digits * Pow10[Decimals + 1 - d.scale]

\* What the calls that were answered were charged.
Charges == [c \in Paid |-> Value(amount[c])]

\* The revenue that is scraped is, to the last decimal and for every tool, what
\* the calls that were answered were charged, whatever the tool costs by the time
\* they end, whatever other calls fail to convert, and after the way through the
\* decimals that GatewayStats shows ("exact across millions of additions",
\* server.ts:111).
RevenueExact ==
  /\ \A t \in Tools :
       10 * Scrape.revenueOf[t] = SumFunctionOnSet(Charges, {c \in Paid : toolOf[c] = t})
  /\ 10 * Scrape.revenue = SumFunctionOnSet(Charges, Paid)

\* The counters that are scraped agree with each other and with the calls: a free
\* call counts when it starts, a redeemed one when it is answered, a paid one when
\* it is answered or has failed for an amount that cannot be converted.  A key
\* that was announced was counted, and one that was counted is in the store.
\* While no session call has failed or is inside, the channels counted as open are
\* those that are ("Total open channel count after this open", webhooks.ts:143).
CallsAddUp ==
  LET free == {c \in Calls : toolOf[c] # None /\ Pricing[toolOf[c]] = "free"}
      redeemed == {c \in Answered : Pricing[toolOf[c]] # "free"} \ Paid
      broken == {c \in Calls : pc[c] = "failed" /\ Charged(c) /\ ~Supported(amount[c])}
      mode == Scrape.mode
  IN  /\ mode.paid \in Cardinality(Paid)..Cardinality(Paid) + Cardinality(broken)
      /\ mode.free = Cardinality(free)
      /\ mode.access_key = Cardinality(redeemed)
      /\ mode.session <= mode.paid
      /\ mode.total = mode.paid + mode.free + mode.access_key
      /\ mode.total = SumFunctionOnSet(Scrape.calls, Tools)
      /\ Scrape.issued \in Cardinality(issued)..Cardinality(minted)
      /\ (\A c \in Calls : action[c] # None => pc[c] = "answered") =>
           Scrape.opened = Scrape.closed + Cardinality(open)

\* The prices of the tiers that end at n calls or before.  The last tier never ends,
\* even with an upTo (priceFor), and what costs the same in another tier is not told
\* apart.
EndedBy(n) ==
  LET ended == {j \in DOMAIN Tiers :
                  j # Len(Tiers) /\ Tiers[j].upTo # None /\ Tiers[j].upTo <= n}
  IN  {Tiers[j].amount : j \in ended} \ {Tiers[j].amount : j \in DOMAIN Tiers \ ended}

\* The prices of the tiers up to upTo go to no more calls than upTo, plus one for
\* each call that was inside beside another: the price is read before the payment
\* and the handler, and the call counted after them ("Calls up to this count use
\* this price", types.ts:117).
TierOvershootBounded ==
  \A t \in Tools, i \in DOMAIN Tiers :
    Pricing[t] = "tiered" /\ Tiers[i].upTo # None =>
      Cardinality({c \in Paid : toolOf[c] = t /\ amount[c] \in EndedBy(Tiers[i].upTo)})
        <= Tiers[i].upTo + Max({peak, 1}) - 1

\* getRecentCalls returns the last entries that were appended, newest first,
\* however often the buffer has wrapped.
RecentCallsAreLatest ==
  \A limit \in -1..LogSize + 1 :
    LET n == Max({0, Min({limit, LogSize, Len(logged)})})
    IN  RecentCalls(limit) = [i \in 1..n |-> logged[Len(logged) - i + 1]]

\* Every call that does not end with a challenge leaves one entry in the log, if
\* there is one, and at most one outcome among the events, and the two agree on how it ended.
OneOutcomePerCall ==
  /\ \A c \in Calls :
       LET entries == {i \in DOMAIN logged : logged[i].call = c}
       IN  IF pc[c] \in {"answered", "failed"} /\ LogSize > 0
           THEN \E i \in DOMAIN logged :
                  /\ entries = {i}
                  /\ logged[i].error = (pc[c] = "failed")
                  /\ logged[i].paid = (c \in Paid)
           ELSE entries = {}
  /\ received = Paid
  /\ issued = {c \in Paid : Pricing[toolOf[c]] = "access-key"}
  /\ failures = {c \in Calls : pc[c] = "failed"}

\* The spans of a call tell how it went: inside, the root is open and with it no
\* span but that of the phase the call is in; when the call has ended, so have all
\* its spans, except that of a session that failed to start, the root says how it
\* ended, and an error is in its last phase, unless it lies behind it ("One child
\* span per logical phase", tracing.ts:20).
SpansTellOutcome ==
  \A c \in Calls :
    LET spans == trace[c]
        With(status) == {i \in DOMAIN spans : spans[i].status = status}
        last == {Len(spans)} \cap DOMAIN spans
    IN  IF c \in Inside
        THEN /\ With("open") = IF pc[c] \in {"storing", "restoring"} THEN {1} ELSE {1} \cup last
             /\ With("error") = {}
        ELSE /\ With("open") \subseteq {i \in last : spans[i].name = "session.advance"}
             /\ 1 \in With("error") <=> pc[c] = "failed"
             /\ spans # <<>> /\ pc[c] # "failed" => 1 \in With("ok")
             /\ With("error") \ {1} \subseteq last
             /\ With("error") # {} => pc[c] \in {"failed", "challenged"}

\* What the discovery document advertises is what is charged: nothing by a tool
\* that does not list 402 among its responses; else exactly the offer, under its
\* intent, and for a tiered tool at least that much, as is the price listed ("a
\* static-but-honest entry", discovery.ts:253).  Amounts are compared for tools
\* without `accept`, which nothing but the document reads.
OffersHonest ==
  \A t \in Tools :
    LET doc == OpenApi[t]
        calls == {c \in Calls : toolOf[c] = t}
    IN  /\ 402 \notin doc.responses => \A c \in calls : ~Charged(c)
        /\ Accept[t] = {} => \A o \in doc.offers :
             /\ Supported(ListedPrice(t)) => ToBaseUnits(ListedPrice(t)) >= o.amount
             /\ \A c \in Paid \cap calls :
                  /\ IF Pricing[t] = "tiered" THEN Earned(c) >= o.amount
                     ELSE Earned(c) = o.amount
                  /\ o.intent = "session" <=>
                       \E i \in DOMAIN trace[c] : trace[c][i].name = "session.advance"
=============================================================================
