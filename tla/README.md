# Formal models of mpp-mcp-gateway

mpp-mcp-gateway puts prices on MCP tools: a server (`PaidMcpServer`) that
answers a tool call only once it is paid for, and a client (`PaidMcpClient`)
that pays within a budget. This directory holds TLA+ models of the parts of it
that keep state and run concurrently, the TLC configurations that check them on
small instances, and theorems about them that the TLA+ proof system checks for
every value of the constants. Line numbers refer to the files of this
repository; `src/src/server.ts` is written `server.ts`, and so on.

- [The system](#the-system)
- [Modules](#modules)
- [Runs](#runs)
- [Fairness](#fairness)
- [Proofs](#proofs)
- [Where the code and its documentation part](#where-the-code-and-its-documentation-part)
- [What is not modelled](#what-is-not-modelled)
- [Plan](#plan)
- [Running it](#running-it)

## The system

A process is single-threaded: what runs between two `await`s runs alone. All
its concurrency is in what may happen *during* an await: another call of the
same process, another process that shares the store or the Redis of the rate
limiter, an operator, a timer, the far end's failure, a crash. Each await of the
modelled functions is therefore a boundary between two actions, and nothing
else is.

| component | code | state | operations |
|---|---|---|---|
| Call gate and shutdown | `server.ts` `registerTool`, `close`, `runShutdown` | `shuttingDown`, `closePromise`, `inFlight`, the transport | a tool call, `close()` |
| Access keys | `server.ts` `runAccessKey`, `listAccessKeys`, `revokeAccessKey`; `access-keys.ts` | the records in the store, the index `issuedKeyTokens` | buy, redeem, list, revoke, expire |
| Stores | `stores/*.ts` | records under tokens | `get`, `put`, `delete`, `update` |
| Rate limiter | `rate-limit.ts`, `server.ts` constructor | a bucket per tool | `consume`, `reset` |
| Pricing and metering | `server.ts` `priceFor`, `runWrappedHandler`, `runSession`, `runAccessKey`, `recordPaidCall` | `stats`, revenue, `callsByTool` | per-call, tiered, session, access-key and free calls |
| Tracing | `tracing.ts` | the open spans of a call | start and end a span |
| Metrics, discovery | `metrics.ts`, `discovery.ts` | none | publish the counters, and the offers of the tools |
| Call log | `server.ts` `appendCall`, `getRecentCalls` | the ring buffer | append, read |
| Webhooks | `webhooks.ts` | `inFlight` deliveries | `emit`, `drain` |
| Client | `client.ts` | spending total, cached keys, open sessions | `callTool`, `closeSession`, `resetSpending`, `clearAccessKeys` |
| Amounts | `amounts.ts` | none | decimals to base units and back |
| Authentication | `auth.ts` | none; its links live by three clocks | `bearerToken`, `apiKey`, `basicAuth`, `signedQuery` |
| Dashboard | `dashboard.ts` | none | the routes `/stats`, `/tools`, `/calls`, `/keys` |
| Command line | `cli.ts` | none but its requests | `inspect`, `stats`, `tools`, `calls`, `keys list`, `keys revoke` |
| Logging, runtime, errors | `logger.ts` ... | none | support |

How they interact. A call passes the **shutdown gate**, waits for the **rate
limiter**, is counted **in flight**, and is then executed under its tool's
pricing: a free handler, a charge settled by mppx, a session voucher, or the
access-key flow, which redeems through the **store** and falls back to a charge
when the redemption is refused. When it ends it moves the **meters** and emits
**webhook** events, which are delivered in the background. `close()` runs beside
all of this: it raises the gate, runs the operator's hook, polls the in-flight
counter, drains the webhooks and closes the transport. The **client** calls,
gets a challenge, compares the price with its caps, lets mppx's wrapper pay, and
keeps what the answer tells of keys and channels. Operators reach a gateway
from the **command line**, through the **dashboard**'s routes and the middlewares of
**auth**, and revoke and list the keys that calls buy and redeem meanwhile. What
the meters and spans hold is **published**: to scrapers, to a tracer, and as offers
to crawlers.

What is hard, and what makes each part correct:

- **Access keys.** Redemptions race with each other, with revocations, with the
  store's TTL and with the two puts that mint a record; answers of a remote
  store get lost; a crash may fall between settlement, puts and answer;
  processes with different binding settings share a store. A key must never
  serve more than its cap, must only serve whom it was sold to, must not come
  back once gone, and listings and counters must agree with what happened.
- **Shutdown.** Calls may be anywhere when it begins; several signal handlers
  call `close()`; the hook, handlers and receivers may hang. Calls that were
  admitted must get their answer and their events must go out; everybody who
  called `close()` must hear one and the same outcome, at last at the deadline.
- **Rate limiter.** Processes' clocks differ and move; scripts arrive out of
  order; answers are lost; Redis evicts. The rate and burst must stay bounded,
  and a client that obeys `retryAfterMs` must get in, though refills are summed in floating point.
- **Webhooks.** Requests are lost, delayed and retried. No event may vanish
  silently, none may be sent past its budget, drains must cover what was queued.
- **Client.** Several calls are in progress at once, and answers arrive in any
  order or not at all. Caps must bound what is spent; keys and channels that were paid for
  must not be forgotten.
- **Metering.** Prices are read before two awaits and counters moved after them.
  Revenue must be exact, tiers must be kept up to the concurrency, each call
  must leave one outcome, the ring buffer must survive its wrap-around. Every path
  through a call, the failing ones too, must end its spans; what is advertised must be
  what is charged.
- **Operators.** Requests and answers are lost, gateways differ in what they
  route and whom they let in, keys are sold, swept and revoked by others while a
  listing walks. What the command line prints of a key must be so. A signed
  link passes three clocks, and a query that whoever has it may reorder and add to:
  it must open what was signed, and must die.

Every place where one of these bites is listed, at its line and with the
properties that watch it, under `hazards` in `PROJECT.json`.

## Modules

| module | what it is | for TLC | proofs |
|---|---|---|---|
| `KeyLedger` | abstract: what buying an access key buys | through `AccessKeys` | `KeyLedgerProofs` |
| `AccessKeys` | the access keys over the four kinds of store | `MCAccessKeys` | `AccessKeysProofs` |
| `Gateway` | the way of a call through the gateway, and the shutdown | itself | `GatewayProofs` |
| `TokenBucket` | the rate limiters | `MCTokenBucket` | `TokenBucketProofs` |
| `Outbox` | abstract: what the webhook dispatcher promises | through `Webhooks` | `WebhooksProofs` |
| `Webhooks` | the webhook dispatcher, the network and the receiver | itself | `WebhooksProofs` |
| `PaidClient` | the client, with the server as it sees it | `MCPaidClient` | `PaidClientProofs` |
| `Metering` | prices, amounts, counters, revenue, spans, the call log, metrics and offers | `MCMetering` | `MeteringProofs` |
| `Auth` | the middlewares, and the life of signed links | through `AdminAccess` | `AdminProofs` |
| `AdminAccess` | operators, the command line, the dashboard's routes, listing and revoking | `MCAdminAccess` | `AdminProofs` |

Each module's `map` entry in `PROJECT.json` gives the lines every definition
stands for. A definition whose comment begins with *Variant:* is not part of a
specification: it is what the action above or below it would be with a
plausible bug, and shows that the properties notice.

### AccessKeys

A *call* is one run of `runAccessKey` (server.ts:775), and names the token it
mints if it mints one. Its `pc` is the await it stands at:

| `pc` | await | leaves by |
|---|---|---|
| `redeem` | `store.update`'s read, or the whole of a memory update | `RedeemInMemory`, `RedeemRead`, `RedeemFault` |
| `swap` | the script of upstash.ts:213, or the write of bridge.ts:82 and of cloudflare-kv.ts | `RedeemSwap`, `RedeemConflict`, `RedeemWrite`, `RedeemFault` |
| `serve` | the tool's handler, for a redeemed call | `ServeReturns`, `ServeThrows` |
| `charge` | mppx's charge | `ChargeSettles`, `ChargeRefused`, `ChargeThrows` |
| `work` | the tool's handler, for a paid call | `WorkReturns`, `WorkThrows` |
| `put`, `put2` | the two `storeRecord`s (server.ts:923, 935) | `PutRecord`, `PutDecremented`, `PutFault` |

`Verdict` is the transform of `redeem`, with its early returns in order.
`RevokeLookup` and `RevokeDelete` are the two awaits of `revokeAccessKey`,
`ListLookup` and `ListPrune` those of `listAccessKeys` for one token. `Expire`
is the clock passing `expiresAt`, `Sweep` the backend's TTL, `Restart` a crash
of the process: calls are lost, the index and counters go, and so does a memory
store. `RedeemFault`, `PutFault` and `RevokeFault` are errors of the store,
before its write took place or after it with the answer lost.

`StoreKind` selects the behaviour of `update`: `"memory"`, one step;
`"upstash"`, compare-and-set with `MaxAttempts`; `"bridge"`, a read and then a
write whatever has happened in between (`Overwritten`); `"kv"`, the same over
Cloudflare KV, where every read is answered with any version the record ever had
(`Readable`, of the history `past` that `Remember` keeps) and nothing is written
where nothing was read. By cloudflare-kv.ts:11 a write takes up to about a
minute to spread; `past` has no such bound, so it allows more than the backend does,
and what is shown holds however long a write takes to spread. A step of the
specification is `Next == Step /\ Remember`.

Abstractions: the token is the name of the call; time is whether a key
is expired; a request presents a key that some client was given (a random
token is refused as `unknown`, exactly as a key that is gone); what a handler
returns is left out. Requests may present a key that was bought by another
wallet or for another tool: `GrantsAreEarned` is about these.

`KeyLedger` has no store, no retries and no faults: a key is sold once, each
use takes a call off it, a call can be wasted, and a key that has ended stays so.
The refinement (`Ledger`, at the end of `AccessKeys`) takes a key to exist from
the moment its buyer has the token, which is what makes the two puts and the
revocation between them invisible to the ledger.

### Gateway

A call is `idle`, at the `limiter`, `paying` or `working` (both inside the
`try`/`finally` of server.ts:400-445), or ended. `phase` is where `runShutdown`
is: the hook, the drain, the webhook drain, the disconnection. `Answer` says
that a call which ends when the transport is gone leaves its client without an
answer. `late` is the drain deadline; the 50 ms poll of the drain is
`DrainCompletes`, which may be taken once the counter is zero. `pending` are the webhook deliveries in
progress, by who emitted them. Payments and handlers of all the pricing models
are one await each here; `AccessKeys` and `Metering` look inside.
`admitted` is a history variable: who was inside when `close()` was called.

### TokenBucket

`Capacity` is composed as the constructor of the server composes it: a tool that
has a limit of its own (`PerTool`) has a bucket of that size, every other key one
of the default size. All of them refill at one rate, which is the unit of time:
time is counted in what it takes to refill one unit, a token costs `Cost` units and a
millisecond refills `Ms`. The code computes in floating point, and the script writes its
tokens down with fourteen digits (`tostring`). So every sum is `Rounded`: any number within
`Slip` of the exact one (`Refilled`, the deficit in `Deny`, what is `Stored` on Upstash), and
`Ceil` rounds `retryAfterMs` up to whole milliseconds. `slack` is a history: by how much the
tokens of a bucket may by now be off. At the default rate and capacity `Slip` is some 10^-14 of a
token (10^-12 on Upstash), and a millisecond refills 10^-3 of one: it takes hundreds of millions of
calls for the slack to come to that. `ConsumeInMemory` is the one step of
`tokenBucketLimiter.consume`. `ConsumeRemotely` reads the process's clock and
sends the script, `RunScript` is Redis running it, some time later and in any order
among those sent, `ScriptFails` an error before or after it ran. `offset` is by how
much a process's clock is ahead, and `SetClock` sets it; `Evict` is the key's
`EX`. `grants` and `promises` are histories too: when calls were allowed, and
when denied callers were told to come back. `RetryAfterSuffices` gives them one millisecond
more than they were told: without it TLC finds the counterexample listed below.

### Webhooks and Outbox

An event is signed, posted, and then acknowledged, or sleeps and is posted
again, or is exhausted and handed to `onDrop`. The wire is a set of requests
(by attempt) that outlive the attempt that sent them: an attempt that the
timeout aborted may be accepted later. `Outbox` says what remains when the wire,
the retries and the timers are taken away. `Gateway` uses the dispatcher too,
reduced to a set of pending deliveries and the snapshot `drain()` waits for.

### PaidClient

`CallTool` is the first part of `callTool`, up to its request; `AskForPayment`
and `ServeUnpaid` are the server's answers to it; `Refuse` and `StartPaying`
are the checks of the caps; `Sign` is mppx's wrapper asking again and signing,
which reports the channel through `onChannelUpdate`; `Settle` is the server
accepting; `ReturnPaid` is what the client does with the answer. Between any two
of them other calls run. `RequestFails` and `PaymentFails` are failures
before or after the server acted. The server (keys it sold, channels it has) is
external: it is modelled as the client must expect it. Histories: the keys the
client was told of, whether calls ever overlapped, how many were paying at
once, what the server `settled` since `resetSpending` (at the prices `callTool` checked),
and how many of these payments were `unheard` of: settled, and then the answer was lost or
had no receipt, so that `totalSpent` leaves them out.

### Metering

A call is at one of the awaits of `runWrappedHandler`, `runSession` and
`runAccessKey`:

| `pc` | await | leaves by |
|---|---|---|
| `redeeming` | the redemption of the key it presents | `KeyHonoured`, `KeyRejected`, `RedeemThrows` |
| `charging` | mppx's charge or session | `PaymentRequired`, `PaymentSettles`, `PaymentThrows`, `SessionSetupThrows` |
| `handling` | the tool's handler | `HandlerReturns`, `HandlerThrows`, `HandlerChallenges` |
| `storing`, `restoring` | the first and the second put of a key | `KeyStored`, `StoreThrows` |

`CallFree`, `CallPaid`, `CallWithKey` and `CallUnbound` begin one, a paid one with the price
read at that moment. `PaymentSettles` is, for a session, also what mppx did to the channel.
What follows an await logs, counts and emits in the one step the code does it in;
`Fail` is the catch block, and `HandlerChallenges` a handler that throws
what the code takes for a 402, which goes by it. Of a key's record there is only
that it is in the store (`minted`); the rest is in `AccessKeys`.

`trace` is the spans of a call in the order they start, with their status
(`Start`, `End`, `EndRoot`): `SpansTellOutcome` compares it with where the call
is. `Scrape` is what `formatMetrics` publishes, `OpenApi` and `Offers` what the
discovery document says; the properties about counters, revenue and prices are stated of
these, so that the way through them is checked too.

`AppendCall` and `RecentCalls` are the ring buffer as the code indexes it, and
the property compares them with the plain sequence of everything ever appended.

An amount is a decimal, given by its digits and its scale (`"0.25"` is 25 at
scale 2); the syntax of the string is left out. `ToBaseUnits` pads the fraction
to `Decimals` digits and `ToUsdString` writes all of them out, as `amounts.ts`
does; `UsdToBaseUnits` rounds, as `discovery.ts` does. The first conversion throws at more
decimals than that, and it runs after the counters have moved: such a call has
settled and is counted, then fails, and no revenue is recorded for it.

### Auth and AdminAccess

A *command* is one run of the command line. `Type` is `main` with what was
typed: `Parse` is `parseArgs` with `resolveUrl` and `resolveToken`, and
`Understood` leaves out the lines that only get the usage printed. A command has a
request per route, and `job` says where the gateway is with each: on its way
(`sent`), answered with a status, or at an await (`walking` the index, or having
`found` the key to revoke). `heard` is what came back. So a request or an answer
that is lost (`Lost`) is a command that has heard `lost`, while the gateway goes
on or never starts. `Report` is what the command prints of all it heard.

`ListLooksUp` is one iteration of `listAccessKeys`: the code walks a live set
across its awaits, so tokens that are sold meanwhile are met and those that were
deleted are not; `ListThrows` is a lookup that fails, and the 500 of the route.
`RevokeLooksUp` and `RevokeDeletes` are the two awaits of `revokeAccessKey`,
`RevokeThrows` the failure of either, before the store has acted or after.

`Guard` gives each gateway its middlewares, each of which lets a request through or answers 401
(`Passes`, `Denied`); `Keyed` are the gateways that have the routes `/keys` at
all, for the command line has to do with older ones. `Canonical` is the text
`signedQuery` signs: the path and, sorted by name, the parameters that have a value to
`readQueryString` (`Parameter`, `Readable`): the first one given, if that is text. A link is
minted by the clock of whoever mints it (`Leads`), tried by that of the gateway (`Lag`), and opened
with a query that its holder writes (`Queries`): the parameters in any order, any of them given
again with other values, another timestamp, and values that are no text (`Nested`), which Express
makes of `name[key]=value` where its extended parser is chosen. `LinksGenuine` says just which of these queries
pass.

Abstractions: a key is put and taken in one step, since the two puts and their race with
a revocation are in `AccessKeys`; an HMAC is the text it is computed of, known
only once minted; the set is walked in any order; of
`parseLimit` there is the bound it has (`MaxLimit`).

## Runs

Distinct states and time are of two workers; all passing runs are exhaustive.

| run | states | time |
|---|---|---|
| `keys_memory` | 564 k | 24 s |
| `keys_upstash` | 267 k | 22 s |
| `keys_shared` | 2.2 M | 73 s |
| `gateway_shutdown` | 99 k | 8 s |
| `token_limits` | 624 k | 18 s |
| `webhooks_delivery` | 53 k | 11 s |
| `client_calls` | 1.47 M | 70 s |
| `metering_calls` | 313 k | 29 s |
| `admin_access` | 1.06 M | 65 s |

- **`keys_memory`**: one process with its memory store and bearer keys; a tool
  whose keys are capped at three and one whose keys are timed and uncapped; four
  calls, one revocation. Four calls are what it takes to
  buy a key, use it up and ask once more. Shows `RevokedIsUnknown`,
  `ListingIsComplete` and `RemainingNeverGrows`.
  Restarts are left to `keys_upstash`; that of a memory store is in the proofs, which
  cover the three properties.
- **`keys_upstash`**: cap two, three calls, two attempts of the compare-and-set,
  faults before and after each write, sweeps, a revocation and restarts of a process whose store
  survives it. One buyer and two redemptions that race are
  enough for every conflict: one attempt meets it, the second gives up or
  succeeds. Shows `BudgetRespected` (the cap), `OnlyIssuerRevives`, and that the ledger is implemented.
- **`keys_shared`**: two processes, of which one binds keys to wallets, over a
  Cloudflare KV, the weakest of the stores; two tools with a cap of two; two wallets; payers
  that can and cannot be attributed. Three calls: two purchases and a redemption
  that mixes them up in every way, or a purchase and two redemptions that read
  stale versions of it. Shows `GrantsAreEarned` and `BooksBalance`. The cap is not
  claimed here: bridge.ts and cloudflare-kv.ts document that it may be overrun.
- **`gateway_shutdown`**: a paid and a free call, a revocation that emits an
  event, two callers of `close()`, a hook that resolves or throws. Two calls are enough for
  one admitted and one refused or late, and for a counter to be wrong by one.
  Shows the six properties of the shutdown and, under fairness, that `close()` is
  always answered although calls and deliveries may hang.
- **`token_limits`**: three callers, a bucket of fifteen units in memory, configured for its tool,
  and one of the default ten on Upstash, a
  token of ten units that takes two milliseconds to refill, every sum off by up to a unit (so that
  fractions matter, bursts differ and a refill may fall short of a token), a clock
  that is set ahead and back by two milliseconds, faults, eviction after two idle milliseconds, and
  three milliseconds of time: a full refill of either bucket. Shows `RateBound` for memory buckets
  and `RetryAfterSuffices` for both. `token_reordered` needs no rounding and has none.
- **`webhooks_delivery`**: three events, one of a type that is not subscribed to, two
  attempts each, one drain. Two attempts have a first, a backoff and a last; two deliveries interleave.
  Shows `NothingLostSilently`, that the dispatcher implements `Outbox` (with it, that a drain
  covers all that was queued before it), and that every delivery settles.
- **`client_calls`**: three calls and a `closeSession`, over a key tool, a
  session tool and a free one; prices 2 and 3 against caps of 2 per call and 3
  in all, so that calls are refused by each cap, and three together, or two of which the first is
  not heard of again, may overrun it; two keys, one of which
  expires; two channels; deposits below and above the cap. `OverrunBounded` and the first conjuncts of `KeyCacheTrue` and
  `SessionsTracked` hold whatever overlaps; the second conjuncts (a key or channel that was paid for
  is not forgotten) are stated for a client that makes one call at a time, since the code gives
  them up when calls overlap (see below).
- **`metering_calls`**: three calls on a free, a tiered, a session and an access-key tool, tiers
  that end after one, two and never, a log of two slots, so that the buffer
  wraps; one channel that is opened, topped up, used and closed. The prices
  have different scales, with two decimals for the currency, and the last tier
  has a decimal too many: the one call that meets it, with two answered before, shows what is counted of
  a call whose amount cannot be converted. One key refused because it had ended is enough
  for its counter.
- **`admin_access`**: two commands, of five lines that operators may type, two keys and five gateways:
  one that sells keys, one with two middlewares, one without the routes for keys,
  and two that links open, whose clocks differ by a second. Two commands are what it
  takes for revocations to meet each other, or a listing; two keys for one to be
  listed while the other is taken. Links live for a second, with a second of
  tolerance, and the clock runs to five: a link that was minted two seconds
  ahead comes to life, and everything is dead before the end. One link is enough,
  as nothing relates two; it has one parameter with two values, or none, beside its timestamp, and is
  tried with every query of up to three parameters: both of its own, in either order, and
  one given again before, between or after them. The part of the links and that of the commands share
  no variable, so `SpecApart` explores each from its initial state instead of
  all their interleavings. Shows `RevokeReportsTrue`, `ListsAreHonest`,
  `LinksGenuine` and `LinksExpire`.
- The three runs that end in a violation are described
  [below](#where-the-code-and-its-documentation-part).

Deadlock is checked for the access keys and the gateway, whose next-state
relations say when the system is at rest (`Rest`). In the other modules every
bounded activity may simply be over, so their configurations switch it off;
that nothing gets stuck in `Webhooks` is what `EveryDeliverySettles` says.

Symmetry: calls, revocations, wallets, commands and channels are interchangeable where the
configurations say so: no definition distinguishes them. `GatewayShutdown.cfg`
and `WebhooksDelivery.cfg`, which check liveness, use none.

Bounds are the sets of the configurations, plus constants that name a
bound on a number: `MaxNow` (the clocks of `TokenBucket` and `Auth`), `MaxLinks`
(links minted), `MaxGiven` (parameters in a URL), `MaxExpired` (keys refused as ended), `MaxAttempts` (of the
code's own loops), `LogSize` and `MaxLimit` (of the code's own buffer and answers). No counter is cut off
otherwise: each grows with the calls, which are made once each.

## Fairness

- `Gateway`: weak fairness of the steps of `runShutdown` (`ShutdownStep`: the
  deadline passes, the drain ends, the webhooks are drained, the transport is
  closed) and of the answer to each caller of `close()`. These are timers and
  resolved promises: the event loop takes them when they are due. `HookSettles`
  is assumed fair as well; this is an assumption on the operator, whose hook
  the code awaits without a deadline. Nothing is assumed of calls, handlers,
  deliveries and receivers.
- `Webhooks`: weak fairness of the next attempt, of the end of a fetch (its
  timeout aborts it), of `onDrop` settling (again an assumption on the
  operator), and of the end of a drain. Nothing is assumed of the network.

The other modules check safety only and state no fairness.

## Proofs

TLC checks the instances above; the theorems hold for every set of calls,
processes, tools, wallets, closers and buckets, every price, tier, cap, capacity, cost and
number of attempts, with and without faults, sweeps and restarts. Every invariant and every action
property that a passing run checks is a theorem. They rest on the named assumptions of the modules
(`PricingAssumption`, `PaymentAssumption`, `CallsAssumption`, `StoreAssumption`,
`AbsenceAssumption` in `AccessKeys`, `PaidClient` and `Auth`, `GatewayAssumption`, `LimiterAssumption`,
`WebhookAssumption`, `ClientAssumption`, `MeteringAssumption`, `AuthAssumption`, `AdminAssumption`,
`LinesAssumption`, `ParsedAssumption`), which are what the code's own validation accepts, or say that
calls and tools are finitely
many and that `None` is none of the values it stands beside. TLC evaluates them in every
run of the module.

**Access keys** (`AccessKeysProofs`). `TypeOK` is not inductive: a call in the
middle of a redemption must have a key, and a record that is about to be
decremented a call left. `Typed` adds this (`Shape`). On top of it:

- `Holders`: a key that is presented was delivered to a call that paid, and
  only a call that has paid is minting one;
- `Genuine`: every version a record in the store has or had, and every record a
  redemption has read, matches the purchase it came from (tool, wallet, capped or not), and what
  was accepted has been honoured.

`Sound`, the conjunction of the three, is inductive over *every* kind of store, and gives
`ServedCallsArePaid` (`GrantsAreEarned`): even over a store that loses updates
and answers with versions long replaced, nobody is served who has not bought. For
atomic stores (`StoreKind \in {"memory", "upstash"}`) two more:

- `Unspent`: until its buyer has it, a key has no record or its whole cap;
- `Balanced`: calls left, calls served and the paying call are within the cap.

`AtomicInv` is the five together. It needs `Unspent` because the second put of
the issuing call overwrites whatever the record has become: this is harmless to the
cap only as nobody can have presented the key yet, which is `Holders`. It gives
`CapsAreKept` (`BudgetRespected`), `RedemptionNeverRevives`
(`OnlyIssuerRevives`) and `ExhaustionIsSticky` (`RemainingNeverGrows`).
The argument about one step is made once: `StoreStep` lists the ways a record can
change (it goes, its issuer puts it, a redemption rewrites it), `GrantsStep` the
way the calls served can.

Over a memory store `MemoryInv` is inductive on top of it: the two puts of a key are one step
there, so a key that is listed or that an operator holds is finished, and nothing can put it
back once it is deleted. It gives `RevocationIsFinal` (`RevokedIsUnknown`), which the run
`keys_revoke_race` refutes for a remote store, and `ListingsAreComplete` (`ListingIsComplete`).

`BooksAreBalanced` (`BooksBalance`) needs no atomic store, only `Sound` and `Books`: an issued key is
counted at its first put and the payment at the answer, so the calls between the two puts
(`Minting`) are in the one count and not yet in the other. `Quiet` names the steps that touch
neither the books nor the sets they count; the three others (`ServedJoins`, `MintingJoins`,
`PaidJoins`) add one call to one set.

`AccessKeysProofs` proves `GatewayIsLedger`: every step of the gateway over an atomic
store is a sale, a use, a waste or an end of the `KeyLedger`, or invisible to it. `KeyLedgerProofs`
proves that the ledger keeps its budget.

**Gateway** (`GatewayProofs`). `CounterExact` needs only that the counter moves
with the set of calls inside, and carries `TypeOK`, whose `inFlight \in Nat`
is not inductive without it: a decrement stays a natural number because a call that
leaves was inside. `ShutdownInv` adds `AnswersInv` (past the drain no admitted call
is inside, and the transport is there until the end), `EventsInv` (events of
admitted calls are in the snapshot or delivered) and `SharedInv` (whoever was
answered was told the phase `runShutdown` ended in), and gives
`AdmittedCallsAnswered`, `AdmittedEventsDelivered`, `CloseShared` and
`DrainWaitsForCalls`.

**Rate limiter** (`TokenBucketProofs`). `RetriesSucceed` rests on `Kept(b)`:
each promise outstanding on a bucket is `Owed` by its state, with what is refilled until a
millisecond after the time promised and the slack since; an allowed call
clears the promises, and a denial keeps them, since it writes back what it refilled and adds to the
slack what that may be off (`DenialOwes`).
`MemoryLimiterThrottles` rests on `Account(b)`: the allowed calls so far satisfy
the bound over every stretch (`Paired`), and the stretches that end now have
room for the tokens in the bucket (`Fits`), both in time and slack together. This is where the real clock is
needed, and `Local` says the clock of the process is right.

`SharedLimiterThrottles` says what is left of the promise that `token_reordered` refutes. A bucket on
Upstash is throttled for all gateways together (`SharedRateBound`), with calls interleaved and scripts that
fail or are not heard of, under three conditions the code cannot enforce: the clocks of the gateways
agree (`Drifting = {}`); a script is answered within `delay`, and after none that was sent later for its
bucket (`Orderly`, which `OrderlySpec` asks of every step); and `Ttl` outlasts filling the bucket by `delay`, as the
default of an hour does for a bucket that fills in less. `SharedAccount` is the account by the clocks of the scripts:
the last refill is the time some script was sent that has run, so it is not ahead of those to come, and an
evicted bucket would have been full by the clock of any of them (`EvictShared`).

**Webhooks** (`WebhooksProofs`). `TypeCorrect` (`TypeOK`) and `EventsAreKept`
(`NothingLostSilently`) come from `DeliveryInv`, which ties three things together: the phase of a
delivery bounds its attempts, no request is on the wire or with the receiver that was not an
attempt, and `inFlight` is the set of running deliveries. `DispatcherIsOutbox` (`ImplementsOutbox`) maps
the deliveries that run to the pending events of `Outbox`. A retry, a timeout and a lost request
stutter; a request the receiver takes is a `Take`, even when it comes after the
event was given up. A drain implements `StartDrain` because `inFlight` is just what is pending.

**Client** (`PaidClientProofs`). All four properties of the run, for any number of calls of
`callTool` and `closeSession` at once:

- `TypeCorrect` (`TypeOK`), from `ClientInv`. Its last part, `KeysInv`, says that a key that is
  cached, sent or reported was sold and has no more calls left than its last view says; the
  first half of `KeyCacheTrue` is in it.
- `OverrunIsBounded` (`OverrunBounded`), from `BoundInv` and `DueInv`. `BoundInv` bounds the client's
  own total. While `Paid` calls are paying, either the total
  leaves each of them the room of a maximal call, or one of them was the last to pass the
  check and the total with its price leaves it to the others. The second case is why
  the overrun is one call less than were paying at once. `DueInv` says that what was settled is
  in the total, or `Due`, or `unheard`. What is due is a sum over the settled calls; it is stated as
  the size of a set of units (`Units`), which the facts about finite sets add and bound.
- `CacheIsTrue` (`KeyCacheTrue`), from `CacheInv`. A client that makes one call at a time loses no live key
  because of `HoldsOn`: while a call is under way its tool's live key is the one it
  carries, its answer is about that key, and it is sold no other.
- `SessionsAreTracked` (`SessionsTracked`), from `SessionInv`: a channel that `closeSession` has a receipt
  for is closed and stays closed, and `currentSessionTool` is the tool of the call that is paying,
  as long as calls do not overlap.

**Metering** (`MeteringProofs`). All eight invariants of the run, for any calls, tools, prices, tiers
and size of the log. `Pow10` is a recursive function, and the sums of the properties are folds over
sets. An induction theorem with an operator parameter is out of reach, so induction is used as a
fact about *sets* of numbers (`Induction`, from the well-foundedness of `<`): the numbers at which the
function has its defining equation, or at which a sum over any set of that size is what a lemma
says, have 0 and with each number the next. From it come `Pow10Def` and the lemmas on sums.

A step is described twice: `Step`, by what it does to the call that takes it, and `Kind`, by what it
does to the books: a call comes in (`Enters`), moves on (`Moves`), fails with nothing counted
(`Fails`), is answered unpaid or paid (`AnswersUnpaid`, `AnswersPaid`), or fails once it was counted
(`Breaks`). `EveryStep` is the one place that goes through the actions of `Next`. It needs `TypeOK` and
`Phases`: where a call is tells what its spans are, what it may have been charged and
that it has paid. On top of these:

- `TypeCorrect` (`TypeOK`), which is inductive only along with `Phases`: that revenue is a decimal rests
  on its being added for a call with a tool and an amount that converts;
- `RecentCallsCorrect` (`RecentCallsAreLatest`), from `Ring`: the slots before the write index hold the last
  entries, and once the buffer has wrapped those behind it the ones before;
- `OneOutcomeCorrect` (`OneOutcomePerCall`), from `Logged` and `Announced`; `SpansCorrect`
  (`SpansTellOutcome`), from `Phases` alone;
- `OvershootCorrect` (`TierOvershootBounded`), from `Overshoot`. Calls that are answered at a low price
  and those inside at one are counted together: a call gets the price while the counter is below
  the bound, when at most so many have been paid, and the others that have it are inside
  beside it, so they are fewer than `peak`;
- `RevenueCorrect` (`RevenueExact`), from `Books`: each revenue is the sum of what its calls were
  charged in base units, to which an amount converts without rest (`Pow10Sum`) or not at all;
- `CountersCorrect` (`CallsAddUp`), from `CallCounts`, `KeyCounts` and `SessionCounts`. For sessions the
  channels that mppx opened and closed balance at every moment, and the counters lie between what the
  answered calls did and what those that have ended did; where no call is between the two they meet;
- `OffersCorrect` (`OffersHonest`), from `Phases`: a call was charged one of the prices of its tool. An
  amount that converts is rounded to itself, rounding keeps the order of prices (`RoundsBelow`), and
  the offer is the least of the tiers.

**Operators** (`AdminProofs`). `LinesAssumption` says that a line the command
line understands has the shape its usage asks for, with the token and the URL in either order;
`Parsed` computes from it what `Parse` makes of each. Five theorems:

- `LinksDie` (`LinksExpire`), from `LinksInv`: a link that was let in had a timestamp
  at most `Tolerance` ahead of the clock that let it in (`LetInInTime`), which is
  what bounds its life whatever clock minted it. `Opens`, which both theorems about links rest on,
  says what a link opens in a state, and so that the timestamp that was read is the one signed.
- `LinksTrue` (`LinksGenuine`): what a gateway reads of a query are the values given first
  (`ReadableIsFirst`). They have different names, so they can be sorted by them, however many they are
  (`SortedIsQuery`, by induction on their number in the form `Induction` that `MeteringProofs` uses
  too: `SortOneMore` puts the least name before the others), and sorting loses none (`RangeOfQuery`).
  So the text that is signed tells the path and what is read, and nothing of the order or of what
  else the query says (`TextOfQuery`).
- `TypeCorrect` (`TypeOK`). The types are not inductive: a gateway acts on a request of a
  command that must have been typed, and names a token if it revokes. `Followed` adds what a
  request tells of its command (it was typed, asks for this route, and what was heard is what
  was answered).
- `RevocationsReported` (`RevokeReportsTrue`), from `RevokesInv`: what lives has been
  sold, and an answer that a key is gone is so. It stays so because a key lives only once
  (`StoreStep`): nothing is put that was sold before. `RevokeStep` is the argument about the steps that give
  such an answer.
- `ListingsHonest` (`ListsAreHonest`), from `IndexHolds` (no living key is missing from the index but
  one a revocation has) and `ListsInv` (what a walk has looked up and what lasted was shown).
  `WalkEnds` joins the two at the moment the walk meets no token that is new to it.

Only model-checked: liveness under fairness (`CloseIsAnswered`, `EveryDeliverySettles`), which
is out of this prover's reach, and the three runs that end in a counterexample. No module with
theorems, nor any it extends, uses a `RECURSIVE` operator.

## Where the code and its documentation part

Three runs end in a counterexample, against a sentence of the code's own
comments:

| run | what the documentation says | what happens |
|---|---|---|
| `keys_revoke_race` | a revoked key is deleted "so future redemptions fail with `unknown`" (server.ts:1134) | A capped record over a remote store is put twice. A revocation between the two (the token is already listed, server.ts:924) is answered `{revoked: true}`, and the second put restores the key. |
| `gateway_late_call` | "Increment before any awaits so the counter accurately reflects every observable execution unit" (server.ts:397) | The limiter's await comes before the increment. A call that waits there when `close()` begins is not seen by the drain, is charged, and its answer finds the transport closed. |
| `token_reordered` | "a multi-instance-safe rate limiter" (rate-limit.ts:317) | The script stores the caller's clock even when it is behind the stored one. Two scripts that arrive in the other order than they were sent refill one stretch twice, and more calls pass than `capacity` and the rate allow. |

Further ones were met while modelling. The models follow the code, and no
property claims the contrary:

- "Max total amount the agent can spend (safety cap)" (types.ts:392): the total is
  compared before the payment's await (client.ts:289) and raised after it (357), so calls that overlap all
  pass. And a payment that was settled is never added when its answer is lost (276-284) or comes
  without a receipt (287-290), not even by a client that makes one call at a time: it will spend
  that amount again. `OverrunBounded` says by how much at most all these exceed the cap.
- `retryAfterMs` is "the number of milliseconds the caller should wait before retrying"
  (rate-limit.ts:55-57): a caller that waits so long and no longer may be denied again, with 1 ms, when
  other callers were denied meanwhile. At the default of 60 a minute, calls 100 ms apart add
  0.1 each to an empty bucket (rate-limit.ts:199), and ten times 0.1 is 0.9999999999999999.
  `RetryAfterSuffices` speaks of one millisecond more.
- Two overlapping `revokeAccessKey`s of one key are both answered
  `{revoked: true}` (server.ts:1147), where 1138-1140 has the second one answered
  `false`. Both are told what is so, and `RevokeReportsTrue` asks no more.
- A revocation whose `delete` fails has already dropped the token from the
  index (server.ts:1148), so a key that lives is listed no more (1095-1096).
  `ListingIsComplete` is checked over a store that does not fail.
- `accessKeysExpired` counts rejections and not keys (server.ts:853 and
  types.ts:445): one dead key presented twice counts twice.
- A call whose handler throws has used up a call of its key (server.ts:812),
  where types.ts:103-104 has it "decremented on each successful call".
- `drain()` waits for the deliveries it found, and leaves those emitted during
  it (webhooks.ts:319 and 320-322); it waits for `onDrop` too, though
  312-314 speaks of acknowledgement and retries only.
- A hook that never settles holds `close()` for ever (server.ts:1254 and
  types.ts:249-251): the timeout covers the drain, not the hook.
- `session.closed` reports the tool's configured amount (server.ts:744), not
  what the channel settled (webhooks.ts:150).
- A session call that fails after its channel was opened is not counted as an
  opening, but its closing is: `sessionsOpen` can fall below zero
  (server.ts:709-734). `CallsAddUp` compares them while no session call is inside or has failed.
- A tier's price is read before the payment and the handler (server.ts:466, 497)
  and the counter raised after them, so overlapping calls of one tool get the
  lower tier (types.ts:117); `TierOvershootBounded` says how many.
- An amount with more than six decimals is charged, and then fails the call:
  `usdStringToBaseUnits` throws in `recordPaidCall`, after `totalCalls`,
  `paidCalls` and `callsByTool` have moved (server.ts:1034-1042). The client has
  paid, gets an error, and no revenue is recorded.
- A paid call whose handler throws is not in the revenue, though the client
  has paid (server.ts:540, 694).
- The client's wrapper asks for a second challenge and signs that one
  (client.ts:277), so the price it checked may not be the one it pays.
- `currentSessionTool` is one field for all calls (client.ts:274, 283): when two
  overlap a channel may be filed under the other's tool. `SessionsTracked` is
  stated for a client that makes one call at a time.
- `closeSession` forgets the channel before it looks for a receipt
  (client.ts:545 and 475-476), so that a close that failed cannot be repeated.
- Two overlapping purchases for one tool: the second key overwrites the first,
  which was paid for (client.ts:703). `KeyCacheTrue` is stated accordingly.
- The `accept` list of a tool is advertised (discovery.ts:231) and never charged:
  every charge is in the server's one currency, whatever types.ts:14-25 says of
  it. `OffersHonest` compares amounts only of tools without one.
- The discovery document rounds an amount with more than six decimals
  (discovery.ts:311-328), where a charge of it fails.
- `mppmcp.rate-limit` is documented as a span (tracing.ts:21) and never started.
- `mppx.session` is called outside the `try` of its span (server.ts:667): when it throws there,
  the span is never ended. `SpansTellOutcome` makes this one exception.
- A handler that throws what looks like a 402 (server.ts:1503-1514) after its call was
  paid for leaves neither an entry in the log nor an event (559-560).
- `getStats` returns the live maps of the server in its copy (server.ts:1324-1328).
- `keys list` falls back on the call log whatever failed; the comment (cli.ts:250-251)
  speaks of gateways that predate the endpoint. `keys revoke` prints "already revoked, expired, or
  never issued" (cli.ts:317) of any 404, that of a gateway without the route or with another
  prefix than `/api` too: `RevokeReportsTrue` excludes these.
- `--header` is "repeatable" (cli.ts:20) and keeps the last one only; requests of the command line
  have no timeout.
- auth.ts:312 describes the signed text as `path + sortedQuery`; it is joined with a `?`, and the
  path is that below the mount (`req.path`).
- A signed link opens more than the query it was minted with. Of a parameter that is given
  again only the first value is signed, and a value that is neither text nor an array that starts with
  one is skipped (auth.ts:402-403, 415-419), while `parseLimit` takes no limit that is not
  text and falls back on 100 (dashboard.ts:160): a link minted for `limit=5` opens `limit=5&limit=9`
  and shows a hundred calls, though "anyone without the secret can't mint new ones" (auth.ts:313-314). A link
  without a `limit` opens `limit[x]=9` under the extended parser, and shows the hundred it showed anyway. `LinksGenuine` is
  stated accordingly.
- `publicCors` is mounted with `app.get` and `app.delete`, and never sees the `OPTIONS`
  requests it answers.

## What is not modelled

- **Logging, runtime, errors, constants**, the types, the barrels, the examples and the
  page of the dashboard: they render or support, and keep no state that a property here is about.
- Of `auth.ts`, the comparison in constant time, base64, and `publicCors`, which sets headers for
  browsers; of `tracing.ts`, the attributes of spans and `withSpan`, which the gateway does not use; of
  `metrics.ts` and `discovery.ts`, the formats and the JSON schema of the inputs.
- In the modelled parts: signatures and payloads of webhooks (in particular the
  timestamp that is computed once for all the retries, webhooks.ts:339) and the
  length of backoffs; the syntax of decimal strings (`Metering` starts from what a
  string stands for), and in `AccessKeys` amounts altogether: that the
  `recordPaidCall` of a purchase may throw is in `Metering`; per-tool overrides of the rate limiter that a
  `keyExtractor` with composed keys passes by (server.ts:332), and
  buckets of less than one token, which starve by configuration; different
  refill rates of the buckets; mppx's own
  channel accounting, of which `Metering` and `PaidClient` keep whether a
  channel is open and its last voucher; `cumulativeVoucher`, the getters,
  `connect` and `listTools` of the client.

## Plan

The order is that of the risk in the code: what is sold and may be resold first,
then what may be lost at shutdown, then the bounds on rates and spending, and then
the books.

1. Done: `KeyLedger`, `AccessKeys` over the four kinds of store, and their proofs; `Gateway` and its
   proofs; `TokenBucket` and its proofs; `Outbox`, `Webhooks` and their proofs; `PaidClient`
   and its proofs;
   `Metering` with access keys, spans, metrics and offers, and its proofs; `Auth`, `AdminAccess` and their proofs.
2. What would add most to the models: per-tool overrides of the rate limiter with composed keys; the
   signature's timestamp over the retries of a webhook.
3. In the proofs: that `Webhooks` and `AccessKeys` implement their abstract modules is proved as
   safety; an abstract module for the books of `Metering` (a ledger of charges that the counters
   implement) would state its invariants more briefly.

## Running it

    tlc -workers 2 -config AccessKeysUpstash.cfg MCAccessKeys
    tlapm AccessKeysProofs.tla

`PROJECT.json` lists the runs with their modules, configurations and
properties, for each property a mutant of the model that violates it, the map
from definitions to source lines, the findings, the hazards and the theorems.
