---------------------------- MODULE TokenBucket -----------------------------
(***************************************************************************)
(* The rate limiters of src/rate-limit.ts, in memory and on Upstash, with  *)
(* the per-tool composition the constructor of src/server.ts builds.       *)
(*                                                                         *)
(* Tokens are counted in units, of which one costs Cost, and time in what  *)
(* it takes to refill a unit: a millisecond is Ms of these, and            *)
(* refillPerMs Ms units.  The code computes with floating point, and the   *)
(* script writes its tokens down with fourteen digits: what a computation  *)
(* gives is off from the exact number by at most Slip units, either way.   *)
(***************************************************************************)
EXTENDS Integers, Sequences

CONSTANTS
  Callers,    \* calls of consume, each made once
  Instances,  \* gateway processes
  Drifting,   \* those whose clock may be set
  Offsets,    \* by how much such a clock may be ahead
  Buckets,    \* the keys of buckets
  Home,       \* [Buckets -> the process that has it in memory, None for Upstash]
  PerTool,    \* the capacities of the tools with a bucket configured for them
  Default,    \* units every other bucket holds
  Cost,       \* units of one token
  Ms,         \* units refilled in a millisecond
  Slip,       \* units by which a computed number may be off
  Faults,     \* may Upstash answer with an error
  Ttl,        \* how long an idle bucket is kept by Redis
  MaxNow,     \* bound of the clock
  None        \* no bucket, no process

\* The constructor of PaidMcpServer: the units a bucket holds, by its key.
Capacity == [b \in Buckets |-> IF b \in DOMAIN PerTool THEN PerTool[b] ELSE Default]

\* tokenBucketLimiter and upstashTokenBucketLimiter take any positive capacity
\* and rate.
ASSUME LimiterAssumption ==
  /\ {Cost, Ms} \subseteq Nat \ {0}
  /\ Slip \in Nat
  /\ Capacity \in [Buckets -> Nat \ {0}]
  /\ Home \in [Buckets -> Instances \cup {None}]
  /\ Drifting \subseteq Instances
  /\ Offsets \subseteq Nat
  /\ None \notin Nat \cup Instances
  /\ Faults \in BOOLEAN
  /\ Ttl \in Nat
  /\ MaxNow \in Nat

VARIABLES
  now,       \* real time
  offset,    \* [Instances -> how far its clock is ahead]
  bucket,    \* [Buckets -> its state, or None]
  touched,   \* [Buckets -> real time of the last write]
  pc,        \* [Callers -> where the call of consume is]
  asked,     \* [Callers -> the bucket asked for, when, and the clock then]
  slack,     \* history: [Buckets -> how far what was computed of it may be off]
  grants,    \* history: [Buckets -> when the allowed calls were made, plus slack]
  promises   \* history: [Buckets -> what denied callers were told]

vars == <<now, offset, bucket, touched, pc, asked, slack, grants, promises>>

-----------------------------------------------------------------------------

BucketState == [tokens : Nat, lastRefill : Nat]

Absent == [tokens |-> 0, lastRefill |-> None]

Question == [bucket : Buckets, at : Nat, clock : Nat]

\* When to retry, and the slack of the bucket then.
Promise == [at : Nat, slack : Nat]

TypeOK ==
  /\ now \in Nat
  /\ offset \in [Instances -> Offsets \cup {0}]
  /\ bucket \in [Buckets -> BucketState \cup {Absent}]
  /\ \A b \in Buckets : bucket[b].tokens <= Capacity[b]
  /\ touched \in [Buckets -> Nat]
  /\ pc \in [Callers -> {"idle", "asked", "allowed", "denied", "failed"}]
  /\ asked \in [Callers -> Question \cup {None}]
  /\ \A c \in Callers : pc[c] = "asked" => asked[c] \in Question
  /\ slack \in [Buckets -> Nat]
  /\ grants \in [Buckets -> Seq(Nat)]
  /\ promises \in [Buckets -> SUBSET Promise]

Init ==
  /\ now = 0
  /\ offset = [i \in Instances |-> 0]
  /\ bucket = [b \in Buckets |-> Absent]
  /\ touched = [b \in Buckets |-> 0]
  /\ pc = [c \in Callers |-> "idle"]
  /\ asked = [c \in Callers |-> None]
  /\ slack = [b \in Buckets |-> 0]
  /\ grants = [b \in Buckets |-> <<>>]
  /\ promises = [b \in Buckets |-> {}]

-----------------------------------------------------------------------------

Least(x, y) == IF x <= y THEN x ELSE y

Elapsed(b, clock) ==
  IF clock >= bucket[b].lastRefill THEN clock - bucket[b].lastRefill ELSE 0

\* What a computation of x may give.
Rounded(x) == ((x - Slip)..(x + Slip)) \cap Nat

\* Math.ceil: the whole milliseconds of x or more.
Ceil(x) == x + ((-x) % Ms)

\* Variant: the refill is not capped.
RefilledUncapped(b, clock) ==
  IF bucket[b] = Absent THEN {Capacity[b]}
  ELSE IF Elapsed(b, clock) = 0 THEN {bucket[b].tokens}
  ELSE Rounded(bucket[b].tokens + Elapsed(b, clock))

\* The units that may be in the bucket once refill has run; an absent bucket is
\* full, and nothing is rounded when no time has passed.
Refilled(b, clock) ==
  IF bucket[b] = Absent THEN {Capacity[b]}
  ELSE IF Elapsed(b, clock) = 0 THEN {bucket[b].tokens}
  ELSE {Least(Capacity[b], x) : x \in Rounded(bucket[b].tokens + Elapsed(b, clock))}

\* What is stored of n units: the number in memory, its digits on Upstash, where
\* the digits of a capacity are exact and those of less are no more.
Stored(b, n) ==
  IF Home[b] = None THEN {x \in Rounded(n) : n <= Capacity[b] => x <= Capacity[b]}
  ELSE {n}

\* The slack one call adds.
Error(b) == IF Home[b] = None THEN 2 * Slip ELSE Slip

Write(b, n, clock) ==
  /\ \E x \in Stored(b, n) :
       bucket' = [bucket EXCEPT ![b] = [tokens |-> x, lastRefill |-> clock]]
  /\ touched' = [touched EXCEPT ![b] = now]
  /\ slack' = [slack EXCEPT ![b] = @ + Error(b)]

\* Variant: a token is taken without moving the refill time on.
AllowKeepsTime(c, q, n) ==
  /\ n >= Cost
  /\ Write(q.bucket, n - Cost, IF bucket[q.bucket] = Absent THEN q.clock
                               ELSE bucket[q.bucket].lastRefill)
  /\ pc' = [pc EXCEPT ![c] = "allowed"]
  /\ grants' = [grants EXCEPT ![q.bucket] = Append(@, q.at + slack[q.bucket] + Slip)]
  /\ promises' = [promises EXCEPT ![q.bucket] = {}]

\* At least one token: take it.
Allow(c, q, n) ==
  /\ n >= Cost
  /\ Write(q.bucket, n - Cost, q.clock)
  /\ pc' = [pc EXCEPT ![c] = "allowed"]
  /\ grants' = [grants EXCEPT ![q.bucket] = Append(@, q.at + slack[q.bucket] + Slip)]
  /\ promises' = [promises EXCEPT ![q.bucket] = {}]

\* Variant: a denial moves the refill time on without its refill.
DenyForgets(c, q, n) ==
  /\ n < Cost
  /\ Write(q.bucket, IF bucket[q.bucket] = Absent THEN n ELSE bucket[q.bucket].tokens,
           q.clock)
  /\ pc' = [pc EXCEPT ![c] = "denied"]
  /\ \E deficit \in Rounded(Cost - n) \ {0} :
       promises' = [promises EXCEPT ![q.bucket] =
         @ \cup {[at |-> q.clock + Ceil(deficit), slack |-> slack[q.bucket] + Slip]}]
  /\ UNCHANGED grants

\* Less than one: keep the refill, and say when a token will be there.
Deny(c, q, n) ==
  /\ n < Cost
  /\ Write(q.bucket, n, q.clock)
  /\ pc' = [pc EXCEPT ![c] = "denied"]
  /\ \E deficit \in Rounded(Cost - n) \ {0} :
       promises' = [promises EXCEPT ![q.bucket] =
         @ \cup {[at |-> q.clock + Ceil(deficit), slack |-> slack[q.bucket] + Slip]}]
  /\ UNCHANGED grants

\* consume, once the bucket is refilled.
Answer(c, q) ==
  \E n \in Refilled(q.bucket, q.clock) : Allow(c, q, n) \/ Deny(c, q, n)

Ask(i, b) == [bucket |-> b, at |-> now, clock |-> now + offset[i]]

\* tokenBucketLimiter's consume: one step.
ConsumeInMemory(c) ==
  /\ pc[c] = "idle"
  /\ \E b \in Buckets :
       /\ Home[b] # None
       /\ asked' = [asked EXCEPT ![c] = Ask(Home[b], b)]
       /\ Answer(c, Ask(Home[b], b))
  /\ UNCHANGED <<now, offset>>

\* upstashTokenBucketLimiter's consume reads the clock and sends the script.
ConsumeRemotely(c) ==
  /\ pc[c] = "idle"
  /\ \E i \in Instances, b \in Buckets :
       /\ Home[b] = None
       /\ asked' = [asked EXCEPT ![c] = Ask(i, b)]
  /\ pc' = [pc EXCEPT ![c] = "asked"]
  /\ UNCHANGED <<now, offset, bucket, touched, slack, grants, promises>>

\* The script runs, with the clock it was sent with.
RunScript(c) ==
  /\ pc[c] = "asked"
  /\ Answer(c, asked[c])
  /\ UNCHANGED <<now, offset, asked>>

\* The call fails, with the script run or not.
ScriptFails(c) ==
  /\ Faults
  /\ pc[c] = "asked"
  /\ pc' = [pc EXCEPT ![c] = "failed"]
  /\ \/ UNCHANGED <<bucket, touched, slack, promises>>
     \/ \E n \in Refilled(asked[c].bucket, asked[c].clock) :
          /\ Write(asked[c].bucket, IF n >= Cost THEN n - Cost ELSE n, asked[c].clock)
          /\ promises' = IF n >= Cost THEN [promises EXCEPT ![asked[c].bucket] = {}]
                         ELSE promises
  /\ UNCHANGED <<now, offset, asked, grants>>

\* reset: the bucket is full again, and its account starts over.
Reset(b) ==
  /\ bucket' = [bucket EXCEPT ![b] = Absent]
  /\ grants' = [grants EXCEPT ![b] = <<>>]
  /\ promises' = [promises EXCEPT ![b] = {}]
  /\ UNCHANGED <<now, offset, touched, slack, pc, asked>>

\* Redis evicts an idle bucket.
Evict(b) ==
  /\ Home[b] = None
  /\ bucket[b] # Absent
  /\ now >= touched[b] + Ttl
  /\ bucket' = [bucket EXCEPT ![b] = Absent]
  /\ UNCHANGED <<now, offset, touched, slack, pc, asked, grants, promises>>

Tick ==
  /\ now < MaxNow
  /\ now' = now + Ms
  /\ UNCHANGED <<offset, bucket, touched, slack, pc, asked, grants, promises>>

\* The clock of a process is set.
SetClock(i) ==
  /\ i \in Drifting
  /\ offset' \in {[offset EXCEPT ![i] = o] : o \in Offsets}
  /\ UNCHANGED <<now, bucket, touched, slack, pc, asked, grants, promises>>

Next ==
  \/ \E c \in Callers :
       ConsumeInMemory(c) \/ ConsumeRemotely(c) \/ RunScript(c) \/ ScriptFails(c)
  \/ \E b \in Buckets : Reset(b) \/ Evict(b)
  \/ Tick
  \/ \E i \in Instances : SetClock(i)

Spec == Init /\ [][Next]_vars

-----------------------------------------------------------------------------
(* Properties.                                                             *)

\* Over any stretch of calls bucket b allows no more than its capacity, what is
\* refilled while the stretch lasts, and the slack of the calls in it.
Throttled(b) ==
  LET g == grants[b]
  IN  \A m, n \in DOMAIN g : m <= n =>
        \E i, j \in m..n : (n - m + 1) * Cost <= Capacity[b] + (g[i] - g[j])

\* A bucket in memory bounds the burst and the sustained rate as configured, as
\* long as nobody sets its process's clock back ("adds refillPerMinute / 60
\* tokens per second up to capacity", rate-limit.ts:94).
RateBound ==
  \A b \in Buckets :
    Home[b] # None /\ Home[b] \notin Drifting => Throttled(b)

\* A bucket on Upstash bounds them too, for all gateways together ("a
\* multi-instance-safe rate limiter", rate-limit.ts:317).
SharedRateBound == \A b \in Buckets : Home[b] = None => Throttled(b)

\* A caller that was denied, and waits retryAfterMs and a millisecond, finds a
\* token, whoever else is denied meanwhile, if nobody is allowed before it, a token
\* fits in the bucket, and the slack of the calls since, of the answer it got and of
\* its own call is no more than a millisecond's refill ("clients can back off
\* without spinning into deeper throttling", server.ts:379).  Without the
\* millisecond it may be denied: calls 100 ms apart refill 0.1 tokens each, and ten
\* times 0.1 is less than 1 in floating point.
RetryAfterSuffices ==
  \A b \in Buckets : Capacity[b] >= Cost =>
    \A p \in promises[b] :
      slack[b] - p.slack + 2 * Slip <= Ms =>
        \A n \in Refilled(b, p.at + Ms) : n >= Cost
=============================================================================
