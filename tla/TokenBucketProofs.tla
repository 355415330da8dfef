------------------------- MODULE TokenBucketProofs --------------------------
(***************************************************************************)
(* The token buckets keep their bounds, for any callers, buckets,          *)
(* capacities, costs, clocks and rounding.                                 *)
(*                                                                         *)
(* RateBound follows from an account of every stretch of grants that ends  *)
(* now: what it took and what is left in the bucket never exceed the       *)
(* capacity, what was refilled since it began, and the slack since.        *)
(*                                                                         *)
(* The same account, kept by the clocks of the scripts, gives the bound of *)
(* a shared bucket on Upstash when scripts run in the order they are sent. *)
(***************************************************************************)
EXTENDS TokenBucket, TLAPS

USE LimiterAssumption DEF LimiterAssumption

\* What a computation gives is a number, off by Slip at most.
LEMMA RoundedType ==
  ASSUME NEW x \in Nat, NEW y \in Rounded(x)
  PROVE  y \in Nat /\ y <= x + Slip /\ x <= y + Slip
BY DEF Rounded

\* retryAfterMs is no less than what is rounded up.
LEMMA CeilType ==
  ASSUME NEW x \in Nat
  PROVE  Ceil(x) \in Nat /\ Ceil(x) >= x
<1>1. -x \in Int /\ Ms \in Nat \ {0}
  OBVIOUS
<1>2. (-x) % Ms \in 0..(Ms - 1)
  BY <1>1
<1> QED
  BY <1>2 DEF Ceil

\* What refill makes of a bucket: units between none and its capacity, as many as
\* there are and are refilled, give or take Slip.
LEMMA RefilledType ==
  ASSUME TypeOK, NEW b \in Buckets, NEW t \in Nat, NEW n \in Refilled(b, t)
  PROVE  /\ n \in Nat /\ n <= Capacity[b]
         /\ bucket[b] = Absent => n = Capacity[b]
         /\ bucket[b] # Absent =>
              /\ Elapsed(b, t) \in Nat
              /\ n <= bucket[b].tokens + Elapsed(b, t) + Slip
              /\ n < Capacity[b] => bucket[b].tokens + Elapsed(b, t) <= n + Slip
<1>0. Capacity[b] \in Nat
  OBVIOUS
<1>1. CASE bucket[b] = Absent
  BY <1>0, <1>1 DEF Refilled
<1>2. CASE bucket[b] # Absent
  <2>1. PICK s \in BucketState : bucket[b] = s
    BY <1>2 DEF TypeOK
  <2>2. bucket[b].tokens \in Nat /\ bucket[b].lastRefill \in Nat /\ bucket[b].tokens <= Capacity[b]
    BY <2>1 DEF BucketState, TypeOK
  <2>3. Elapsed(b, t) \in Nat
    BY <2>2 DEF Elapsed
  <2>4. CASE Elapsed(b, t) = 0
    <3>1. n = bucket[b].tokens
      BY <1>2, <2>4 DEF Refilled
    <3> QED
      BY <1>0, <1>2, <2>2, <2>4, <3>1
  <2>5. CASE Elapsed(b, t) # 0
    <3>1. PICK x \in Rounded(bucket[b].tokens + Elapsed(b, t)) : n = Least(Capacity[b], x)
      BY <1>2, <2>5 DEF Refilled
    <3>2. bucket[b].tokens + Elapsed(b, t) \in Nat
      BY <2>2, <2>3
    <3>3. /\ x \in Nat /\ x <= bucket[b].tokens + Elapsed(b, t) + Slip
          /\ bucket[b].tokens + Elapsed(b, t) <= x + Slip
      BY <3>2, RoundedType
    <3> QED
      BY <1>0, <1>2, <2>2, <2>3, <3>1, <3>3 DEF Least
  <2> QED
    BY <2>4, <2>5
<1>3. QED
  BY <1>1, <1>2

\* What a call writes: what it computed, give or take what its digits lose.
LEMMA WriteType ==
  ASSUME TypeOK, NEW b \in Buckets, NEW n \in Nat, n <= Capacity[b], NEW t \in Nat,
         Write(b, n, t)
  PROVE  \E x \in Nat :
           /\ x <= Capacity[b]
           /\ x + Slip <= n + Error(b) /\ n + Slip <= x + Error(b)
           /\ bucket' = [bucket EXCEPT ![b] = [tokens |-> x, lastRefill |-> t]]
           /\ bucket'[b] = [tokens |-> x, lastRefill |-> t]
           /\ bucket'[b] # Absent
<1>1. PICK x \in Stored(b, n) :
        bucket' = [bucket EXCEPT ![b] = [tokens |-> x, lastRefill |-> t]]
  BY DEF Write
<1>2. /\ x \in Nat /\ x <= Capacity[b]
      /\ x + Slip <= n + Error(b) /\ n + Slip <= x + Error(b)
  <2>1. CASE Home[b] = None
    <3>1. x \in Rounded(n) /\ x <= Capacity[b] /\ Error(b) = 2 * Slip
      BY <2>1 DEF Stored, Error
    <3>2. x \in Nat /\ x <= n + Slip /\ n <= x + Slip
      BY <3>1, RoundedType
    <3> QED
      BY <3>1, <3>2
  <2>2. CASE Home[b] # None
    BY <2>2 DEF Stored, Error
  <2> QED
    BY <2>1, <2>2
<1>3. bucket'[b] = [tokens |-> x, lastRefill |-> t] /\ bucket'[b] # Absent
  BY <1>1 DEF TypeOK, Absent
<1> QED
  BY <1>1, <1>2, <1>3

\* Slack is a number, and only grows.
LEMMA ErrorType ==
  ASSUME NEW b \in Buckets
  PROVE  Error(b) \in Nat /\ Error(b) >= Slip
BY DEF Error

\* The two outcomes of a question keep the types.
LEMMA AnswerTypes ==
  ASSUME TypeOK, NEW c \in Callers, NEW q \in Question,
         Answer(c, q),
         UNCHANGED <<now, offset>>,
         asked' \in [Callers -> Question \cup {None}],
         \A d \in Callers : d # c => asked'[d] = asked[d]
  PROVE  TypeOK'
<1> DEFINE b == q.bucket
<1>1. b \in Buckets /\ q.clock \in Nat /\ q.at \in Nat
  BY DEF Question
<1>2. PICK l \in Refilled(b, q.clock) : Allow(c, q, l) \/ Deny(c, q, l)
  BY DEF Answer
<1>3. l \in Nat /\ l <= Capacity[b] /\ slack[b] \in Nat
  BY <1>1, <1>2, RefilledType DEF TypeOK
<1> HIDE DEF b
<1>4. PICK n \in Nat, p \in {"allowed", "denied"}, g \in Seq(Nat), S \in SUBSET Promise :
        /\ n <= Capacity[b]
        /\ Write(b, n, q.clock)
        /\ pc' = [pc EXCEPT ![c] = p]
        /\ grants' = [grants EXCEPT ![b] = g]
        /\ promises' = [promises EXCEPT ![b] = S]
  <2>1. CASE Allow(c, q, l)
    <3>0. l >= Cost
      BY <2>1 DEF Allow
    <3>1. l - Cost \in Nat /\ l - Cost <= Capacity[b]
      BY <1>1, <1>3, <3>0
    <3>2. q.at + slack[b] + Slip \in Nat
      BY <1>1, <1>3
    <3>3. Append(grants[b], q.at + slack[b] + Slip) \in Seq(Nat)
      BY <1>1, <3>2 DEF TypeOK
    <3>4. /\ Write(b, l - Cost, q.clock)
          /\ pc' = [pc EXCEPT ![c] = "allowed"]
          /\ grants' = [grants EXCEPT ![b] = Append(grants[b], q.at + slack[b] + Slip)]
          /\ promises' = [promises EXCEPT ![b] = {}]
      BY <2>1 DEF Allow, b
    <3>5. QED
      BY <3>1, <3>3, <3>4
  <2>2. CASE Deny(c, q, l)
    <3>1. PICK d \in Rounded(Cost - l) :
            promises' = [promises EXCEPT ![b] = promises[b] \cup
              {[at |-> q.clock + Ceil(d), slack |-> slack[b] + Slip]}]
      BY <2>2 DEF Deny, b
    <3>2. Cost - l \in Nat
      BY <1>3, <2>2 DEF Deny
    <3>3. d \in Nat
      BY <3>1, <3>2, RoundedType
    <3>4. q.clock + Ceil(d) \in Nat /\ slack[b] + Slip \in Nat
      BY <1>1, <1>3, <3>3, CeilType
    <3>5. [at |-> q.clock + Ceil(d), slack |-> slack[b] + Slip] \in Promise
      BY <3>4 DEF Promise
    <3>6. promises[b] \cup {[at |-> q.clock + Ceil(d), slack |-> slack[b] + Slip]} \in SUBSET Promise
      BY <1>1, <3>5 DEF TypeOK
    <3>7. grants[b] \in Seq(Nat) /\ grants' = [grants EXCEPT ![b] = grants[b]]
      BY <1>1, <2>2 DEF TypeOK, Deny
    <3>8. Write(b, l, q.clock) /\ pc' = [pc EXCEPT ![c] = "denied"]
      BY <2>2 DEF Deny, b
    <3>9. QED
      BY <1>3, <3>1, <3>6, <3>7, <3>8
  <2>3. QED
    BY <1>2, <2>1, <2>2
<1>5. PICK x \in Nat :
        /\ x <= Capacity[b]
        /\ x + Slip <= n + Error(b) /\ n + Slip <= x + Error(b)
        /\ bucket' = [bucket EXCEPT ![b] = [tokens |-> x, lastRefill |-> q.clock]]
        /\ bucket'[b] = [tokens |-> x, lastRefill |-> q.clock]
        /\ bucket'[b] # Absent
  <2>1. n \in Nat /\ n <= Capacity[b] /\ Write(b, n, q.clock)
    BY <1>4
  <2>2. TypeOK /\ b \in Buckets /\ q.clock \in Nat
    BY <1>1
  <2> QED
    BY <2>1, <2>2, WriteType
<1>6. [tokens |-> x, lastRefill |-> q.clock] \in BucketState
  BY <1>1 DEF BucketState
<1>7. bucket' \in [Buckets -> BucketState \cup {Absent}]
  BY <1>1, <1>5, <1>6 DEF TypeOK
<1>8. \A a \in Buckets : bucket'[a].tokens <= Capacity[a]
  BY <1>1, <1>5 DEF TypeOK
<1>9. pc' \in [Callers -> {"idle", "asked", "allowed", "denied", "failed"}]
  BY <1>4 DEF TypeOK
<1>10. \A d \in Callers : pc'[d] = "asked" => asked'[d] \in Question
  BY <1>4 DEF TypeOK
<1>11. touched' \in [Buckets -> Nat] /\ slack' \in [Buckets -> Nat]
  <2>1. Error(b) \in Nat
    BY <1>1, ErrorType
  <2>2. slack[b] + Error(b) \in Nat
    BY <1>3, <2>1
  <2>3. /\ touched' = [touched EXCEPT ![b] = now]
        /\ slack' = [slack EXCEPT ![b] = slack[b] + Error(b)]
    BY <1>4 DEF Write
  <2> QED
    BY <1>1, <2>2, <2>3 DEF TypeOK
<1>12. grants' \in [Buckets -> Seq(Nat)] /\ promises' \in [Buckets -> SUBSET Promise]
  BY <1>1, <1>4 DEF TypeOK
<1>13. QED
  BY <1>7, <1>8, <1>9, <1>10, <1>11, <1>12 DEF TypeOK

\* A question is well formed.
LEMMA AskType ==
  ASSUME TypeOK, NEW i \in Instances, NEW b \in Buckets
  PROVE  Ask(i, b) \in Question
<1>1. offset[i] \in Offsets \cup {0} /\ now \in Nat
  BY DEF TypeOK
<1>2. Offsets \cup {0} \subseteq Nat
  <2>1. 0 \in Nat
    OBVIOUS
  <2>2. QED
    BY <2>1
<1>3. offset[i] \in Nat
  BY <1>1, <1>2
<1>4. QED
  BY <1>1, <1>3 DEF Ask, Question

-----------------------------------------------------------------------------
(* Types.                                                                  *)

LEMMA InitTypes == Init => TypeOK
BY DEF Init, TypeOK, Absent

LEMMA NextTypes == TypeOK /\ [Next]_vars => TypeOK'
<1> SUFFICES ASSUME TypeOK, [Next]_vars PROVE TypeOK'
  OBVIOUS
<1>1. ASSUME NEW c \in Callers, ConsumeInMemory(c) PROVE TypeOK'
  <2>1. PICK b \in Buckets :
          /\ Home[b] # None
          /\ asked' = [asked EXCEPT ![c] = Ask(Home[b], b)]
          /\ Answer(c, Ask(Home[b], b))
          /\ UNCHANGED <<now, offset>>
    BY <1>1 DEF ConsumeInMemory
  <2>2. Home[b] \in Instances
    BY <2>1
  <2>3. PICK q \in Question : q = Ask(Home[b], b)
    BY <2>2, AskType
  <2>4. asked' \in [Callers -> Question \cup {None}]
        /\ \A d \in Callers : d # c => asked'[d] = asked[d]
    BY <2>1, <2>3 DEF TypeOK
  <2>5. QED
    BY <2>1, <2>3, <2>4, AnswerTypes
<1>2. ASSUME NEW c \in Callers, ConsumeRemotely(c) PROVE TypeOK'
  <2>1. PICK i \in Instances, b \in Buckets :
          asked' = [asked EXCEPT ![c] = Ask(i, b)]
    BY <1>2 DEF ConsumeRemotely
  <2>2. Ask(i, b) \in Question
    BY AskType
  <2>3. asked' \in [Callers -> Question \cup {None}]
    BY <2>1, <2>2 DEF TypeOK
  <2>4. pc' = [pc EXCEPT ![c] = "asked"]
        /\ UNCHANGED <<now, offset, bucket, touched, slack, grants, promises>>
    BY <1>2 DEF ConsumeRemotely
  <2>5. pc' \in [Callers -> {"idle", "asked", "allowed", "denied", "failed"}]
    BY <2>4 DEF TypeOK
  <2>6. \A d \in Callers : pc'[d] = "asked" => asked'[d] \in Question
    BY <2>1, <2>2, <2>4 DEF TypeOK
  <2>7. QED
    BY <2>3, <2>4, <2>5, <2>6 DEF TypeOK
<1>3. ASSUME NEW c \in Callers, RunScript(c) PROVE TypeOK'
  <2>1. PICK q \in Question : q = asked[c]
    BY <1>3 DEF RunScript, TypeOK
  <2>2. Answer(c, q) /\ UNCHANGED <<now, offset, asked>>
    BY <1>3, <2>1 DEF RunScript
  <2>3. asked' \in [Callers -> Question \cup {None}]
    BY <2>2 DEF TypeOK
  <2>4. QED
    BY <2>2, <2>3, AnswerTypes
<1>4. ASSUME NEW c \in Callers, ScriptFails(c) PROVE TypeOK'
  <2>1. pc' = [pc EXCEPT ![c] = "failed"] /\ UNCHANGED <<now, offset, asked, grants>>
    BY <1>4 DEF ScriptFails
  <2>2. pc' \in [Callers -> {"idle", "asked", "allowed", "denied", "failed"}]
        /\ \A d \in Callers : pc'[d] = "asked" => asked'[d] \in Question
    BY <2>1 DEF TypeOK
  <2>3. /\ bucket' \in [Buckets -> BucketState \cup {Absent}]
        /\ \A b \in Buckets : bucket'[b].tokens <= Capacity[b]
        /\ touched' \in [Buckets -> Nat]
        /\ slack' \in [Buckets -> Nat]
        /\ promises' \in [Buckets -> SUBSET Promise]
    <3>1. CASE UNCHANGED <<bucket, touched, slack, promises>>
      BY <3>1 DEF TypeOK
    <3>2. CASE ~UNCHANGED <<bucket, touched, slack, promises>>
      <4>1. PICK q \in Question : q = asked[c]
        BY <1>4 DEF ScriptFails, TypeOK
      <4> DEFINE b == q.bucket
      <4>2. b \in Buckets /\ q.clock \in Nat
        BY DEF Question
      <4>3. PICK l \in Refilled(b, q.clock) :
              /\ Write(b, IF l >= Cost THEN l - Cost ELSE l, q.clock)
              /\ promises' \in {[promises EXCEPT ![b] = {}], promises}
        BY <1>4, <3>2, <4>1 DEF ScriptFails
      <4> HIDE DEF b
      <4>4. l \in Nat /\ l <= Capacity[b] /\ slack[b] \in Nat
        BY <4>2, <4>3, RefilledType DEF TypeOK
      <4>5. PICK n \in Nat : n <= Capacity[b] /\ Write(b, n, q.clock)
        <5>1. (IF l >= Cost THEN l - Cost ELSE l) \in Nat
              /\ (IF l >= Cost THEN l - Cost ELSE l) <= Capacity[b]
          BY <4>2, <4>4
        <5> QED
          BY <4>3, <5>1
      <4>6. PICK x \in Nat :
              /\ x <= Capacity[b]
              /\ x + Slip <= n + Error(b) /\ n + Slip <= x + Error(b)
              /\ bucket' = [bucket EXCEPT ![b] = [tokens |-> x, lastRefill |-> q.clock]]
              /\ bucket'[b] = [tokens |-> x, lastRefill |-> q.clock]
              /\ bucket'[b] # Absent
        BY <4>2, <4>5, WriteType
      <4>7. [tokens |-> x, lastRefill |-> q.clock] \in BucketState
        BY <4>2 DEF BucketState
      <4>8. bucket' \in [Buckets -> BucketState \cup {Absent}]
            /\ \A a \in Buckets : bucket'[a].tokens <= Capacity[a]
        BY <4>2, <4>6, <4>7 DEF TypeOK
      <4>9. Error(b) \in Nat
        BY <4>2, ErrorType
      <4>10. slack[b] + Error(b) \in Nat
        BY <4>4, <4>9
      <4>11. /\ touched' = [touched EXCEPT ![b] = now]
             /\ slack' = [slack EXCEPT ![b] = slack[b] + Error(b)]
        BY <4>5 DEF Write
      <4>12. touched' \in [Buckets -> Nat] /\ slack' \in [Buckets -> Nat]
        BY <4>2, <4>10, <4>11 DEF TypeOK
      <4>13. promises' \in [Buckets -> SUBSET Promise]
        BY <4>3 DEF TypeOK
      <4> QED
        BY <4>8, <4>12, <4>13
    <3>3. QED
      BY <3>1, <3>2
  <2>4. QED
    BY <2>1, <2>2, <2>3 DEF TypeOK
<1>5. ASSUME NEW b \in Buckets, Reset(b) \/ Evict(b) PROVE TypeOK'
  <2>1. PICK g \in Seq(Nat), S \in SUBSET Promise :
          /\ bucket' = [bucket EXCEPT ![b] = Absent]
          /\ grants' = [grants EXCEPT ![b] = g]
          /\ promises' = [promises EXCEPT ![b] = S]
          /\ UNCHANGED <<now, offset, touched, slack, pc, asked>>
    <3>1. CASE Reset(b)
      <4>1. <<>> \in Seq(Nat) /\ {} \in SUBSET Promise
        OBVIOUS
      <4>2. QED
        BY <3>1, <4>1 DEF Reset
    <3>2. CASE Evict(b)
      <4>1. grants[b] \in Seq(Nat) /\ promises[b] \in SUBSET Promise
            /\ grants = [grants EXCEPT ![b] = grants[b]]
            /\ promises = [promises EXCEPT ![b] = promises[b]]
        BY DEF TypeOK
      <4>2. QED
        BY <3>2, <4>1 DEF Evict
    <3>3. QED
      BY <1>5, <3>1, <3>2
  <2>2. \A a \in Buckets : bucket'[a].tokens <= Capacity[a]
    BY <2>1 DEF TypeOK, Absent
  <2>3. QED
    BY <2>1, <2>2 DEF TypeOK
<1>6. CASE Tick
  BY <1>6 DEF Tick, TypeOK
<1>7. ASSUME NEW i \in Instances, SetClock(i) PROVE TypeOK'
  <2>1. PICK o \in Offsets : offset' = [offset EXCEPT ![i] = o]
    BY <1>7 DEF SetClock
  <2>2. offset' \in [Instances -> Offsets \cup {0}]
    BY <2>1 DEF TypeOK
  <2>3. QED
    BY <1>7, <2>2 DEF SetClock, TypeOK
<1>8. CASE UNCHANGED vars
  BY <1>8 DEF vars, TypeOK
<1>9. QED
  BY <1>1, <1>2, <1>3, <1>4, <1>5, <1>6, <1>7, <1>8 DEF Next

\* A bucket never holds more than its capacity, nor less than nothing, whatever
\* the clocks do.
THEOREM TypeCorrect == Spec => []TypeOK
BY InitTypes, NextTypes, PTL DEF Spec

-----------------------------------------------------------------------------
(* Retries.                                                                *)

\* With the refill until a millisecond after p, and with the slack since p, there is
\* in b a token and a millisecond's refill.
Owed(b, p) ==
  Cost + Ms <= bucket[b].tokens + Elapsed(b, p.at + Ms) + (slack[b] - p.slack) + Slip

\* The promises made about a bucket that can hold a token.
Kept(b) ==
  Capacity[b] >= Cost /\ bucket[b] # Absent => \A p \in promises[b] : Owed(b, p)

\* A denial keeps the promises made before: what it does not refill it has refilled.
LEMMA DenialOwes ==
  ASSUME TypeOK, NEW b \in Buckets, Capacity[b] >= Cost, Kept(b),
         NEW t \in Nat, NEW l \in Refilled(b, t), l < Cost, Write(b, l, t),
         NEW p \in promises[b]
  PROVE  Owed(b, p)'
<1>0. Capacity[b] \in Nat /\ l \in Nat /\ l <= Capacity[b] /\ slack[b] \in Nat
  BY RefilledType DEF TypeOK
<1>1. l < Capacity[b] /\ bucket[b] # Absent
  BY <1>0, RefilledType
<1>2. p.at \in Nat /\ p.slack \in Nat
  BY DEF TypeOK, Promise
<1>3. PICK s \in BucketState : bucket[b] = s
  BY <1>1 DEF TypeOK
<1>4. PICK k \in Nat, r \in Nat : s.tokens = k /\ s.lastRefill = r
  BY DEF BucketState
<1>5. PICK P \in Nat : P = p.at + Ms
  BY <1>2
<1>6. k + Elapsed(b, t) <= l + Slip
  BY <1>1, <1>3, <1>4, RefilledType
<1>7. Cost + Ms <= k + Elapsed(b, P) + (slack[b] - p.slack) + Slip
  BY <1>1, <1>3, <1>4, <1>5 DEF Kept, Owed
<1>8. PICK x \in Nat :
        /\ x <= Capacity[b]
        /\ x + Slip <= l + Error(b) /\ l + Slip <= x + Error(b)
        /\ bucket' = [bucket EXCEPT ![b] = [tokens |-> x, lastRefill |-> t]]
        /\ bucket'[b] = [tokens |-> x, lastRefill |-> t]
        /\ bucket'[b] # Absent
  BY <1>0, WriteType
<1>9. bucket'[b].tokens = x /\ bucket'[b].lastRefill = t
  BY <1>8
<1>10. slack'[b] = slack[b] + Error(b)
  BY DEF Write, TypeOK
<1>11. Elapsed(b, P)' = IF P >= t THEN P - t ELSE 0
  BY <1>9 DEF Elapsed
<1>12. Elapsed(b, P) = (IF P >= r THEN P - r ELSE 0) /\ Elapsed(b, t) = (IF t >= r THEN t - r ELSE 0)
  BY <1>3, <1>4 DEF Elapsed
<1>13. Error(b) \in Nat
  BY ErrorType
<1>14. Elapsed(b, P) <= Elapsed(b, t) + Elapsed(b, P)'
       /\ Elapsed(b, P) \in Nat /\ Elapsed(b, t) \in Nat /\ Elapsed(b, P)' \in Nat
  BY <1>11, <1>12
<1>15. Cost + Ms <= x + Elapsed(b, P)' + (slack[b] + Error(b) - p.slack) + Slip
  <2>1. PICK e1 \in Nat, e2 \in Nat, e3 \in Nat, e4 \in Nat :
          e1 = Elapsed(b, P) /\ e2 = Elapsed(b, t) /\ e3 = Elapsed(b, P)' /\ e4 = Error(b)
    BY <1>13, <1>14
  <2>2. /\ e1 <= e2 + e3 /\ k + e2 <= l + Slip /\ l + Slip <= x + e4
        /\ Cost + Ms <= k + e1 + (slack[b] - p.slack) + Slip
    BY <1>6, <1>7, <1>8, <1>14, <2>1
  <2>3. Cost + Ms <= x + e3 + (slack[b] + e4 - p.slack) + Slip
    BY <1>0, <1>2, <2>2
  <2> QED
    BY <2>1, <2>3
<1>16. Elapsed(b, p.at + Ms)' = Elapsed(b, P)'
  BY <1>5 DEF Elapsed
<1>17. Cost + Ms <= bucket'[b].tokens + Elapsed(b, p.at + Ms)' + (slack'[b] - p.slack) + Slip
  BY <1>0, <1>2, <1>9, <1>10, <1>13, <1>14, <1>15, <1>16
<1> QED
  BY <1>17 DEF Owed

\* An allowed call ends the promises, a denied one keeps them and makes one.
LEMMA AnswerKeeps ==
  ASSUME TypeOK, NEW c \in Callers, NEW q \in Question, Answer(c, q),
         NEW b \in Buckets, Kept(b)
  PROVE  Kept(b)'
<1>0. q.bucket \in Buckets /\ q.clock \in Nat
  BY DEF Question
<1>1. PICK l \in Refilled(q.bucket, q.clock) : Allow(c, q, l) \/ Deny(c, q, l)
  BY DEF Answer
<1>2. l \in Nat /\ l <= Capacity[q.bucket]
  BY <1>0, RefilledType
<1>3. CASE b # q.bucket
  <2>1. bucket'[b] = bucket[b] /\ promises'[b] = promises[b] /\ slack'[b] = slack[b]
    BY <1>0, <1>1, <1>3 DEF Allow, Deny, Write, TypeOK
  <2>2. QED
    BY <2>1 DEF Kept, Owed, Elapsed
<1>4. CASE b = q.bucket /\ Allow(c, q, l)
  BY <1>4 DEF Allow, TypeOK, Kept
<1>5. CASE b = q.bucket /\ Deny(c, q, l)
  <2> SUFFICES ASSUME Capacity[b] >= Cost, NEW p \in promises'[b] PROVE Owed(b, p)'
    BY DEF Kept
  <2>1. l < Cost /\ Write(b, l, q.clock)
    BY <1>5 DEF Deny
  <2>2. PICK d \in Rounded(Cost - l) :
          promises' = [promises EXCEPT ![b] = promises[b] \cup
            {[at |-> q.clock + Ceil(d), slack |-> slack[b] + Slip]}]
    BY <1>5 DEF Deny
  <2>3. promises'[b] = promises[b] \cup {[at |-> q.clock + Ceil(d), slack |-> slack[b] + Slip]}
    BY <2>2 DEF TypeOK
  <2>4. CASE p \in promises[b]
    BY <1>0, <1>5, <2>1, <2>4, DenialOwes
  <2>5. CASE p = [at |-> q.clock + Ceil(d), slack |-> slack[b] + Slip]
    <3>1. Cost - l \in Nat
      BY <1>2, <2>1
    <3>2. d \in Nat /\ Cost - l <= d + Slip
      BY <3>1, RoundedType
    <3>3. PICK u \in Nat : u = Ceil(d) /\ u >= d
      BY <3>2, CeilType
    <3>4. PICK x \in Nat :
            /\ x <= Capacity[b]
            /\ x + Slip <= l + Error(b) /\ l + Slip <= x + Error(b)
            /\ bucket' = [bucket EXCEPT ![b] = [tokens |-> x, lastRefill |-> q.clock]]
            /\ bucket'[b] = [tokens |-> x, lastRefill |-> q.clock]
            /\ bucket'[b] # Absent
      BY <1>0, <1>2, <1>5, <2>1, WriteType
    <3>5. bucket'[b].tokens = x /\ bucket'[b].lastRefill = q.clock
      BY <3>4
    <3>6. slack'[b] = slack[b] + Error(b) /\ slack[b] \in Nat
      BY <2>1 DEF Write, TypeOK
    <3>7. p.at = q.clock + u /\ p.slack = slack[b] + Slip
      BY <2>5, <3>3
    <3>8. Elapsed(b, p.at + Ms)' = u + Ms
      <4>1. PICK P \in Nat : P = q.clock + (u + Ms)
        BY <1>0
      <4>2. P = p.at + Ms
        BY <1>0, <3>7, <4>1
      <4>3. Elapsed(b, P)' = u + Ms
        BY <1>0, <3>5, <4>1 DEF Elapsed
      <4> QED
        BY <4>2, <4>3 DEF Elapsed
    <3>9. PICK e \in Nat : e = Error(b)
      BY ErrorType
    <3>10. Cost + Ms <= x + (u + Ms) + (slack[b] + e - (slack[b] + Slip)) + Slip
      BY <1>2, <3>2, <3>3, <3>4, <3>6, <3>9
    <3> QED
      BY <3>5, <3>6, <3>7, <3>8, <3>9, <3>10 DEF Owed
  <2> QED
    BY <2>3, <2>4, <2>5
<1>6. QED
  BY <1>1, <1>3, <1>4, <1>5

LEMMA NextKeeps ==
  ASSUME TypeOK, [Next]_vars, NEW b \in Buckets, Kept(b)
  PROVE  Kept(b)'
<1>1. ASSUME NEW c \in Callers, ConsumeInMemory(c) PROVE Kept(b)'
  <2>1. PICK a \in Buckets : Home[a] # None /\ Answer(c, Ask(Home[a], a))
    BY <1>1 DEF ConsumeInMemory
  <2>2. PICK q \in Question : q = Ask(Home[a], a)
    BY <2>1, AskType
  <2>3. QED
    BY <2>1, <2>2, AnswerKeeps
<1>2. ASSUME NEW c \in Callers, RunScript(c) PROVE Kept(b)'
  <2>1. PICK q \in Question : q = asked[c]
    BY <1>2 DEF RunScript, TypeOK
  <2>2. QED
    BY <1>2, <2>1, AnswerKeeps DEF RunScript
<1>3. ASSUME NEW c \in Callers, ScriptFails(c) PROVE Kept(b)'
  <2>1. CASE UNCHANGED <<bucket, touched, slack, promises>>
    BY <2>1 DEF Kept, Owed, Elapsed
  <2>2. CASE ~UNCHANGED <<bucket, touched, slack, promises>>
    <3>1. PICK q \in Question : q = asked[c]
      BY <1>3 DEF ScriptFails, TypeOK
    <3>2. q.bucket \in Buckets /\ q.clock \in Nat
      BY DEF Question
    <3>3. PICK l \in Refilled(q.bucket, q.clock) :
            /\ Write(q.bucket, IF l >= Cost THEN l - Cost ELSE l, q.clock)
            /\ promises' = IF l >= Cost THEN [promises EXCEPT ![q.bucket] = {}] ELSE promises
      BY <1>3, <2>2, <3>1 DEF ScriptFails
    <3>4. l \in Nat
      BY <3>2, RefilledType
    <3>5. CASE b # q.bucket
      <4>1. bucket'[b] = bucket[b] /\ promises'[b] = promises[b] /\ slack'[b] = slack[b]
        BY <3>2, <3>3, <3>5 DEF Write, TypeOK
      <4> QED
        BY <4>1 DEF Kept, Owed, Elapsed
    <3>6. CASE b = q.bucket /\ l >= Cost
      BY <3>3, <3>6 DEF Kept, TypeOK
    <3>7. CASE b = q.bucket /\ ~(l >= Cost)
      \* The script has run as for a denial that nobody heard of.
      <4>1. l < Cost /\ Write(b, l, q.clock) /\ promises' = promises
        BY <3>3, <3>4, <3>7
      <4>2. ASSUME Capacity[b] >= Cost, NEW p \in promises[b] PROVE Owed(b, p)'
        BY <3>2, <3>7, <4>1, <4>2, DenialOwes
      <4> QED
        BY <4>1, <4>2 DEF Kept
    <3> QED
      BY <3>5, <3>6, <3>7
  <2>3. QED
    BY <2>1, <2>2
<1>4. ASSUME NEW a \in Buckets, Reset(a) \/ Evict(a) PROVE Kept(b)'
  <2>1. CASE a = b
    <3>1. bucket'[b] = Absent
      BY <1>4, <2>1 DEF Reset, Evict, TypeOK
    <3>2. QED
      BY <3>1 DEF Kept
  <2>2. CASE a # b
    <3>1. bucket'[b] = bucket[b] /\ promises'[b] = promises[b] /\ slack'[b] = slack[b]
      BY <1>4, <2>2 DEF Reset, Evict, TypeOK
    <3>2. QED
      BY <3>1 DEF Kept, Owed, Elapsed
  <2>3. QED
    BY <2>1, <2>2
<1>5. CASE UNCHANGED <<bucket, slack, promises>>
  BY <1>5 DEF Kept, Owed, Elapsed
<1>6. ASSUME \/ \E c \in Callers : ConsumeRemotely(c)
             \/ Tick
             \/ \E i \in Instances : SetClock(i)
             \/ UNCHANGED vars
      PROVE  UNCHANGED <<bucket, slack, promises>>
  BY <1>6 DEF ConsumeRemotely, Tick, SetClock, vars
<1>7. QED
  BY <1>1, <1>2, <1>3, <1>4, <1>5, <1>6 DEF Next

\* What is owed is there.
LEMMA KeptSuffices ==
  ASSUME TypeOK, NEW b \in Buckets, Kept(b), Capacity[b] >= Cost,
         NEW p \in promises[b], slack[b] - p.slack + 2 * Slip <= Ms,
         NEW n \in Refilled(b, p.at + Ms)
  PROVE  n >= Cost
<1>1. p.at \in Nat /\ p.slack \in Nat /\ slack[b] \in Nat
  BY DEF TypeOK, Promise
<1>2. PICK P \in Nat : P = p.at + Ms
  BY <1>1
<1>3. n \in Nat /\ n <= Capacity[b] /\ Capacity[b] \in Nat
  BY <1>2, RefilledType
<1>4. CASE bucket[b] = Absent \/ n = Capacity[b]
  BY <1>2, <1>3, <1>4, RefilledType
<1>5. CASE bucket[b] # Absent /\ n < Capacity[b]
  <2>1. PICK s \in BucketState : bucket[b] = s
    BY <1>5 DEF TypeOK
  <2>2. PICK k \in Nat, e \in Nat : k = bucket[b].tokens /\ e = Elapsed(b, P)
    BY <1>2, <1>5, <2>1, RefilledType DEF BucketState
  <2>3. k + e <= n + Slip
    BY <1>2, <1>5, <2>2, RefilledType
  <2>4. Cost + Ms <= k + e + (slack[b] - p.slack) + Slip
    BY <1>2, <1>5, <2>2 DEF Kept, Owed
  <2> QED
    BY <1>1, <1>3, <2>3, <2>4
<1> QED
  BY <1>3, <1>4, <1>5

\* A denied caller that waits as long as it was told and a millisecond finds a token,
\* whatever other callers are denied meanwhile, and however clocks drift, sums are
\* rounded and scripts are reordered or lost, until the slack of all these calls comes
\* to a millisecond's refill.
THEOREM RetriesSucceed == Spec => []RetryAfterSuffices
<1> DEFINE Inv == TypeOK /\ \A b \in Buckets : Kept(b)
<1>1. Init => Inv
  BY InitTypes DEF Init, Kept
<1>2. Inv /\ [Next]_vars => Inv'
  <2> SUFFICES ASSUME Inv, [Next]_vars PROVE Inv'
    OBVIOUS
  <2>1. TypeOK'
    BY NextTypes
  <2>2. ASSUME NEW b \in Buckets PROVE Kept(b)'
    BY NextKeeps
  <2>3. QED
    BY <2>1, <2>2
<1>3. Inv => RetryAfterSuffices
  <2> SUFFICES ASSUME Inv, NEW b \in Buckets, Capacity[b] >= Cost,
                      NEW p \in promises[b], slack[b] - p.slack + 2 * Slip <= Ms,
                      NEW n \in Refilled(b, p.at + Ms)
               PROVE  n >= Cost
    BY DEF RetryAfterSuffices
  <2> QED
    BY KeptSuffices
<1> HIDE DEF Inv
<1>4. QED
  BY <1>1, <1>2, <1>3, PTL DEF Spec

-----------------------------------------------------------------------------
(* Rates.                                                                  *)

\* The stretches of the grants g that end at r, time and slack, with t units left then.
Fits(g, t, r, cap) ==
  \A m \in 1..Len(g) :
    g[m] <= r /\ (Len(g) - m + 1) * Cost + t <= cap + (r - g[m])

\* The stretches of the grants g.
Paired(g, cap) ==
  \A m, n \in 1..Len(g) :
    m <= n => g[m] <= g[n] /\ (n - m + 1) * Cost <= cap + (g[n] - g[m])

LEMMA OneMore == \A x \in Int : (x + 1) * Cost = x * Cost + Cost
  OBVIOUS

\* Between r and w at most as many units are refilled as time passes and slack grows.
LEMMA WaitFits ==
  ASSUME NEW g \in Seq(Nat), NEW t \in Nat, NEW r \in Nat, NEW cap \in Nat,
         NEW l \in Nat, NEW w \in Nat,
         Fits(g, t, r, cap), r <= w, l <= t + (w - r)
  PROVE  Fits(g, l, w, cap)
<1> SUFFICES ASSUME NEW m \in 1..Len(g)
             PROVE  g[m] <= w /\ (Len(g) - m + 1) * Cost + l <= cap + (w - g[m])
  BY DEF Fits
<1>1. g[m] <= r /\ (Len(g) - m + 1) * Cost + t <= cap + (r - g[m])
  BY DEF Fits
<1>2. g[m] \in Nat
  OBVIOUS
<1> DEFINE k == (Len(g) - m + 1) * Cost
<1>3. k \in Int
  OBVIOUS
<1> HIDE DEF k
<1>4. k + t <= cap + (r - g[m])
  BY <1>1 DEF k
<1>5. k + l <= cap + (w - g[m])
  BY <1>2, <1>3, <1>4
<1>6. QED
  BY <1>1, <1>2, <1>5 DEF k

\* Taking a token at w out of the l units that are there keeps both accounts.
LEMMA GrantFits ==
  ASSUME NEW g \in Seq(Nat), NEW cap \in Nat, NEW l \in Nat, NEW w \in Nat,
         Fits(g, l, w, cap), Paired(g, cap), l <= cap, l >= Cost
  PROVE  /\ Fits(Append(g, w), l - Cost, w, cap)
         /\ Paired(Append(g, w), cap)
<1> DEFINE h == Append(g, w)
           L == Len(g)
<1>1. /\ L \in Nat /\ Len(h) = L + 1
      /\ h[L + 1] = w
      /\ \A m \in 1..L : h[m] = g[m] /\ g[m] \in Nat
  OBVIOUS
<1>2. \A m \in 1..L :
        g[m] <= w /\ (L - m + 1) * Cost + l <= cap + (w - g[m])
  BY DEF Fits
<1>3. \A m, n \in 1..L :
        m <= n => g[m] <= g[n] /\ (n - m + 1) * Cost <= cap + (g[n] - g[m])
  BY DEF Paired
<1> HIDE DEF h, L
<1>4. ASSUME NEW m \in 1..(L + 1)
      PROVE  h[m] <= w /\ (L + 1 - m + 1) * Cost + (l - Cost) <= cap + (w - h[m])
  <2>1. CASE m = L + 1
    <3>1. L + 1 - m + 1 = 1
      BY <1>1, <2>1
    <3>2. 1 * Cost = Cost
      OBVIOUS
    <3>3. QED
      BY <1>1, <2>1, <3>1, <3>2
  <2>2. CASE m # L + 1
    <3>1. m \in 1..L
      BY <1>1, <2>2
    <3> DEFINE k == (L - m + 1) * Cost
    <3>2. (L + 1 - m + 1) * Cost = k + Cost
      <4>1. L - m + 1 \in Int /\ L + 1 - m + 1 = (L - m + 1) + 1
        BY <1>1, <3>1
      <4>2. QED
        BY <4>1, OneMore
    <3>3. k \in Int /\ g[m] \in Nat /\ h[m] = g[m]
      BY <1>1, <3>1
    <3>4. g[m] <= w /\ k + l <= cap + (w - g[m])
      BY <1>2, <3>1
    <3> HIDE DEF k
    <3>5. QED
      BY <3>2, <3>3, <3>4
  <2>3. QED
    BY <2>1, <2>2
<1>5. Fits(h, l - Cost, w, cap)
  BY <1>1, <1>4 DEF Fits
<1>6. ASSUME NEW m \in 1..(L + 1), NEW n \in 1..(L + 1), m <= n
      PROVE  h[m] <= h[n] /\ (n - m + 1) * Cost <= cap + (h[n] - h[m])
  <2>1. CASE n = L + 1
    <3> DEFINE k == (n - m + 1) * Cost
    <3>1. h[m] <= w /\ k + (l - Cost) <= cap + (w - h[m])
      <4>1. h[m] <= w /\ (L + 1 - m + 1) * Cost + (l - Cost) <= cap + (w - h[m])
        BY <1>4
      <4>2. (L + 1 - m + 1) * Cost = k
        <5>1. L + 1 - m + 1 = n - m + 1
          BY <1>1, <2>1
        <5>2. QED
          BY <5>1
      <4> HIDE DEF k
      <4>3. QED
        BY <4>1, <4>2
    <3>2. h[m] \in Nat /\ h[n] = w
      BY <1>1, <2>1
    <3>3. k \in Int
      OBVIOUS
    <3> HIDE DEF k
    <3>4. k <= cap + (h[n] - h[m])
      BY <3>1, <3>2, <3>3
    <3>5. QED
      BY <3>1, <3>2, <3>4 DEF k
  <2>2. CASE n # L + 1
    <3>1. m \in 1..L /\ n \in 1..L
      BY <1>1, <1>6, <2>2
    <3>2. QED
      BY <1>1, <1>3, <1>6, <3>1
  <2>3. QED
    BY <2>1, <2>2
<1>7. Paired(h, cap)
  BY <1>1, <1>6 DEF Paired
<1>8. QED
  BY <1>5, <1>7 DEF h

\* What a call refills fits the grants.
LEMMA RefilledFits ==
  ASSUME TypeOK, NEW b \in Buckets, bucket[b] # Absent,
         Fits(grants[b], bucket[b].tokens, bucket[b].lastRefill + slack[b], Capacity[b]),
         NEW w \in Nat, bucket[b].lastRefill <= w, NEW l \in Refilled(b, w)
  PROVE  Fits(grants[b], l, w + slack[b] + Slip, Capacity[b])
<1>1. PICK s \in BucketState : bucket[b] = s
  BY DEF TypeOK
<1>2. PICK t \in Nat, r \in Nat : bucket[b].tokens = t /\ bucket[b].lastRefill = r
  BY <1>1 DEF BucketState
<1>3. PICK g \in Seq(Nat), cap \in Nat, k \in Nat :
        g = grants[b] /\ cap = Capacity[b] /\ k = slack[b]
  BY DEF TypeOK
<1>4. Elapsed(b, w) = w - r /\ r <= w
  BY <1>2 DEF Elapsed
<1>5. l \in Nat /\ l <= t + (w - r) + Slip
  BY <1>2, <1>4, RefilledType
<1>6. /\ r + k \in Nat /\ w + k + Slip \in Nat /\ r + k <= w + k + Slip
      /\ (w + k + Slip) - (r + k) = (w - r) + Slip
  BY <1>4
<1>7. l <= t + ((w + k + Slip) - (r + k))
  BY <1>5, <1>6
<1>8. Fits(g, t, r + k, cap)
  BY <1>2, <1>3
<1>9. Fits(g, l, w + k + Slip, cap)
  BY <1>5, <1>6, <1>7, <1>8, WaitFits
<1> QED
  BY <1>3, <1>9

\* What a call writes fits the grants, if what it computed does.
LEMMA WriteFits ==
  ASSUME TypeOK, NEW b \in Buckets, NEW g \in Seq(Nat), NEW n \in Nat, n <= Capacity[b],
         NEW t \in Nat, Write(b, n, t), Fits(g, n, t + slack[b] + Slip, Capacity[b])
  PROVE  /\ bucket'[b] # Absent /\ bucket'[b].lastRefill = t /\ touched'[b] = now
         /\ Fits(g, bucket'[b].tokens, t + slack'[b], Capacity[b])
<1>1. PICK x \in Nat :
        /\ x <= Capacity[b]
        /\ x + Slip <= n + Error(b) /\ n + Slip <= x + Error(b)
        /\ bucket' = [bucket EXCEPT ![b] = [tokens |-> x, lastRefill |-> t]]
        /\ bucket'[b] = [tokens |-> x, lastRefill |-> t]
        /\ bucket'[b] # Absent
  BY WriteType
<1>2. bucket'[b].tokens = x /\ bucket'[b].lastRefill = t
  BY <1>1
<1>3. slack'[b] = slack[b] + Error(b) /\ touched'[b] = now
  BY DEF Write, TypeOK
<1>4. PICK cap \in Nat, k \in Nat, e \in Nat :
        cap = Capacity[b] /\ k = slack[b] /\ e = Error(b) /\ e >= Slip
  BY ErrorType DEF TypeOK
<1>5. /\ t + k + Slip \in Nat /\ t + (k + e) \in Nat /\ t + k + Slip <= t + (k + e)
      /\ (t + (k + e)) - (t + k + Slip) = e - Slip
  <2>1. e >= Slip
    BY <1>4
  <2> QED
    BY <2>1
<1>6. x <= n + ((t + (k + e)) - (t + k + Slip))
  <2>1. x + Slip <= n + e
    BY <1>1, <1>4
  <2>2. x <= n + (e - Slip)
    BY <2>1
  <2> QED
    BY <1>5, <2>2
<1>7. Fits(g, n, t + k + Slip, cap)
  BY <1>4
<1>8. Fits(g, x, t + (k + e), cap)
  BY <1>5, <1>6, <1>7, WaitFits
<1> QED
  BY <1>1, <1>2, <1>3, <1>4, <1>8

\* A question answered by the clock it was asked at keeps both accounts.
LEMMA AnswerFits ==
  ASSUME TypeOK, NEW c \in Callers, NEW q \in Question, NEW b \in Buckets,
         q.bucket = b, q.clock = q.at, NEW l \in Refilled(b, q.at),
         Allow(c, q, l) \/ Deny(c, q, l),
         Fits(grants[b], l, q.at + slack[b] + Slip, Capacity[b]),
         Paired(grants[b], Capacity[b])
  PROVE  /\ bucket'[b] # Absent /\ bucket'[b].lastRefill = q.at /\ touched'[b] = now
         /\ Paired(grants'[b], Capacity[b])
         /\ Fits(grants'[b], bucket'[b].tokens, q.at + slack'[b], Capacity[b])
<1>1. q.at \in Nat
  BY DEF Question
<1>2. PICK g \in Seq(Nat), cap \in Nat, k \in Nat :
        g = grants[b] /\ cap = Capacity[b] /\ k = slack[b]
  BY DEF TypeOK
<1>3. l \in Nat /\ l <= cap
  BY <1>1, <1>2, RefilledType
<1>4. PICK w \in Nat : w = q.at + k + Slip
  BY <1>1, <1>2
<1>5. Fits(g, l, w, cap) /\ Paired(g, cap)
  BY <1>2, <1>4
<1>6. CASE Allow(c, q, l)
  <2>1. l >= Cost /\ l - Cost \in Nat /\ l - Cost <= cap
    BY <1>3, <1>6 DEF Allow
  <2>2. PICK n \in Nat : n = l - Cost
    BY <2>1
  <2>3. Append(g, w) \in Seq(Nat)
    OBVIOUS
  <2>4. PICK h \in Seq(Nat) : h = Append(g, w)
    BY <2>3
  <2>5. Write(b, n, q.at) /\ grants'[b] = h
    BY <1>2, <1>4, <1>6, <2>2, <2>4 DEF Allow, TypeOK
  <2>6. Fits(h, n, w, cap) /\ Paired(h, cap)
    BY <1>3, <1>5, <2>1, <2>2, <2>4, GrantFits
  <2>7. n <= Capacity[b] /\ Fits(h, n, q.at + slack[b] + Slip, Capacity[b])
    BY <1>2, <1>4, <2>1, <2>2, <2>6
  <2>8. /\ bucket'[b] # Absent /\ bucket'[b].lastRefill = q.at /\ touched'[b] = now
        /\ Fits(h, bucket'[b].tokens, q.at + slack'[b], Capacity[b])
    BY <1>1, <2>5, <2>7, WriteFits
  <2> QED
    BY <1>2, <2>5, <2>6, <2>8
<1>7. CASE Deny(c, q, l)
  <2>1. Write(b, l, q.at) /\ grants'[b] = g
    BY <1>2, <1>7 DEF Deny
  <2> QED
    BY <1>1, <1>2, <1>3, <1>5, <2>1, WriteFits
<1> QED
  BY <1>6, <1>7

\* The account of a bucket in the memory of a process whose clock nobody sets.
Account(b) ==
  /\ Paired(grants[b], Capacity[b])
  /\ bucket[b] = Absent => grants[b] = <<>>
  /\ bucket[b] # Absent =>
       /\ bucket[b].lastRefill <= now
       /\ Fits(grants[b], bucket[b].tokens, bucket[b].lastRefill + slack[b], Capacity[b])

\* Those clocks stay right, and only Upstash is asked over the network.
Local ==
  /\ \A i \in Instances \ Drifting : offset[i] = 0
  /\ \A c \in Callers : pc[c] = "asked" => Home[asked[c].bucket] = None

LEMMA InitAccounts ==
  ASSUME Init
  PROVE  Local /\ \A b \in Buckets : Account(b)
<1>1. Local
  BY DEF Init, Local
<1>2. ASSUME NEW b \in Buckets PROVE Account(b)
  <2>1. grants[b] = <<>> /\ bucket[b] = Absent
    BY DEF Init
  <2>2. Paired(<<>>, Capacity[b])
    BY DEF Paired
  <2>3. QED
    BY <2>1, <2>2 DEF Account
<1>3. QED
  BY <1>1, <1>2

\* Every step keeps Local.
LEMMA NextLocal ==
  ASSUME TypeOK, Local, [Next]_vars
  PROVE  Local'
<1>1. ASSUME NEW c \in Callers, ConsumeInMemory(c) PROVE Local'
  <2>1. PICK q, a :
          /\ UNCHANGED <<now, offset>>
          /\ asked' = [asked EXCEPT ![c] = q]
          /\ Answer(c, a)
    BY <1>1 DEF ConsumeInMemory
  <2>2. \E x \in {"allowed", "denied"} : pc' = [pc EXCEPT ![c] = x]
    BY <2>1 DEF Answer, Allow, Deny
  <2>3. QED
    BY <2>1, <2>2 DEF Local, TypeOK
<1>2. ASSUME NEW c \in Callers, ConsumeRemotely(c) PROVE Local'
  <2>1. PICK i \in Instances, a \in Buckets :
          Home[a] = None /\ asked' = [asked EXCEPT ![c] = Ask(i, a)]
    BY <1>2 DEF ConsumeRemotely
  <2>2. asked'[c].bucket = a /\ \A d \in Callers \ {c} : asked'[d] = asked[d]
    BY <2>1 DEF TypeOK, Ask
  <2>3. pc' = [pc EXCEPT ![c] = "asked"] /\ UNCHANGED offset
    BY <1>2 DEF ConsumeRemotely
  <2>4. QED
    BY <2>1, <2>2, <2>3 DEF Local, TypeOK
<1>3. ASSUME NEW c \in Callers, RunScript(c) \/ ScriptFails(c) PROVE Local'
  <2>1. \E x \in {"allowed", "denied", "failed"} : pc' = [pc EXCEPT ![c] = x]
    BY <1>3 DEF RunScript, ScriptFails, Answer, Allow, Deny
  <2>2. UNCHANGED <<offset, asked>>
    BY <1>3 DEF RunScript, ScriptFails
  <2>3. QED
    BY <2>1, <2>2 DEF Local, TypeOK
<1>4. ASSUME NEW i \in Instances, SetClock(i) PROVE Local'
  BY <1>4 DEF SetClock, Local, TypeOK
<1>5. ASSUME NEW b \in Buckets, Reset(b) \/ Evict(b) PROVE Local'
  BY <1>5 DEF Reset, Evict, Local
<1>6. CASE Tick \/ UNCHANGED vars
  BY <1>6 DEF Tick, vars, Local
<1>7. QED
  BY <1>1, <1>2, <1>3, <1>4, <1>5, <1>6 DEF Next

\* A step that leaves a bucket alone keeps its account.
LEMMA OthersAccount ==
  ASSUME TypeOK, NEW b \in Buckets, Account(b),
         bucket'[b] = bucket[b], grants'[b] = grants[b], slack'[b] = slack[b],
         now' \in {now, now + Ms}
  PROVE  Account(b)'
<1>1. CASE bucket[b] = Absent
  BY <1>1 DEF Account
<1>2. CASE bucket[b] # Absent
  <2>1. PICK s \in BucketState : bucket[b] = s
    BY <1>2 DEF TypeOK
  <2>2. s.lastRefill \in Nat /\ s.lastRefill <= now /\ now \in Nat
    BY <1>2, <2>1 DEF Account, TypeOK, BucketState
  <2>3. bucket'[b].lastRefill <= now'
    BY <2>1, <2>2
  <2>4. QED
    BY <1>2, <2>3 DEF Account
<1>3. QED
  BY <1>1, <1>2

\* A question answered at once keeps the account of its bucket.
LEMMA AnswerAccounts ==
  ASSUME TypeOK, NEW c \in Callers, NEW b \in Buckets, Account(b),
         NEW q \in Question, q.bucket = b, q.at = now, q.clock = now,
         Answer(c, q), UNCHANGED now
  PROVE  Account(b)'
<1>1. PICK l \in Refilled(b, now) : Allow(c, q, l) \/ Deny(c, q, l)
  BY DEF Answer
<1>2. now \in Nat /\ slack[b] \in Nat /\ Capacity[b] \in Nat
  BY DEF TypeOK
<1>3. Fits(grants[b], l, now + slack[b] + Slip, Capacity[b])
  <2>1. CASE bucket[b] = Absent
    BY <2>1 DEF Account, Fits
  <2>2. CASE bucket[b] # Absent
    BY <1>1, <1>2, <2>2, RefilledFits DEF Account
  <2> QED
    BY <2>1, <2>2
<1>4. Paired(grants[b], Capacity[b])
  BY DEF Account
<1>5. /\ bucket'[b] # Absent /\ bucket'[b].lastRefill = now
      /\ Paired(grants'[b], Capacity[b])
      /\ Fits(grants'[b], bucket'[b].tokens, now + slack'[b], Capacity[b])
  BY <1>1, <1>3, <1>4, AnswerFits
<1> QED
  BY <1>2, <1>5 DEF Account

\* Every step keeps the account of a bucket in memory.
LEMMA NextAccounts ==
  ASSUME TypeOK, Local, [Next]_vars, NEW b \in Buckets, Account(b),
         Home[b] # None, Home[b] \notin Drifting
  PROVE  Account(b)'
<1>1. ASSUME NEW c \in Callers, ConsumeInMemory(c) PROVE Account(b)'
  <2>1. PICK a \in Buckets :
          /\ Home[a] # None
          /\ UNCHANGED <<now, offset>>
          /\ Answer(c, Ask(Home[a], a))
    BY <1>1 DEF ConsumeInMemory
  <2>2. Home[a] \in Instances
    BY <2>1
  <2>3. PICK q \in Question : q = Ask(Home[a], a)
    BY <2>2, AskType
  <2>4. Answer(c, q)
    BY <2>1, <2>3
  <2>5. q.bucket = a /\ q.at = now /\ q.clock = now + offset[Home[a]]
    BY <2>3 DEF Ask
  <2>6. CASE a = b
    <3>1. offset[Home[b]] = 0 /\ now \in Nat
      BY <2>2, <2>6 DEF Local, TypeOK
    <3>2. q.clock = now
      BY <2>5, <2>6, <3>1
    <3>3. QED
      BY <2>1, <2>4, <2>5, <2>6, <3>2, AnswerAccounts
  <2>7. CASE a # b
    <3>1. bucket'[b] = bucket[b] /\ grants'[b] = grants[b] /\ slack'[b] = slack[b]
      BY <2>4, <2>5, <2>7 DEF Answer, Allow, Deny, Write, TypeOK
    <3>2. QED
      BY <2>1, <3>1, OthersAccount
  <2>8. QED
    BY <2>6, <2>7
<1>2. ASSUME NEW c \in Callers, RunScript(c) \/ ScriptFails(c) PROVE Account(b)'
  <2>1. PICK q \in Question : q = asked[c]
    BY <1>2 DEF RunScript, ScriptFails, TypeOK
  <2>2. q.bucket # b
    BY <1>2, <2>1 DEF RunScript, ScriptFails, Local
  <2>3. CASE RunScript(c)
    <3>1. Answer(c, q) /\ UNCHANGED now
      BY <2>1, <2>3 DEF RunScript
    <3>2. bucket'[b] = bucket[b] /\ grants'[b] = grants[b] /\ slack'[b] = slack[b]
      BY <2>2, <3>1 DEF Answer, Allow, Deny, Write, TypeOK
    <3>3. QED
      BY <3>1, <3>2, OthersAccount
  <2>4. CASE ScriptFails(c)
    <3>1. UNCHANGED <<now, grants>>
      BY <2>4 DEF ScriptFails
    <3>2. \/ UNCHANGED <<bucket, slack>>
          \/ \E s, k : /\ bucket' = [bucket EXCEPT ![q.bucket] = s]
                       /\ slack' = [slack EXCEPT ![q.bucket] = k]
      BY <2>1, <2>4 DEF ScriptFails, Write
    <3>3. bucket'[b] = bucket[b] /\ slack'[b] = slack[b]
      BY <2>2, <3>2 DEF TypeOK
    <3>4. QED
      BY <3>1, <3>3, OthersAccount
  <2>5. QED
    BY <1>2, <2>3, <2>4
<1>3. ASSUME NEW a \in Buckets, Reset(a) PROVE Account(b)'
  <2>1. UNCHANGED now
    BY <1>3 DEF Reset
  <2>2. CASE a = b
    <3>1. bucket'[b] = Absent /\ grants'[b] = <<>>
      BY <1>3, <2>2 DEF Reset, TypeOK
    <3>2. Paired(<<>>, Capacity[b])
      BY DEF Paired
    <3>3. QED
      BY <3>1, <3>2 DEF Account
  <2>3. CASE a # b
    <3>1. bucket'[b] = bucket[b] /\ grants'[b] = grants[b] /\ slack'[b] = slack[b]
      BY <1>3, <2>3 DEF Reset, TypeOK
    <3>2. QED
      BY <2>1, <3>1, OthersAccount
  <2>4. QED
    BY <2>2, <2>3
<1>4. ASSUME NEW a \in Buckets, Evict(a) PROVE Account(b)'
  <2>1. a # b /\ UNCHANGED <<now, grants, slack>>
    BY <1>4 DEF Evict
  <2>2. bucket'[b] = bucket[b]
    BY <1>4, <2>1 DEF Evict, TypeOK
  <2>3. QED
    BY <2>1, <2>2, OthersAccount
<1>5. CASE UNCHANGED <<bucket, grants, slack>> /\ now' \in {now, now + Ms}
  <2>1. bucket'[b] = bucket[b] /\ grants'[b] = grants[b] /\ slack'[b] = slack[b]
    BY <1>5
  <2>2. QED
    BY <1>5, <2>1, OthersAccount
<1>6. ASSUME \/ \E c \in Callers : ConsumeRemotely(c)
             \/ Tick
             \/ \E i \in Instances : SetClock(i)
             \/ UNCHANGED vars
      PROVE  UNCHANGED <<bucket, grants, slack>> /\ now' \in {now, now + Ms}
  BY <1>6 DEF ConsumeRemotely, Tick, SetClock, vars
<1>7. QED
  BY <1>1, <1>2, <1>3, <1>4, <1>5, <1>6 DEF Next

\* Stretches that are in order are throttled.
LEMMA PairedThrottles ==
  ASSUME NEW b \in Buckets, grants[b] \in Seq(Nat), Paired(grants[b], Capacity[b])
  PROVE  Throttled(b)
<1>1. PICK g \in Seq(Nat) : g = grants[b]
  OBVIOUS
<1>2. ASSUME NEW m \in DOMAIN g, NEW n \in DOMAIN g, m <= n
      PROVE  \E i, j \in m..n : (n - m + 1) * Cost <= Capacity[b] + (g[i] - g[j])
  <2>1. m \in 1..Len(g) /\ n \in 1..Len(g)
    OBVIOUS
  <2>2. (n - m + 1) * Cost <= Capacity[b] + (g[n] - g[m])
    BY <1>1, <1>2, <2>1 DEF Paired
  <2>3. n \in m..n /\ m \in m..n
    BY <1>2, <2>1
  <2> QED
    BY <2>2, <2>3
<1> QED
  BY <1>1, <1>2 DEF Throttled

\* A bucket in memory never allows more than its capacity, what was refilled since
\* and what rounding adds, over any stretch of its calls, as long as its process's
\* clock is not set (tokenBucketLimiter's refill and consume).
THEOREM MemoryLimiterThrottles == Spec => []RateBound
<1> DEFINE Steady(b) == Home[b] # None /\ Home[b] \notin Drifting
           Inv == TypeOK /\ Local /\ \A b \in Buckets : Steady(b) => Account(b)
<1>1. Init => Inv
  BY InitTypes, InitAccounts
<1>2. Inv /\ [Next]_vars => Inv'
  <2> SUFFICES ASSUME Inv, [Next]_vars PROVE Inv'
    OBVIOUS
  <2>1. TypeOK' /\ Local'
    BY NextTypes, NextLocal
  <2>2. ASSUME NEW b \in Buckets, Steady(b) PROVE Account(b)'
    BY <2>2, NextAccounts
  <2>3. QED
    BY <2>1, <2>2
<1>3. Inv => RateBound
  <2> SUFFICES ASSUME Inv, NEW b \in Buckets, Steady(b) PROVE Throttled(b)
    BY DEF RateBound
  <2> QED
    BY PairedThrottles DEF TypeOK, Account
<1> HIDE DEF Inv
<1>4. QED
  BY <1>1, <1>2, <1>3, PTL DEF Spec

-----------------------------------------------------------------------------
(* The rate on Upstash, where scripts run in the order they were sent.     *)

\* Whose script has run, or may have.
Ran == {"allowed", "denied", "failed"}

\* A step that answers a script answers it within delay, and after no script that was
\* sent later for the same bucket.
Orderly(delay) ==
  \A c \in Callers :
    pc[c] = "asked" /\ pc'[c] # "asked" =>
      /\ now <= asked[c].at + delay
      /\ \A d \in Callers :
           pc[d] \in Ran /\ asked[d].bucket = asked[c].bucket => asked[d].at <= asked[c].at

\* The limiters over a network that keeps the order of scripts.
OrderlySpec(delay) == Init /\ [][Next /\ Orderly(delay)]_vars

\* Every clock is right, and so is every question.
Right ==
  /\ \A i \in Instances : offset[i] = 0
  /\ \A c \in Callers :
       pc[c] # "idle" => asked[c] \in Question /\ asked[c].clock = asked[c].at /\ asked[c].at <= now

\* The account of a bucket on Upstash.  The clock it was last refilled by is that of a
\* script that has run, and so not ahead of those that will; a bucket that Redis has
\* evicted would have been full by the clock of any of these.
SharedAccount(b, delay) ==
  /\ Paired(grants[b], Capacity[b])
  /\ bucket[b] = Absent =>
       \A w \in Nat :
         w + delay >= now => Fits(grants[b], Capacity[b], w + slack[b], Capacity[b])
  /\ bucket[b] # Absent =>
       /\ bucket[b].lastRefill <= touched[b]
       /\ \E d \in Callers :
            pc[d] \in Ran /\ asked[d].bucket = b /\ asked[d].at = bucket[b].lastRefill
       /\ Fits(grants[b], bucket[b].tokens, bucket[b].lastRefill + slack[b], Capacity[b])

LEMMA NothingFits ==
  ASSUME NEW t, NEW r, NEW cap
  PROVE  Fits(<<>>, t, r, cap) /\ Paired(<<>>, cap)
BY DEF Fits, Paired

LEMMA InitShared ==
  ASSUME Init, NEW delay \in Nat
  PROVE  Right /\ \A b \in Buckets : SharedAccount(b, delay)
<1>1. Right
  BY DEF Init, Right
<1>2. ASSUME NEW b \in Buckets PROVE SharedAccount(b, delay)
  <2>1. grants[b] = <<>> /\ bucket[b] = Absent
    BY DEF Init
  <2> QED
    BY <2>1, NothingFits DEF SharedAccount
<1> QED
  BY <1>1, <1>2

\* What a question is, when clocks are right.
LEMMA AskRight ==
  ASSUME TypeOK, Right, NEW i \in Instances, NEW b \in Buckets
  PROVE  /\ Ask(i, b) \in Question /\ Ask(i, b).bucket = b
         /\ Ask(i, b).clock = Ask(i, b).at /\ Ask(i, b).at = now
<1>1. offset[i] = 0 /\ now \in Nat
  BY DEF Right, TypeOK
<1> QED
  BY <1>1, AskType DEF Ask

\* A step of c that asks q, or answers what was asked, keeps the others as they are.
LEMMA RightStep ==
  ASSUME TypeOK, Right, NEW c \in Callers, UNCHANGED <<now, offset>>,
         NEW x, pc' = [pc EXCEPT ![c] = x],
         NEW q \in Question, q.clock = q.at, q.at <= now, asked' = [asked EXCEPT ![c] = q]
  PROVE  Right'
<1>1. \A d \in Callers \ {c} : pc'[d] = pc[d] /\ asked'[d] = asked[d]
  BY DEF TypeOK
<1>2. asked'[c] = q
  BY DEF TypeOK
<1> QED
  BY <1>1, <1>2 DEF Right

LEMMA NextRight ==
  ASSUME TypeOK, Right, Drifting = {}, [Next]_vars
  PROVE  Right'
<1>1. ASSUME NEW c \in Callers, ConsumeInMemory(c) PROVE Right'
  <2>1. PICK b \in Buckets :
          /\ Home[b] # None
          /\ asked' = [asked EXCEPT ![c] = Ask(Home[b], b)]
          /\ Answer(c, Ask(Home[b], b))
          /\ UNCHANGED <<now, offset>>
    BY <1>1 DEF ConsumeInMemory
  <2>2. Home[b] \in Instances
    BY <2>1
  <2>3. PICK q \in Question : q = Ask(Home[b], b) /\ q.clock = q.at /\ q.at = now
    BY <2>2, AskRight
  <2>4. \E x : pc' = [pc EXCEPT ![c] = x]
    BY <2>1 DEF Answer, Allow, Deny
  <2>5. q.at <= now
    BY <2>3 DEF TypeOK
  <2> QED
    BY <2>1, <2>3, <2>4, <2>5, RightStep
<1>2. ASSUME NEW c \in Callers, ConsumeRemotely(c) PROVE Right'
  <2>1. PICK i \in Instances, b \in Buckets : asked' = [asked EXCEPT ![c] = Ask(i, b)]
    BY <1>2 DEF ConsumeRemotely
  <2>2. PICK q \in Question : q = Ask(i, b) /\ q.clock = q.at /\ q.at = now
    BY AskRight
  <2>3. pc' = [pc EXCEPT ![c] = "asked"] /\ UNCHANGED <<now, offset>> /\ q.at <= now
    BY <1>2, <2>2 DEF ConsumeRemotely, TypeOK
  <2> QED
    BY <2>1, <2>2, <2>3, RightStep
<1>3. ASSUME NEW c \in Callers, RunScript(c) \/ ScriptFails(c) PROVE Right'
  <2>1. pc[c] = "asked" /\ UNCHANGED <<now, offset, asked>>
    BY <1>3 DEF RunScript, ScriptFails
  <2>2. PICK q \in Question : q = asked[c] /\ q.clock = q.at /\ q.at <= now
    BY <2>1 DEF Right
  <2>3. asked' = [asked EXCEPT ![c] = q]
    BY <2>1, <2>2 DEF TypeOK
  <2>4. \E x : pc' = [pc EXCEPT ![c] = x]
    BY <1>3 DEF RunScript, ScriptFails, Answer, Allow, Deny
  <2> QED
    BY <2>1, <2>2, <2>3, <2>4, RightStep
<1>4. CASE Tick
  <2>1. now \in Nat /\ now' = now + Ms /\ UNCHANGED <<offset, pc, asked>>
    BY <1>4 DEF Tick, TypeOK
  <2>2. \A n \in Nat : n <= now => n <= now'
    BY <2>1
  <2> QED
    BY <2>1, <2>2 DEF Right, Question
<1>5. ASSUME NEW b \in Buckets, Reset(b) \/ Evict(b) PROVE Right'
  BY <1>5 DEF Reset, Evict, Right
<1>6. CASE UNCHANGED vars
  BY <1>6 DEF vars, Right
<1>7. ASSUME NEW i \in Instances PROVE ~ SetClock(i)
  BY DEF SetClock
<1> QED
  BY <1>1, <1>2, <1>3, <1>4, <1>5, <1>6, <1>7 DEF Next

\* Who has been answered stays so.
Remembered ==
  \A d \in Callers : pc[d] \in Ran => pc'[d] \in Ran /\ asked'[d] = asked[d]

LEMMA NextRemembers ==
  ASSUME TypeOK, [Next]_vars
  PROVE  Remembered
<1>1. ASSUME NEW c \in Callers,
             ConsumeInMemory(c) \/ ConsumeRemotely(c) \/ RunScript(c) \/ ScriptFails(c)
      PROVE  Remembered
  <2>1. /\ pc[c] \notin Ran
        /\ \E x, q : /\ pc' = [pc EXCEPT ![c] = x]
                     /\ asked' \in {asked, [asked EXCEPT ![c] = q]}
    BY <1>1 DEF ConsumeInMemory, ConsumeRemotely, RunScript, ScriptFails, Answer, Allow, Deny, Ran
  <2> QED
    BY <2>1 DEF Remembered, TypeOK
<1>2. CASE UNCHANGED <<pc, asked>>
  BY <1>2 DEF Remembered
<1> QED
  BY <1>1, <1>2 DEF Next, Reset, Evict, Tick, SetClock, vars

\* A step that leaves a bucket alone keeps its account.
LEMMA OthersShared ==
  ASSUME TypeOK, NEW b \in Buckets, NEW delay \in Nat, SharedAccount(b, delay), Remembered,
         bucket'[b] = bucket[b], grants'[b] = grants[b], touched'[b] = touched[b],
         slack'[b] = slack[b], now' \in {now, now + Ms}
  PROVE  SharedAccount(b, delay)'
<1>1. CASE bucket[b] = Absent
  <2>1. now \in Nat /\ \A w \in Nat : w + delay >= now' => w + delay >= now
    BY DEF TypeOK
  <2> QED
    BY <1>1, <2>1 DEF SharedAccount
<1>2. CASE bucket[b] # Absent
  <2>1. \E d \in Callers :
          pc'[d] \in Ran /\ asked'[d].bucket = b /\ asked'[d].at = bucket[b].lastRefill
    BY <1>2 DEF SharedAccount, Remembered
  <2> QED
    BY <1>2, <2>1 DEF SharedAccount
<1> QED
  BY <1>1, <1>2

\* A write changes no bucket but its own.
LEMMA WritesOne ==
  ASSUME TypeOK, NEW b \in Buckets, NEW a, a # b, NEW n, NEW clock, Write(a, n, clock)
  PROVE  /\ bucket'[b] = bucket[b] /\ touched'[b] = touched[b] /\ slack'[b] = slack[b]
BY DEF Write, TypeOK

\* A script that runs in its order finds what the account allows.
LEMMA RefillFits ==
  ASSUME TypeOK, NEW b \in Buckets, NEW delay \in Nat, SharedAccount(b, delay),
         NEW q \in Question, q.bucket = b, q.clock = q.at, now <= q.at + delay,
         \A d \in Callers : pc[d] \in Ran /\ asked[d].bucket = b => asked[d].at <= q.at,
         NEW l \in Refilled(b, q.at)
  PROVE  Fits(grants[b], l, q.at + slack[b] + Slip, Capacity[b])
<1>1. q.at \in Nat
  BY DEF Question
<1>2. CASE bucket[b] = Absent
  <2>1. PICK g \in Seq(Nat), cap \in Nat, k \in Nat :
          g = grants[b] /\ cap = Capacity[b] /\ k = slack[b]
    BY DEF TypeOK
  <2>2. l = cap
    BY <1>1, <1>2, <2>1, RefilledType
  <2>3. q.at + delay >= now
    BY <1>1 DEF TypeOK
  <2>4. PICK u \in Nat, v \in Nat : u = q.at + k /\ v = q.at + k + Slip
    BY <1>1, <2>1
  <2>5. Fits(g, cap, u, cap)
    BY <1>1, <1>2, <2>1, <2>3, <2>4 DEF SharedAccount
  <2>6. u <= v /\ cap <= cap + (v - u)
    <3>1. v = u + Slip /\ Slip \in Nat
      BY <1>1, <2>1, <2>4
    <3>2. \A i, j, m, c \in Nat : i = j + m => j <= i /\ c <= c + (i - j)
      OBVIOUS
    <3> QED
      BY <2>1, <2>4, <3>1, <3>2, Zenon
  <2>7. Fits(g, cap, v, cap)
    BY <2>5, <2>6, WaitFits
  <2> QED
    BY <2>1, <2>2, <2>4, <2>7
<1>3. CASE bucket[b] # Absent
  <2>1. bucket[b].lastRefill <= q.at
    BY <1>3 DEF SharedAccount
  <2> QED
    BY <1>1, <1>3, <2>1, RefilledFits DEF SharedAccount
<1> QED
  BY <1>2, <1>3

\* A script that runs in its order keeps the account, allowed or denied.
LEMMA RunShared ==
  ASSUME TypeOK, NEW b \in Buckets, NEW delay \in Nat, SharedAccount(b, delay),
         NEW c \in Callers, RunScript(c), asked[c] \in Question,
         asked[c].bucket = b, asked[c].clock = asked[c].at, asked[c].at <= now,
         \A l \in Refilled(b, asked[c].at) :
           Fits(grants[b], l, asked[c].at + slack[b] + Slip, Capacity[b])
  PROVE  SharedAccount(b, delay)'
<1>1. PICK q \in Question : q = asked[c]
  OBVIOUS
<1>2. PICK l \in Refilled(b, q.at) : Allow(c, q, l) \/ Deny(c, q, l)
  BY <1>1 DEF RunScript, Answer
<1>3. asked' = asked /\ pc'[c] \in Ran
  BY <1>1, <1>2 DEF RunScript, Allow, Deny, TypeOK, Ran
<1>4. Fits(grants[b], l, q.at + slack[b] + Slip, Capacity[b]) /\ Paired(grants[b], Capacity[b])
  BY <1>1, <1>2 DEF SharedAccount
<1>5. /\ bucket'[b] # Absent /\ bucket'[b].lastRefill = q.at /\ touched'[b] = now
      /\ Paired(grants'[b], Capacity[b])
      /\ Fits(grants'[b], bucket'[b].tokens, q.at + slack'[b], Capacity[b])
  BY <1>1, <1>2, <1>4, AnswerFits
<1> QED
  BY <1>1, <1>3, <1>5 DEF SharedAccount

\* So does one that runs and is not heard of: the token it took was given to nobody.
LEMMA FailShared ==
  ASSUME TypeOK, NEW b \in Buckets, NEW delay \in Nat, SharedAccount(b, delay),
         NEW c \in Callers, ScriptFails(c), ~ UNCHANGED <<bucket, touched, slack>>,
         asked[c] \in Question,
         asked[c].bucket = b, asked[c].clock = asked[c].at, asked[c].at <= now,
         \A l \in Refilled(b, asked[c].at) :
           Fits(grants[b], l, asked[c].at + slack[b] + Slip, Capacity[b])
  PROVE  SharedAccount(b, delay)'
<1>1. PICK q \in Question : q = asked[c]
  OBVIOUS
<1>2. q.at \in Nat
  BY DEF Question
<1>3. PICK g \in Seq(Nat), cap \in Nat, k \in Nat :
        g = grants[b] /\ cap = Capacity[b] /\ k = slack[b]
  BY DEF TypeOK
<1>4. PICK l \in Refilled(b, q.at) : Write(b, IF l >= Cost THEN l - Cost ELSE l, q.at)
  BY <1>1 DEF ScriptFails
<1>5. l \in Nat /\ l <= cap
  BY <1>2, <1>3, RefilledType
<1>6. PICK w \in Nat : w = q.at + k + Slip
  BY <1>2, <1>3
<1>7. PICK n \in Nat : n = IF l >= Cost THEN l - Cost ELSE l
  BY <1>5
<1>8. n <= cap /\ n <= l + (w - w)
  BY <1>3, <1>5, <1>7
<1>9. Fits(g, l, w, cap)
  BY <1>1, <1>3, <1>6
<1>10. Fits(g, n, w, cap)
  BY <1>5, <1>8, <1>9, WaitFits
<1>11. /\ bucket'[b] # Absent /\ bucket'[b].lastRefill = q.at /\ touched'[b] = now
       /\ Fits(g, bucket'[b].tokens, q.at + slack'[b], Capacity[b])
  <2>1. n <= Capacity[b] /\ Write(b, n, q.at)
    BY <1>3, <1>4, <1>7, <1>8
  <2>2. Fits(g, n, q.at + slack[b] + Slip, Capacity[b])
    BY <1>3, <1>6, <1>10
  <2> QED
    BY <1>2, <2>1, <2>2, WriteFits
<1>12. grants' = grants /\ asked' = asked /\ pc'[c] \in Ran
  BY DEF ScriptFails, TypeOK, Ran
<1> QED
  BY <1>1, <1>3, <1>11, <1>12 DEF SharedAccount

\* An evicted bucket would have been full again by the clock of any script still to run.
LEMMA EvictShared ==
  ASSUME TypeOK, NEW b \in Buckets, NEW delay \in Nat, SharedAccount(b, delay),
         Ttl >= Capacity[b] + delay, Evict(b)
  PROVE  SharedAccount(b, delay)'
<1>1. /\ bucket[b] # Absent /\ now >= touched[b] + Ttl
      /\ bucket'[b] = Absent /\ UNCHANGED <<now, grants, slack>>
  BY DEF Evict, TypeOK
<1>2. PICK s \in BucketState : bucket[b] = s
  BY <1>1 DEF TypeOK
<1>3. PICK t \in Nat, r \in Nat : s.tokens = t /\ s.lastRefill = r
  BY DEF BucketState
<1>4. PICK g \in Seq(Nat), cap \in Nat, k \in Nat :
        g = grants[b] /\ cap = Capacity[b] /\ k = slack[b]
  BY DEF TypeOK
<1>5. Fits(g, t, r + k, cap) /\ Paired(g, cap)
  BY <1>1, <1>2, <1>3, <1>4 DEF SharedAccount
<1>6. r <= touched[b] /\ touched[b] \in Nat /\ now \in Nat
  BY <1>1, <1>2, <1>3 DEF SharedAccount, TypeOK
<1>7. ASSUME NEW w \in Nat, w + delay >= now PROVE Fits(g, cap, w + k, cap)
  <2>1. r <= w /\ cap <= t + (w - r)
    BY <1>1, <1>4, <1>6, <1>7
  <2>2. r + k \in Nat /\ w + k \in Nat /\ r + k <= w + k /\ cap <= t + ((w + k) - (r + k))
    BY <2>1
  <2> QED
    BY <1>5, <2>2, WaitFits
<1> QED
  BY <1>1, <1>4, <1>5, <1>7 DEF SharedAccount

LEMMA ResetShared ==
  ASSUME TypeOK, NEW b \in Buckets, NEW delay \in Nat, Reset(b)
  PROVE  SharedAccount(b, delay)'
<1>1. bucket'[b] = Absent /\ grants'[b] = <<>>
  BY DEF Reset, TypeOK
<1> QED
  BY <1>1, NothingFits DEF SharedAccount

\* Every step that answers no script out of order keeps the accounts.
LEMMA NextShared ==
  ASSUME TypeOK, TypeOK', Right, [Next]_vars, NEW delay \in Nat,
         UNCHANGED vars \/ Orderly(delay),
         NEW b \in Buckets, SharedAccount(b, delay), Home[b] = None,
         Ttl >= Capacity[b] + delay
  PROVE  SharedAccount(b, delay)'
<1>0. Remembered
  BY NextRemembers
<1>1. ASSUME NEW c \in Callers, ConsumeInMemory(c) PROVE SharedAccount(b, delay)'
  <2>1. PICK a \in Buckets :
          /\ Home[a] # None
          /\ UNCHANGED <<now, offset>>
          /\ Answer(c, Ask(Home[a], a))
    BY <1>1 DEF ConsumeInMemory
  <2>2. a # b /\ Ask(Home[a], a).bucket = a
    BY <2>1 DEF Ask
  <2>3. /\ bucket'[b] = bucket[b] /\ grants'[b] = grants[b] /\ touched'[b] = touched[b]
        /\ slack'[b] = slack[b]
    BY <2>1, <2>2 DEF Answer, Allow, Deny, Write, TypeOK
  <2> QED
    BY <1>0, <2>1, <2>3, OthersShared
<1>2. ASSUME NEW c \in Callers, RunScript(c) \/ ScriptFails(c) PROVE SharedAccount(b, delay)'
  <2>1. pc[c] = "asked" /\ pc'[c] # "asked" /\ UNCHANGED now
    BY <1>2 DEF RunScript, ScriptFails, Answer, Allow, Deny, TypeOK
  <2>2. Orderly(delay)
    BY <2>1 DEF vars
  <2>3. PICK q \in Question : q = asked[c] /\ q.clock = q.at /\ q.at <= now
    BY <2>1 DEF Right
  <2>4. now <= q.at + delay
    BY <2>1, <2>2, <2>3 DEF Orderly
  <2>5. CASE q.bucket = b
    <3>1. \A d \in Callers : pc[d] \in Ran /\ asked[d].bucket = b => asked[d].at <= q.at
      BY <2>1, <2>2, <2>3, <2>5 DEF Orderly
    <3>2. \A l \in Refilled(b, q.at) : Fits(grants[b], l, q.at + slack[b] + Slip, Capacity[b])
      BY <2>3, <2>4, <2>5, <3>1, RefillFits
    <3>3. CASE RunScript(c)
      BY <2>3, <2>5, <3>2, <3>3, RunShared
    <3>4. CASE ScriptFails(c) /\ ~ UNCHANGED <<bucket, touched, slack>>
      BY <2>3, <2>5, <3>2, <3>4, FailShared
    <3>5. CASE ScriptFails(c) /\ UNCHANGED <<bucket, touched, slack>>
      <4>1. UNCHANGED <<grants, now>>
        BY <3>5 DEF ScriptFails
      <4> QED
        BY <1>0, <3>5, <4>1, OthersShared
    <3> QED
      BY <1>2, <3>3, <3>4, <3>5
  <2>6. CASE q.bucket # b
    <3>1. /\ bucket'[b] = bucket[b] /\ grants'[b] = grants[b] /\ touched'[b] = touched[b]
          /\ slack'[b] = slack[b]
      <4>1. CASE RunScript(c)
        <5>1. PICK n \in Refilled(q.bucket, q.clock) : Allow(c, q, n) \/ Deny(c, q, n)
          BY <2>3, <4>1 DEF RunScript, Answer
        <5>2. \E x, m : Write(q.bucket, x, m)
          BY <5>1 DEF Allow, Deny
        <5>3. grants'[b] = grants[b]
          BY <2>6, <5>1 DEF Allow, Deny, TypeOK
        <5> QED
          BY <2>6, <5>2, <5>3, WritesOne
      <4>2. CASE ScriptFails(c)
        <5>1. UNCHANGED grants /\ (UNCHANGED <<bucket, touched, slack>>
                                   \/ \E x, m : Write(q.bucket, x, m))
          BY <2>3, <4>2 DEF ScriptFails
        <5> QED
          BY <2>6, <5>1, WritesOne
      <4> QED
        BY <1>2, <4>1, <4>2
    <3> QED
      BY <1>0, <2>1, <3>1, OthersShared
  <2> QED
    BY <2>5, <2>6
<1>3. ASSUME NEW a \in Buckets, Reset(a) \/ Evict(a) PROVE SharedAccount(b, delay)'
  <2>1. CASE a = b
    BY <1>3, <2>1, ResetShared, EvictShared
  <2>2. CASE a # b
    <3>1. /\ bucket'[b] = bucket[b] /\ grants'[b] = grants[b] /\ touched'[b] = touched[b]
          /\ slack'[b] = slack[b] /\ UNCHANGED now
      BY <1>3, <2>2 DEF Reset, Evict, TypeOK
    <3> QED
      BY <1>0, <3>1, OthersShared
  <2> QED
    BY <2>1, <2>2
<1>4. ASSUME \/ \E c \in Callers : ConsumeRemotely(c)
             \/ Tick
             \/ \E i \in Instances : SetClock(i)
             \/ UNCHANGED vars
      PROVE  SharedAccount(b, delay)'
  <2>1. UNCHANGED <<bucket, grants, touched, slack>> /\ now' \in {now, now + Ms}
    BY <1>4 DEF ConsumeRemotely, Tick, SetClock, vars
  <2> QED
    BY <1>0, <2>1, OthersShared
<1> QED
  BY <1>1, <1>2, <1>3, <1>4 DEF Next

\* A bucket on Upstash, which all gateways share, bounds burst and rate too, up to what
\* rounding adds, however calls interleave and scripts fail or go unheard, if the clocks of the gateways agree,
\* no script is answered after one that was sent later for its bucket or later than
\* delay, and a bucket lives for as long as it takes to fill and delay.  Without the
\* order of the scripts this is false: TLC finds a counterexample.
THEOREM SharedLimiterThrottles ==
  ASSUME NEW delay \in Nat, Drifting = {}, \A b \in Buckets : Ttl >= Capacity[b] + delay
  PROVE  OrderlySpec(delay) => []SharedRateBound
<1> DEFINE Inv == /\ TypeOK /\ Right
                  /\ \A b \in Buckets : Home[b] = None => SharedAccount(b, delay)
<1>1. Init => Inv
  BY InitTypes, InitShared
<1>2. Inv /\ [Next /\ Orderly(delay)]_vars => Inv'
  <2> SUFFICES ASSUME Inv, [Next /\ Orderly(delay)]_vars PROVE Inv'
    OBVIOUS
  <2>1. [Next]_vars /\ (UNCHANGED vars \/ Orderly(delay))
    OBVIOUS
  <2>2. TypeOK' /\ Right'
    BY <2>1, NextTypes, NextRight
  <2>3. ASSUME NEW b \in Buckets, Home[b] = None PROVE SharedAccount(b, delay)'
    BY <2>1, <2>2, <2>3, NextShared
  <2> QED
    BY <2>2, <2>3
<1>3. Inv => SharedRateBound
  <2> SUFFICES ASSUME Inv, NEW b \in Buckets, Home[b] = None PROVE Throttled(b)
    BY DEF SharedRateBound
  <2> QED
    BY PairedThrottles DEF TypeOK, SharedAccount
<1> HIDE DEF Inv
<1>4. QED
  BY <1>1, <1>2, <1>3, PTL DEF OrderlySpec
=============================================================================
