----------------------------- MODULE AccessKeys -----------------------------
(***************************************************************************)
(* The life of access keys: PaidMcpServer.runAccessKey, listAccessKeys and *)
(* revokeAccessKey of src/server.ts, redeem and issueRecord of             *)
(* src/access-keys.ts, over the four kinds of store of src/stores.         *)
(*                                                                         *)
(* A call is one execution of the handler runAccessKey, from the arrival   *)
(* of the request to the answer.  It presents a key or none, and a payment *)
(* credential or none.  The token of a key is named by the call that       *)
(* minted it: tokens are 32 random bytes and never collide.                *)
(*                                                                         *)
(* Every await of the code is a point where another call, an operator, the *)
(* backend's TTL or a crash may intervene, so every await is a boundary    *)
(* between two actions.                                                    *)
(***************************************************************************)
EXTENDS Integers, FiniteSets

CONSTANTS
  Calls,        \* tool calls, each made once; also the names of the tokens
  Revokers,     \* calls of revokeAccessKey, each made once
  Instances,    \* gateway processes that share the store
  Tools,        \* tools with access-key pricing
  Wallets,      \* addresses of the clients
  Credentials,  \* what a request may carry: see PaymentAssumption
  None,         \* no key, no record, no bound
  MaxCalls,     \* [Tools -> cap of calls per key, None for no cap]
  Timed,        \* the tools whose keys have a validFor
  Binding,      \* [Instances -> accessKeyBinding]
  StoreKind,    \* "memory", "upstash", "bridge" or "kv"
  MaxAttempts,  \* attempts of an Upstash update before it gives up
  Faults,       \* may the store's backend answer with an error
  Ttl,          \* does the backend sweep records
  Mortal        \* instances that may crash and restart

\* What validateAccessKeyPricing accepts: a positive cap, a duration, or both.
ASSUME PricingAssumption ==
  /\ None \notin Nat \cup Calls \cup Wallets
  /\ MaxCalls \in [Tools -> (Nat \ {0}) \cup {None}]
  /\ Timed \subseteq Tools
  /\ \A t \in Tools : MaxCalls[t] = None => t \in Timed

\* "none": the first call of a client, not paid; "opaque": paid, but the
\* payer's address cannot be read from the credential.
ASSUME PaymentAssumption == Credentials \subseteq {"none", "signed", "opaque"}

ASSUME CallsAssumption == IsFiniteSet(Calls)

\* A memory store lives in the one process that uses it and never fails.
ASSUME StoreAssumption ==
  /\ Binding \in [Instances -> {"none", "wallet"}]
  /\ StoreKind \in {"memory", "upstash", "bridge", "kv"}
  /\ MaxAttempts \in Nat \ {0}
  /\ Faults \in BOOLEAN
  /\ Ttl \in BOOLEAN
  /\ Mortal \subseteq Instances
  /\ StoreKind = "memory" =>
       /\ ~Faults /\ ~Ttl
       /\ \A i, j \in Instances : i = j

VARIABLES
  store,     \* [Calls -> the record under this token, or None]
  past,      \* [Calls -> the versions of it that a Cloudflare KV may serve]
  issued,    \* [Instances -> tokens in issuedKeyTokens]
  pruning,   \* [Instances -> tokens listAccessKeys found absent]
  expired,   \* tokens whose expiresAt is past
  pc,        \* [Calls -> where the call is]
  req,       \* [Calls -> the request]
  seen,      \* [Calls -> the record the redemption's transform last read]
  outcome,   \* [Calls -> what the transform last decided]
  tries,     \* [Calls -> compare-and-set attempts that met a conflict]
  settled,   \* calls whose charge settled
  admin,     \* [Revokers -> where the revocation is, and its token]
  stats,     \* [Instances -> the counters of GatewayStats]
  events     \* [EventTypes -> webhook events emitted]

vars == <<store, past, issued, pruning, expired, pc, req, seen, outcome, tries,
          settled, admin, stats, events>>

-----------------------------------------------------------------------------

Reasons == {"unknown", "wrong-tool", "wrong-client", "unbound-key",
            "expired", "exhausted"}

Request == [inst : Instances, tool : Tools, wallet : Wallets,
            key : Calls \cup {None}, cred : Credentials]

Record == [tool : Tools, left : Nat \cup {None}, boundTo : Wallets \cup {None}]

\* An absent record is not a record.
ASSUME AbsenceAssumption == None \notin Record

Revocation == [pc : {"idle", "found", "revoked", "absent", "failed"},
               inst : Instances \cup {None}, key : Calls \cup {None}]

EventTypes == {"access-key.issued", "access-key.expired",
               "payment.received", "call.failed"}

Counters == {"totalCalls", "paidCalls", "accessKeyCalls",
             "accessKeysIssued", "accessKeysExpired"}

\* The calls in the middle of a redemption, with the outcome not yet returned.
Redeeming == {"redeem", "swap"}

Running == Redeeming \cup {"serve", "charge", "work", "put", "put2"}

Ended == {"done", "failed", "paywall", "lost"}

TypesButPast ==
  /\ store \in [Calls -> Record \cup {None}]
  /\ issued \in [Instances -> SUBSET Calls]
  /\ pruning \in [Instances -> SUBSET Calls]
  /\ expired \subseteq Calls
  /\ pc \in [Calls -> {"idle"} \cup Running \cup Ended]
  /\ req \in [Calls -> Request \cup {None}]
  /\ seen \in [Calls -> Record \cup {None}]
  /\ outcome \in [Calls -> Reasons \cup {"none", "ok", "error"}]
  /\ tries \in [Calls -> Nat]
  /\ settled \subseteq Calls
  /\ admin \in [Revokers -> Revocation]
  /\ stats \in [Instances -> [Counters -> Nat]]
  /\ events \in [EventTypes -> Nat]

TypeOK == TypesButPast /\ past \in [Calls -> SUBSET (Record \cup {None})]

NoCounts == [n \in Counters |-> 0]

Init ==
  /\ store = [k \in Calls |-> None]
  /\ past = [k \in Calls |-> {None}]
  /\ issued = [i \in Instances |-> {}]
  /\ pruning = [i \in Instances |-> {}]
  /\ expired = {}
  /\ pc = [c \in Calls |-> "idle"]
  /\ req = [c \in Calls |-> None]
  /\ seen = [c \in Calls |-> None]
  /\ outcome = [c \in Calls |-> "none"]
  /\ tries = [c \in Calls |-> 0]
  /\ settled = {}
  /\ admin = [r \in Revokers |-> [pc |-> "idle", inst |-> None, key |-> None]]
  /\ stats = [i \in Instances |-> NoCounts]
  /\ events = [e \in EventTypes |-> 0]

-----------------------------------------------------------------------------
(* Helpers.                                                                *)

Goto(c, l) == pc' = [pc EXCEPT ![c] = l]

Count(i, names) ==
  stats' = [stats EXCEPT ![i] =
              [n \in Counters |-> IF n \in names THEN @[n] + 1 ELSE @[n]]]

Emit(types) ==
  events' = [e \in EventTypes |->
               IF e \in types THEN events[e] + 1 ELSE events[e]]

\* runWrappedHandler's catch: the error is emitted and rethrown.
Fail(c) == Goto(c, "failed") /\ Emit({"call.failed"})

\* The answer that carries the token has been returned to the payer.
Delivered(k) == k \in settled /\ pc[k] = "done"

\* resolveKeyBinding before the charge: a wallet-bound key needs a readable payer.
Unattributable(r) == Binding[r.inst] = "wallet" /\ r.cred = "opaque"

\* Variant: the payer is only looked for once the charge has settled.
PayEntryUnchecked(r) == "charge"

PayEntry(r) == IF Unattributable(r) THEN "failed" ELSE "charge"

\* issueRecord for the call c.
FreshRecord(c) ==
  [tool |-> req[c].tool,
   left |-> MaxCalls[req[c].tool],
   boundTo |-> IF Binding[req[c].inst] = "wallet" THEN req[c].wallet ELSE None]

\* Variant: the paying call and the redemption both take a call.
DecrementTwice(rec) ==
  IF rec.left = None THEN rec ELSE [rec EXCEPT !.left = @ - 2]

\* One call fewer, where calls are counted.
Decrement(rec) == IF rec.left = None THEN rec ELSE [rec EXCEPT !.left = @ - 1]

\* Variant: a key is honoured whoever presents it.
VerdictUnbound(rec, r) ==
  IF rec = None THEN "unknown"
  ELSE IF rec.tool # r.tool THEN "wrong-tool"
  ELSE IF r.key \in expired THEN "expired"
  ELSE IF rec.left = 0 THEN "exhausted"
  ELSE "ok"

\* What redeem's transform decides of the record rec stored under r.key: its
\* early returns, in their order.
Verdict(rec, r) ==
  LET strict == Binding[r.inst] = "wallet"
  IN  IF rec = None THEN "unknown"
      ELSE IF rec.tool # r.tool THEN "wrong-tool"
      ELSE IF rec.boundTo = None /\ strict THEN "unbound-key"
      ELSE IF rec.boundTo # None /\ ~(strict /\ r.wallet = rec.boundTo)
           THEN "wrong-client"
      ELSE IF r.key \in expired THEN "expired"
      ELSE IF rec.left = 0 THEN "exhausted"
      ELSE "ok"

\* The record the transform leaves in the store.
Transformed(rec, o) == IF o = "ok" THEN Decrement(rec) ELSE rec

\* What get may answer for token k: a Cloudflare KV serves any version it had.
Readable(k) == IF StoreKind = "kv" THEN past[k] ELSE {store[k]}

\* redeem has returned o: serve the call, or count the rejection and fall
\* through to the pay flow.
Redeemed(c, o) ==
  /\ outcome' = [outcome EXCEPT ![c] = o]
  /\ Goto(c, IF o = "ok" THEN "serve" ELSE PayEntry(req[c]))
  /\ IF o \in {"expired", "exhausted"}
       THEN Count(req[c].inst, {"accessKeysExpired"})
       ELSE UNCHANGED stats
  /\ Emit((IF o \in {"expired", "exhausted"} THEN {"access-key.expired"} ELSE {})
          \cup (IF o # "ok" /\ Unattributable(req[c]) THEN {"call.failed"} ELSE {}))

\* redeem has thrown a StoreError.
RedeemThrows(c) ==
  /\ outcome' = [outcome EXCEPT ![c] = "error"]
  /\ Fail(c)
  /\ UNCHANGED stats

-----------------------------------------------------------------------------
(* A call.                                                                 *)

\* The request arrives; a key, if any, is one that some client was given.
Arrive(c) ==
  /\ pc[c] = "idle"
  /\ \E r \in Request :
       /\ r.key = None \/ Delivered(r.key)
       /\ req' = [req EXCEPT ![c] = r]
       /\ IF r.key # None
            THEN Goto(c, "redeem") /\ UNCHANGED events
            ELSE /\ Goto(c, PayEntry(r))
                 /\ Emit(IF Unattributable(r) THEN {"call.failed"} ELSE {})
  /\ UNCHANGED <<store, issued, pruning, expired, seen, outcome, tries,
                 settled, admin, stats>>

\* stores/memory.ts: the transform runs once, in one step with its write.
RedeemInMemory(c) ==
  /\ StoreKind = "memory"
  /\ pc[c] = "redeem"
  /\ LET k == req[c].key
         o == Verdict(store[k], req[c])
     IN  /\ seen' = [seen EXCEPT ![c] = store[k]]
         /\ store' = [store EXCEPT ![k] = Transformed(store[k], o)]
         /\ Redeemed(c, o)
  /\ UNCHANGED <<issued, pruning, expired, req, tries, settled, admin>>

\* The other stores: read, and run the transform.
RedeemRead(c) ==
  /\ StoreKind # "memory"
  /\ pc[c] = "redeem"
  /\ \E rec \in Readable(req[c].key) :
       /\ seen' = [seen EXCEPT ![c] = rec]
       /\ outcome' = [outcome EXCEPT ![c] = Verdict(rec, req[c])]
  /\ Goto(c, "swap")
  /\ UNCHANGED <<store, issued, pruning, expired, req, tries, settled, admin,
                 stats, events>>

\* Variant: the script writes without comparing.
RedeemSwapBlind(c) ==
  /\ StoreKind = "upstash"
  /\ pc[c] = "swap"
  /\ store' = [store EXCEPT ![req[c].key] = Transformed(seen[c], outcome[c])]
  /\ Redeemed(c, outcome[c])
  /\ UNCHANGED <<issued, pruning, expired, req, seen, tries, settled, admin>>

\* stores/upstash.ts: the script writes only over the value that was read.
RedeemSwap(c) ==
  /\ StoreKind = "upstash"
  /\ pc[c] = "swap"
  /\ store[req[c].key] = seen[c]
  /\ store' = [store EXCEPT ![req[c].key] = Transformed(seen[c], outcome[c])]
  /\ Redeemed(c, outcome[c])
  /\ UNCHANGED <<issued, pruning, expired, req, seen, tries, settled, admin>>

\* A conflict: read again, unless this was the last attempt (cas-exhausted).
RedeemConflict(c) ==
  /\ StoreKind = "upstash"
  /\ pc[c] = "swap"
  /\ store[req[c].key] # seen[c]
  /\ tries' = [tries EXCEPT ![c] = @ + 1]
  /\ IF tries[c] + 1 < MaxAttempts
       THEN Goto(c, "redeem") /\ UNCHANGED <<outcome, stats, events>>
       ELSE RedeemThrows(c)
  /\ UNCHANGED <<store, issued, pruning, expired, req, seen, settled, admin>>

\* What the write of an update leaves of the store: stores/cloudflare-kv.ts
\* writes nothing where it has read nothing.
Overwritten(c) ==
  IF StoreKind = "kv" /\ seen[c] = None THEN store
  ELSE [store EXCEPT ![req[c].key] = Transformed(seen[c], outcome[c])]

\* stores/bridge.ts and stores/cloudflare-kv.ts: the write, whatever the store
\* holds by now.
RedeemWrite(c) ==
  /\ StoreKind \in {"bridge", "kv"}
  /\ pc[c] = "swap"
  /\ store' = Overwritten(c)
  /\ Redeemed(c, outcome[c])
  /\ UNCHANGED <<issued, pruning, expired, req, seen, tries, settled, admin>>

\* The backend answers with an error, before the write or after it.
RedeemFault(c) ==
  /\ Faults
  /\ pc[c] \in Redeeming
  /\ \/ UNCHANGED store
     \/ /\ pc[c] = "swap"
        /\ StoreKind \in {"bridge", "kv"} \/ store[req[c].key] = seen[c]
        /\ store' = Overwritten(c)
  /\ RedeemThrows(c)
  /\ UNCHANGED <<issued, pruning, expired, req, seen, tries, settled, admin>>

\* The handler of the tool returns, or throws, for a call served by its key.
ServeReturns(c) ==
  /\ pc[c] = "serve"
  /\ Goto(c, "done")
  /\ Count(req[c].inst, {"totalCalls", "accessKeyCalls"})
  /\ UNCHANGED <<store, issued, pruning, expired, req, seen, outcome, tries,
                 settled, admin, events>>

\* Variant: a failed call is given back by restoring the record it read.
ServeThrowsRefund(c) ==
  /\ pc[c] = "serve"
  /\ Fail(c)
  /\ store' = [store EXCEPT ![req[c].key] = seen[c]]
  /\ UNCHANGED <<issued, pruning, expired, req, seen, outcome, tries,
                 settled, admin, stats>>

ServeThrows(c) ==
  /\ pc[c] = "serve"
  /\ Fail(c)
  /\ UNCHANGED <<store, issued, pruning, expired, req, seen, outcome, tries,
                 settled, admin, stats>>

\* mppx's charge answers 402: no credential, or one it does not accept.
ChargeRefused(c) ==
  /\ pc[c] = "charge"
  /\ Goto(c, "paywall")
  /\ UNCHANGED <<store, issued, pruning, expired, req, seen, outcome, tries,
                 settled, admin, stats, events>>

ChargeThrows(c) ==
  /\ pc[c] = "charge"
  /\ Fail(c)
  /\ UNCHANGED <<store, issued, pruning, expired, req, seen, outcome, tries,
                 settled, admin, stats>>

\* The payment settles, resolveKeyBinding is asked again, the record is minted
\* and the handler starts, with no await in between.
ChargeSettles(c) ==
  /\ pc[c] = "charge"
  /\ req[c].cred # "none"
  /\ settled' = settled \cup {c}
  /\ IF Unattributable(req[c])
       THEN Fail(c)
       ELSE Goto(c, "work") /\ UNCHANGED events
  /\ UNCHANGED <<store, issued, pruning, expired, req, seen, outcome, tries,
                 admin, stats>>

WorkReturns(c) ==
  /\ pc[c] = "work"
  /\ Goto(c, "put")
  /\ UNCHANGED <<store, issued, pruning, expired, req, seen, outcome, tries,
                 settled, admin, stats, events>>

WorkThrows(c) ==
  /\ pc[c] = "work"
  /\ Fail(c)
  /\ UNCHANGED <<store, issued, pruning, expired, req, seen, outcome, tries,
                 settled, admin, stats>>

\* recordPaidCall, the two events and the answer.
FinishPaid(c, counters) ==
  /\ Goto(c, "done")
  /\ Count(req[c].inst, counters \cup {"totalCalls", "paidCalls"})
  /\ Emit({"access-key.issued", "payment.received"})

\* storeRecord(record), then the index and the counter.  A capped record is
\* put again, one call fewer; a memory store takes that second put within the
\* same step, a remote one when its answer comes.
PutRecord(c) ==
  /\ pc[c] = "put"
  /\ issued' = [issued EXCEPT ![req[c].inst] = @ \cup {c}]
  /\ IF FreshRecord(c).left = None \/ StoreKind = "memory"
       THEN /\ store' = [store EXCEPT ![c] = Decrement(FreshRecord(c))]
            /\ FinishPaid(c, {"accessKeysIssued"})
       ELSE /\ store' = [store EXCEPT ![c] = FreshRecord(c)]
            /\ Goto(c, "put2")
            /\ Count(req[c].inst, {"accessKeysIssued"})
            /\ UNCHANGED events
  /\ UNCHANGED <<pruning, expired, req, seen, outcome, tries, settled, admin>>

\* storeRecord(decremented).
PutDecremented(c) ==
  /\ pc[c] = "put2"
  /\ store' = [store EXCEPT ![c] = Decrement(FreshRecord(c))]
  /\ FinishPaid(c, {})
  /\ UNCHANGED <<issued, pruning, expired, req, seen, outcome, tries, settled,
                 admin>>

\* Either put answers with an error, before the write or after it.
PutFault(c) ==
  /\ Faults
  /\ pc[c] \in {"put", "put2"}
  /\ \/ UNCHANGED store
     \/ /\ pc[c] = "put"
        /\ store' = [store EXCEPT ![c] = FreshRecord(c)]
     \/ /\ pc[c] = "put2"
        /\ store' = [store EXCEPT ![c] = Decrement(FreshRecord(c))]
  /\ Fail(c)
  /\ UNCHANGED <<issued, pruning, expired, req, seen, outcome, tries, settled,
                 admin, stats>>

-----------------------------------------------------------------------------
(* The operator, the clock, the backend and the process.                   *)

\* revokeAccessKey: look the token up and drop it from the index.  Operators
\* see the tokens listAccessKeys shows and those a client hands them.
RevokeLookup(r) ==
  /\ admin[r].pc = "idle"
  /\ \E i \in Instances, k \in Calls :
       /\ Delivered(k) \/ \E j \in Instances : k \in issued[j]
       /\ issued' = [issued EXCEPT ![i] = @ \ {k}]
       /\ \E rec \in Readable(k) :
            admin' = [admin EXCEPT ![r] =
                        [pc |-> IF rec = None THEN "absent" ELSE "found",
                         inst |-> i, key |-> k]]
  /\ UNCHANGED <<store, pruning, expired, pc, req, seen, outcome, tries,
                 settled, stats, events>>

\* Variant: the token is dropped from the index only.
RevokeDeleteIndexOnly(r) ==
  /\ admin[r].pc = "found"
  /\ admin' = [admin EXCEPT ![r].pc = "revoked"]
  /\ Emit({"access-key.expired"})
  /\ UNCHANGED <<store, issued, pruning, expired, pc, req, seen, outcome,
                 tries, settled, stats>>

\* The store's delete, the event and the answer.
RevokeDelete(r) ==
  /\ admin[r].pc = "found"
  /\ store' = [store EXCEPT ![admin[r].key] = None]
  /\ admin' = [admin EXCEPT ![r].pc = "revoked"]
  /\ Emit({"access-key.expired"})
  /\ UNCHANGED <<issued, pruning, expired, pc, req, seen, outcome, tries,
                 settled, stats>>

\* Its delete fails, before the removal or after it, and nothing is undone.
RevokeFault(r) ==
  /\ Faults
  /\ admin[r].pc = "found"
  /\ \/ UNCHANGED store
     \/ store' = [store EXCEPT ![admin[r].key] = None]
  /\ admin' = [admin EXCEPT ![r].pc = "failed"]
  /\ UNCHANGED <<issued, pruning, expired, pc, req, seen, outcome, tries,
                 settled, stats, events>>

\* Variant: every token that was read is dropped.
ListLookupAny(i, k) ==
  /\ k \in issued[i] \ pruning[i]
  /\ pruning' = [pruning EXCEPT ![i] = @ \cup {k}]
  /\ UNCHANGED <<store, issued, expired, pc, req, seen, outcome, tries,
                 settled, admin, stats, events>>

\* listAccessKeys reads a token of the index as absent, and later drops it.
ListLookup(i, k) ==
  /\ k \in issued[i] \ pruning[i]
  /\ None \in Readable(k)
  /\ pruning' = [pruning EXCEPT ![i] = @ \cup {k}]
  /\ UNCHANGED <<store, issued, expired, pc, req, seen, outcome, tries,
                 settled, admin, stats, events>>

ListPrune(i, k) ==
  /\ k \in pruning[i]
  /\ issued' = [issued EXCEPT ![i] = @ \ {k}]
  /\ pruning' = [pruning EXCEPT ![i] = @ \ {k}]
  /\ UNCHANGED <<store, expired, pc, req, seen, outcome, tries, settled,
                 admin, stats, events>>

\* The clock passes expiresAt of a minted key.
Expire(k) ==
  /\ k \in settled \ expired
  /\ req[k].tool \in Timed
  /\ expired' = expired \cup {k}
  /\ UNCHANGED <<store, issued, pruning, pc, req, seen, outcome, tries,
                 settled, admin, stats, events>>

\* The backend's own TTL removes a record.
Sweep(k) ==
  /\ Ttl
  /\ store[k] # None
  /\ store' = [store EXCEPT ![k] = None]
  /\ UNCHANGED <<issued, pruning, expired, pc, req, seen, outcome, tries,
                 settled, admin, stats, events>>

\* The process dies and another takes its place: its calls get no answer, its
\* index and counters start over, and so does a memory store.
Restart(i) ==
  LET mine == {c \in Calls : pc[c] \in Running /\ req[c].inst = i}
  IN  /\ i \in Mortal
      /\ pc' = [c \in Calls |-> IF c \in mine THEN "lost" ELSE pc[c]]
      /\ outcome' = [c \in Calls |->
                       IF c \in mine /\ pc[c] \in Redeeming THEN "error"
                       ELSE outcome[c]]
      /\ admin' = [r \in Revokers |->
                     IF admin[r].pc = "found" /\ admin[r].inst = i
                       THEN [admin[r] EXCEPT !.pc = "failed"] ELSE admin[r]]
      /\ issued' = [issued EXCEPT ![i] = {}]
      /\ pruning' = [pruning EXCEPT ![i] = {}]
      /\ stats' = [stats EXCEPT ![i] = NoCounts]
      /\ store' = IF StoreKind = "memory" THEN [k \in Calls |-> None] ELSE store
      /\ UNCHANGED <<expired, req, seen, tries, settled, events>>

-----------------------------------------------------------------------------
Redeem(c) ==
  \/ RedeemInMemory(c) \/ RedeemRead(c) \/ RedeemSwap(c) \/ RedeemConflict(c)
  \/ RedeemWrite(c) \/ RedeemFault(c)

Serve(c) == ServeReturns(c) \/ ServeThrows(c)

Pay(c) ==
  \/ ChargeRefused(c) \/ ChargeThrows(c) \/ ChargeSettles(c)
  \/ WorkReturns(c) \/ WorkThrows(c)
  \/ PutRecord(c) \/ PutDecremented(c) \/ PutFault(c)

Revoke(r) == RevokeLookup(r) \/ RevokeDelete(r) \/ RevokeFault(r)

List(i, k) == ListLookup(i, k) \/ ListPrune(i, k)

\* Everything asked has been answered, and the gateway waits.
Rest ==
  /\ \A c \in Calls : pc[c] \in Ended
  /\ UNCHANGED vars

Step ==
  \/ Rest
  \/ \E c \in Calls : Arrive(c) \/ Redeem(c) \/ Serve(c) \/ Pay(c)
  \/ \E r \in Revokers : Revoke(r)
  \/ \E i \in Instances, k \in Calls : List(i, k)
  \/ \E k \in Calls : Expire(k) \/ Sweep(k)
  \/ \E i \in Instances : Restart(i)

\* What is stored may be read for a while after it has been replaced.
Remember ==
  past' = IF StoreKind = "kv" THEN [k \in Calls |-> past[k] \cup {store'[k]}]
          ELSE past

Next == Step /\ Remember

Spec == Init /\ [][Next]_vars

-----------------------------------------------------------------------------
(* Properties.                                                             *)

\* The calls that key k has been redeemed for.
Grants(k) ==
  {c \in Calls : /\ req[c] # None
                 /\ req[c].key = k
                 /\ outcome[c] = "ok"
                 /\ pc[c] \notin Redeeming}

Cap(k) == MaxCalls[req[k].tool]

\* Concurrent redemptions of one key never serve more calls than its maxCalls,
\* of which the paying call is the first (redeem in access-keys.ts: "exactly
\* remainingCalls of them succeed").
BudgetRespected ==
  \A k \in settled : Cap(k) # None => Cardinality(Grants(k)) + 1 <= Cap(k)

\* A call served by a key was paid for: the key was bought for the same tool,
\* and under wallet binding by the same wallet; a server that requires binding
\* never honours a key minted without it, nor does one without binding honour
\* a bound key.
GrantsAreEarned ==
  \A c \in Calls : \A k \in Calls : c \in Grants(k) =>
    /\ Delivered(k)
    /\ req[k].tool = req[c].tool
    /\ Binding[req[k].inst] = Binding[req[c].inst]
    /\ Binding[req[c].inst] = "wallet" => req[k].wallet = req[c].wallet

\* Once revokeAccessKey has answered that a key is revoked, the store does not
\* hold it ("deleting it from the store so future redemptions fail with
\* unknown", server.ts:1134).
RevokedIsUnknown ==
  \A r \in Revokers : admin[r].pc = "revoked" => store[admin[r].key] = None

\* A key that its buyer holds and the store knows is listed by the instance
\* that issued it, unless a revocation of it is under way ("the access keys
\* this server instance has issued that are still present in the store",
\* server.ts:1095).  A restart empties the index, and a memory store with it.
ListingIsComplete ==
  \A k \in Calls :
    /\ Delivered(k) /\ store[k] # None
    /\ req[k].inst \notin Mortal \/ StoreKind = "memory"
    /\ \A r \in Revokers : ~(admin[r].pc = "found" /\ admin[r].key = k)
    => k \in issued[req[k].inst]

\* Whatever happens to a record, the calls left on it never go up while it is
\* there: an exhausted key stays exhausted (the sticky terminal states of redeem).
RemainingNeverGrows ==
  [][\A k \in Calls :
       /\ store[k] # None /\ store'[k] # None /\ store[k].left # None
       => store'[k].left # None /\ store'[k].left <= store[k].left]_vars

\* A record that has left the store is only ever put back by the second put of
\* the call that mints it: a redemption never revives a revoked or swept key
\* (the script of stores/upstash.ts checks that the key is still there).
OnlyIssuerRevives ==
  [][\A k \in Calls :
       store[k] = None /\ store'[k] # None => pc[k] \in {"put", "put2"}]_vars

\* The counters agree with what happened: every settled charge that was
\* answered is counted and announced once as revenue, every call served by a
\* key once as such, and no charge that settled was refused for want of a
\* payer (resolveKeyBinding: rejected "before any funds move").
BooksBalance ==
  /\ \A c \in settled : ~Unattributable(req[c])
  /\ events["payment.received"] = Cardinality({c \in settled : pc[c] = "done"})
  /\ events["access-key.issued"] = events["payment.received"]
  /\ \A i \in Instances \ Mortal :
       LET paid == {c \in settled : pc[c] = "done" /\ req[c].inst = i}
           free == {c \in Calls \ settled : pc[c] = "done" /\ req[c].inst = i}
       IN  /\ stats[i]["paidCalls"] = Cardinality(paid)
           /\ stats[i]["accessKeyCalls"] = Cardinality(free)
           /\ stats[i]["totalCalls"] = Cardinality(paid \cup free)
           /\ stats[i]["accessKeysIssued"] >= Cardinality(paid)

\* Seen from the buyers of keys the gateway is a KeyLedger: a key exists from
\* the moment its buyer has it.
Ledger ==
  INSTANCE KeyLedger WITH
    Keys <- Calls,
    Caps <- {MaxCalls[t] : t \in Tools},
    state <- [k \in Calls |-> IF ~Delivered(k) THEN "unsold"
                              ELSE IF store[k] = None THEN "gone" ELSE "live"],
    cap <- [k \in Calls |-> IF Delivered(k) THEN Cap(k) ELSE None],
    left <- [k \in Calls |-> IF Delivered(k) /\ store[k] # None
                             THEN store[k].left ELSE None],
    used <- [k \in Calls |-> Cardinality(Grants(k))]

\* The gateway over an atomic store implements KeyLedger: a key is sold once,
\* serves at most its cap, and never comes back once it is gone.
ImplementsLedger == Ledger!LedgerSpec
=============================================================================
