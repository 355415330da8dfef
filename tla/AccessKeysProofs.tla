--------------------------- MODULE AccessKeysProofs ---------------------------
(***************************************************************************)
(* AccessKeys for any number of calls, revocations, instances, tools and   *)
(* wallets: its types; that a call served by a key was paid for, by its    *)
(* own wallet where keys are bound, and that the counters and events agree *)
(* with what was settled, over every kind of store; that over an atomic    *)
(* store a key never serves more calls than were sold; and that over a     *)
(* memory store a revocation is final and a listing misses no key.  Last,  *)
(* that over an atomic store AccessKeys implements KeyLedger.              *)
(***************************************************************************)
EXTENDS AccessKeys, FiniteSetTheorems, TLAPS

\* Where a call's own steps leave everything of the other calls alone.
RedeemStep == \E c \in Calls : Redeem(c)
ServeStep == \E c \in Calls : Serve(c)
PayStep == \E c \in Calls : Pay(c)
OperatorStep ==
  \/ \E r \in Revokers : Revoke(r)
  \/ \E i \in Instances, k \in Calls : List(i, k)

LEMMA Steps ==
  ASSUME [Next]_vars
  PROVE  \/ \E c \in Calls : Arrive(c)
         \/ RedeemStep \/ ServeStep \/ PayStep \/ OperatorStep
         \/ \E k \in Calls : Expire(k) \/ Sweep(k)
         \/ \E i \in Instances : Restart(i)
         \/ UNCHANGED vars
BY DEF Next, Step, RedeemStep, ServeStep, PayStep, OperatorStep, Rest

-----------------------------------------------------------------------------
(* Types.                                                                  *)

LEMMA CountType ==
  ASSUME stats \in [Instances -> [Counters -> Nat]],
         NEW i \in Instances, NEW names, Count(i, names)
  PROVE  stats' \in [Instances -> [Counters -> Nat]]
BY DEF Count

LEMMA EmitType ==
  ASSUME events \in [EventTypes -> Nat], NEW types, Emit(types)
  PROVE  events' \in [EventTypes -> Nat]
BY DEF Emit

\* A call that has arrived has its request, a call with a key to redeem has the
\* key, and a capped record that is decremented has a call left.
Shape ==
  /\ \A c \in Calls : pc[c] # "idle" => req[c] \in Request
  /\ \A c \in Calls : pc[c] = "idle" => outcome[c] = "none" /\ seen[c] = None
  /\ \A c \in Calls : pc[c] \in Redeeming => req[c].key \in Calls
  /\ \A c \in Calls : pc[c] \in {"swap", "serve"} /\ outcome[c] = "ok" =>
       seen[c] # None /\ seen[c].left # 0

LEMMA FreshRecordType ==
  ASSUME NEW c \in Calls, req[c] \in Request
  PROVE  FreshRecord(c) \in Record /\ FreshRecord(c).left # 0
BY PricingAssumption DEF FreshRecord, Request, Record

LEMMA DecrementType ==
  ASSUME NEW rec \in Record, rec.left # 0
  PROVE  Decrement(rec) \in Record
BY PricingAssumption DEF Decrement, Record

LEMMA TransformedType ==
  ASSUME NEW rec \in Record \cup {None}, NEW o,
         o = "ok" => rec # None /\ rec.left # 0
  PROVE  Transformed(rec, o) \in Record \cup {None}
BY DecrementType DEF Transformed

LEMMA VerdictType ==
  ASSUME NEW rec, NEW r
  PROVE  /\ Verdict(rec, r) \in Reasons \cup {"ok"}
         /\ Verdict(rec, r) = "ok" => rec # None /\ rec.left # 0
BY DEF Verdict, Reasons

\* Nor did the store ever hold anything else.
PastTyped == past \in [Calls -> SUBSET (Record \cup {None})]

Typed == TypesButPast /\ Shape /\ PastTyped

LEMMA InitTyped == Init => Typed
<1> SUFFICES ASSUME Init PROVE Typed
  OBVIOUS
<1>1. TypesButPast
  BY DEF Init, TypesButPast, NoCounts, Revocation, Record, Request
<1>2. Shape
  BY DEF Init, Shape, Redeeming
<1>3. PastTyped
  BY DEF Init, PastTyped
<1>4. QED
  BY <1>1, <1>2, <1>3 DEF Typed

\* What the return of redeem changes.
LEMMA RedeemedEffect ==
  ASSUME Typed, NEW c \in Calls, req[c] \in Request, NEW o, Redeemed(c, o)
  PROVE  /\ outcome' = [outcome EXCEPT ![c] = o]
         /\ \E l \in {"serve", "charge", "failed"} :
              pc' = [pc EXCEPT ![c] = l] /\ (l = "serve" <=> o = "ok")
         /\ stats' \in [Instances -> [Counters -> Nat]]
         /\ events' \in [EventTypes -> Nat]
<1>1. outcome' = [outcome EXCEPT ![c] = o]
  BY DEF Redeemed
<1>2. \E l \in {"serve", "charge", "failed"} :
        pc' = [pc EXCEPT ![c] = l] /\ (l = "serve" <=> o = "ok")
  BY DEF Redeemed, Goto, PayEntry
<1>3. stats' \in [Instances -> [Counters -> Nat]]
  BY CountType DEF Redeemed, Request, Typed, TypesButPast
<1>4. events' \in [EventTypes -> Nat]
  BY EmitType DEF Redeemed, Typed, TypesButPast
<1>5. QED
  BY <1>1, <1>2, <1>3, <1>4 DEF Delivered

\* And its throw, like every other failure.
LEMMA FailEffect ==
  ASSUME Typed, NEW c \in Calls, Fail(c)
  PROVE  /\ pc' = [pc EXCEPT ![c] = "failed"]
         /\ events' \in [EventTypes -> Nat]
BY EmitType DEF Fail, Goto, Typed, TypesButPast

LEMMA ReadableType ==
  ASSUME Typed, NEW k \in Calls, NEW rec \in Readable(k)
  PROVE  rec \in Record \cup {None}
BY DEF Readable, Typed, TypesButPast, PastTyped

LEMMA RedeemTyped ==
  ASSUME Typed, NEW c \in Calls, Redeem(c)
  PROVE  (TypesButPast /\ Shape)'
<1> USE DEF Typed, TypesButPast, Shape, Redeeming, Running, Ended
<1>0. req[c] \in Request
  BY DEF Redeem, RedeemInMemory, RedeemRead, RedeemSwap, RedeemConflict,
         RedeemWrite, RedeemFault
<1>1. CASE RedeemInMemory(c)
  <2> DEFINE k == req[c].key
             o == Verdict(store[k], req[c])
  <2>1. k \in Calls /\ store[k] \in Record \cup {None} /\ req[c].inst \in Instances
    BY <1>1 DEF RedeemInMemory, Request
  <2>2. Transformed(store[k], o) \in Record \cup {None}
    BY <2>1, TransformedType, VerdictType
  <2>3. o \in Reasons \cup {"ok"} /\ (o = "ok" => store[k] # None /\ store[k].left # 0)
    BY VerdictType
  <2>4. PICK l \in {"serve", "charge", "failed"} :
          pc' = [pc EXCEPT ![c] = l] /\ (l = "serve" <=> o = "ok")
    BY <1>0, <1>1, RedeemedEffect DEF RedeemInMemory
  <2>5. /\ outcome' = [outcome EXCEPT ![c] = o]
        /\ stats' \in [Instances -> [Counters -> Nat]]
        /\ events' \in [EventTypes -> Nat]
    BY <1>0, <1>1, RedeemedEffect DEF RedeemInMemory
  <2>6. /\ seen' = [seen EXCEPT ![c] = store[k]]
        /\ store' = [store EXCEPT ![k] = Transformed(store[k], o)]
        /\ UNCHANGED <<issued, pruning, expired, req, tries, settled, admin>>
    BY <1>1 DEF RedeemInMemory
  <2> HIDE DEF k, o
  <2>7. TypesButPast'
    BY <2>1, <2>2, <2>3, <2>4, <2>5, <2>6
  <2>8. Shape'
    <3>1. \A d \in Calls : pc'[d] # "idle" => req'[d] \in Request
      BY <1>0, <2>4, <2>6
    <3>2. \A d \in Calls : pc'[d] = "idle" => outcome'[d] = "none" /\ seen'[d] = None
      BY <2>4, <2>5, <2>6
    <3>3. \A d \in Calls : pc'[d] \in Redeeming => req'[d].key \in Calls
      BY <2>4, <2>6
    <3>4. \A d \in Calls : pc'[d] \in {"swap", "serve"} /\ outcome'[d] = "ok" =>
            seen'[d] # None /\ seen'[d].left # 0
      BY <2>3, <2>4, <2>5, <2>6
    <3>5. QED
      BY <3>1, <3>2, <3>3, <3>4
  <2>9. QED
    BY <2>7, <2>8
<1>2. CASE RedeemRead(c)
  <2>1. PICK rec \in Readable(req[c].key) :
          /\ seen' = [seen EXCEPT ![c] = rec]
          /\ outcome' = [outcome EXCEPT ![c] = Verdict(rec, req[c])]
    BY <1>2 DEF RedeemRead
  <2>2. req[c].key \in Calls /\ rec \in Record \cup {None}
    BY <1>2, <2>1, ReadableType DEF RedeemRead
  <2>3. /\ Verdict(rec, req[c]) \in Reasons \cup {"ok"}
        /\ Verdict(rec, req[c]) = "ok" => rec # None /\ rec.left # 0
    BY VerdictType
  <2>4. QED
    BY <1>2, <2>1, <2>2, <2>3 DEF RedeemRead, Goto
<1>3. ASSUME RedeemSwap(c) \/ RedeemWrite(c)
      PROVE  (TypesButPast /\ Shape)'
  <2>1. /\ req[c].key \in Calls /\ req[c].inst \in Instances
        /\ Transformed(seen[c], outcome[c]) \in Record \cup {None}
    BY <1>3, TransformedType DEF RedeemSwap, RedeemWrite, Request
  <2>2. PICK l \in {"serve", "charge", "failed"} :
          pc' = [pc EXCEPT ![c] = l] /\ (l = "serve" <=> outcome[c] = "ok")
    BY <1>0, <1>3, RedeemedEffect DEF RedeemSwap, RedeemWrite
  <2>3. /\ outcome' = outcome
        /\ stats' \in [Instances -> [Counters -> Nat]]
        /\ events' \in [EventTypes -> Nat]
    BY <1>0, <1>3, RedeemedEffect DEF RedeemSwap, RedeemWrite
  <2>4. /\ pc[c] = "swap"
        /\ store' \in {store, [store EXCEPT ![req[c].key] =
                                          Transformed(seen[c], outcome[c])]}
        /\ UNCHANGED <<issued, pruning, expired, req, seen, tries, settled, admin>>
    BY <1>3 DEF RedeemSwap, RedeemWrite, Overwritten
  <2>5. QED
    BY <2>1, <2>2, <2>3, <2>4
<1>4. CASE RedeemConflict(c)
  <2>1. \E l \in {"redeem", "failed"} : pc' = [pc EXCEPT ![c] = l]
    BY <1>4, FailEffect DEF RedeemConflict, RedeemThrows, Goto
  <2>2. /\ events' \in [EventTypes -> Nat]
        /\ outcome' \in {outcome, [outcome EXCEPT ![c] = "error"]}
    BY <1>4, FailEffect DEF RedeemConflict, RedeemThrows
  <2>3. /\ pc[c] = "swap"
        /\ tries' = [tries EXCEPT ![c] = @ + 1]
        /\ UNCHANGED <<store, issued, pruning, expired, req, seen, settled, admin, stats>>
    BY <1>4 DEF RedeemConflict, RedeemThrows
  <2>4. QED
    BY <2>1, <2>2, <2>3
<1>5. CASE RedeemFault(c)
  <2>1. /\ pc' = [pc EXCEPT ![c] = "failed"]
        /\ events' \in [EventTypes -> Nat]
    BY <1>5, FailEffect DEF RedeemFault, RedeemThrows
  <2>2. pc[c] = "swap" => Transformed(seen[c], outcome[c]) \in Record \cup {None}
    BY TransformedType
  <2>3. store' \in [Calls -> Record \cup {None}]
    BY <1>5, <2>2 DEF RedeemFault, Overwritten
  <2>4. QED
    BY <1>5, <2>1, <2>3 DEF RedeemFault, RedeemThrows
<1>6. QED
  BY <1>1, <1>2, <1>3, <1>4, <1>5 DEF Redeem

LEMMA ArriveTyped ==
  ASSUME Typed, NEW c \in Calls, Arrive(c)
  PROVE  (TypesButPast /\ Shape)'
<1>1. PICK r \in Request :
        /\ r.key = None \/ Delivered(r.key)
        /\ req' = [req EXCEPT ![c] = r]
        /\ \E l \in {"redeem", "charge", "failed"} :
             pc' = [pc EXCEPT ![c] = l] /\ (l = "redeem" => r.key # None)
        /\ events' = events \/ \E types : Emit(types)
  BY DEF Arrive, Goto, PayEntry
<1>2. events' \in [EventTypes -> Nat]
  BY <1>1, EmitType DEF Typed, TypesButPast
<1>3. /\ r.key \in Calls \cup {None}
      /\ pc[c] = "idle"
      /\ UNCHANGED <<store, issued, pruning, expired, seen, outcome, tries,
                     settled, admin, stats>>
  BY DEF Arrive, Request
<1>4. TypesButPast'
  BY <1>1, <1>2, <1>3 DEF Typed, TypesButPast, Redeeming, Running, Ended
<1>5. Shape'
  BY <1>1, <1>3 DEF Typed, TypesButPast, Shape, Redeeming
<1>6. QED
  BY <1>4, <1>5 DEF Typed

LEMMA ServeTyped ==
  ASSUME Typed, NEW c \in Calls, Serve(c)
  PROVE  (TypesButPast /\ Shape)'
<1>1. /\ pc[c] = "serve"
      /\ \E l \in {"done", "failed"} : pc' = [pc EXCEPT ![c] = l]
      /\ UNCHANGED <<store, issued, pruning, expired, req, seen, outcome, tries,
                     settled, admin>>
  BY DEF Serve, ServeReturns, ServeThrows, Fail, Goto
<1>2. stats' \in [Instances -> [Counters -> Nat]]
  BY <1>1, CountType DEF Serve, ServeReturns, ServeThrows, Typed, TypesButPast, Shape,
                         Request, Redeeming
<1>3. events' \in [EventTypes -> Nat]
  BY EmitType DEF Serve, ServeReturns, ServeThrows, Fail, Typed, TypesButPast
<1>4. QED
  BY <1>1, <1>2, <1>3 DEF Typed, TypesButPast, Shape, Redeeming, Running, Ended

LEMMA PayTyped ==
  ASSUME Typed, NEW c \in Calls, Pay(c)
  PROVE  (TypesButPast /\ Shape)'
<1>1. /\ pc[c] \in {"charge", "work", "put", "put2"}
      /\ \E l \in {"paywall", "failed", "work", "put", "put2", "done"} :
           pc' = [pc EXCEPT ![c] = l]
      /\ UNCHANGED <<pruning, expired, req, seen, outcome, tries, admin>>
  BY DEF Pay, ChargeRefused, ChargeThrows, ChargeSettles, WorkReturns,
         WorkThrows, PutRecord, PutDecremented, PutFault, FinishPaid, Fail, Goto
<1>2. req[c] \in Request /\ req[c].inst \in Instances
  BY <1>1 DEF Typed, TypesButPast, Shape, Request, Redeeming
<1>3. FreshRecord(c) \in Record /\ Decrement(FreshRecord(c)) \in Record
  BY <1>2, FreshRecordType, DecrementType
<1>4. store' \in [Calls -> Record \cup {None}]
  BY <1>3 DEF Pay, ChargeRefused, ChargeThrows, ChargeSettles, WorkReturns,
              WorkThrows, PutRecord, PutDecremented, PutFault, Typed, TypesButPast
<1>5. issued' \in [Instances -> SUBSET Calls] /\ settled' \subseteq Calls
  BY DEF Pay, ChargeRefused, ChargeThrows, ChargeSettles, WorkReturns,
         WorkThrows, PutRecord, PutDecremented, PutFault, Typed, TypesButPast
<1>6. stats' = stats \/ \E names : Count(req[c].inst, names)
  BY DEF Pay, ChargeRefused, ChargeThrows, ChargeSettles, WorkReturns,
         WorkThrows, PutRecord, PutDecremented, PutFault, FinishPaid
<1>7. stats' \in [Instances -> [Counters -> Nat]]
  BY <1>2, <1>6, CountType DEF Typed, TypesButPast
<1>8. events' = events \/ \E types : Emit(types)
  BY DEF Pay, ChargeRefused, ChargeThrows, ChargeSettles, WorkReturns,
         WorkThrows, PutRecord, PutDecremented, PutFault, FinishPaid, Fail
<1>9. events' \in [EventTypes -> Nat]
  BY <1>8, EmitType DEF Typed, TypesButPast
<1>10. pc' \in [Calls -> {"idle"} \cup Running \cup Ended]
  BY <1>1 DEF Typed, TypesButPast, Redeeming, Running, Ended
<1>11. TypesButPast'
  BY <1>1, <1>4, <1>5, <1>7, <1>9, <1>10 DEF Typed, TypesButPast
<1>12. Shape'
  BY <1>1 DEF Typed, TypesButPast, Shape, Redeeming
<1>13. QED
  BY <1>11, <1>12 DEF Typed

LEMMA RevokeTyped ==
  ASSUME Typed, NEW r \in Revokers, Revoke(r)
  PROVE  (TypesButPast /\ Shape)'
<1>1. /\ store' \in [Calls -> Record \cup {None}]
      /\ UNCHANGED <<pruning, expired, pc, req, seen, outcome, tries, settled, stats>>
  BY DEF Revoke, RevokeLookup, RevokeDelete, RevokeFault, Typed, TypesButPast
<1>2. issued' \in [Instances -> SUBSET Calls]
  BY DEF Revoke, RevokeLookup, RevokeDelete, RevokeFault, Typed, TypesButPast
<1>3. admin' \in [Revokers -> Revocation]
  <2>1. CASE RevokeLookup(r)
    <3>1. \E rev \in Revocation : admin' = [admin EXCEPT ![r] = rev]
      BY <2>1 DEF RevokeLookup, Revocation
    <3>2. QED
      BY <3>1 DEF Typed, TypesButPast
  <2>2. CASE RevokeDelete(r) \/ RevokeFault(r)
    <3>1. PICK l \in {"revoked", "failed"} : admin' = [admin EXCEPT ![r].pc = l]
      BY <2>2 DEF RevokeDelete, RevokeFault
    <3>2. admin[r] \in Revocation /\ [admin[r] EXCEPT !.pc = l] \in Revocation
      BY DEF Typed, TypesButPast, Revocation
    <3>3. QED
      BY <3>1, <3>2 DEF Typed, TypesButPast
  <2>3. QED
    BY <2>1, <2>2 DEF Revoke
<1>4. events' \in [EventTypes -> Nat]
  BY EmitType DEF Revoke, RevokeLookup, RevokeDelete, RevokeFault, Typed, TypesButPast
<1>5. QED
  BY <1>1, <1>2, <1>3, <1>4 DEF Typed, TypesButPast, Shape, Redeeming

LEMMA OthersTyped ==
  ASSUME Typed,
         \/ \E i \in Instances, k \in Calls : List(i, k)
         \/ \E k \in Calls : Expire(k) \/ Sweep(k)
  PROVE  (TypesButPast /\ Shape)'
<1> USE DEF Typed, TypesButPast, Shape, Redeeming
<1>1. ASSUME NEW i \in Instances, NEW k \in Calls, List(i, k)
      PROVE  (TypesButPast /\ Shape)'
  <2>1. \E S, T \in SUBSET Calls :
          /\ issued' \in {issued, [issued EXCEPT ![i] = S]}
          /\ pruning' = [pruning EXCEPT ![i] = T]
    <3>1. CASE ListLookup(i, k)
      <4>1. pruning[i] \cup {k} \in SUBSET Calls
        OBVIOUS
      <4>2. QED
        BY <3>1, <4>1 DEF ListLookup
    <3>2. CASE ListPrune(i, k)
      <4>1. issued[i] \ {k} \in SUBSET Calls /\ pruning[i] \ {k} \in SUBSET Calls
        OBVIOUS
      <4>2. QED
        BY <3>2, <4>1 DEF ListPrune
    <3>3. QED
      BY <1>1, <3>1, <3>2 DEF List
  <2>2. UNCHANGED <<store, expired, pc, req, seen, outcome, tries, settled,
                   admin, stats, events>>
    BY <1>1 DEF List, ListLookup, ListPrune
  <2>3. QED
    BY <2>1, <2>2
<1>2. ASSUME NEW k \in Calls, Expire(k)
      PROVE  (TypesButPast /\ Shape)'
  BY <1>2 DEF Expire
<1>3. ASSUME NEW k \in Calls, Sweep(k)
      PROVE  (TypesButPast /\ Shape)'
  BY <1>3 DEF Sweep
<1>4. QED
  BY <1>1, <1>2, <1>3

LEMMA RestartTyped ==
  ASSUME Typed, NEW i \in Instances, Restart(i)
  PROVE  (TypesButPast /\ Shape)'
<1>1. /\ store' \in [Calls -> Record \cup {None}]
      /\ issued' \in [Instances -> SUBSET Calls]
      /\ pruning' \in [Instances -> SUBSET Calls]
      /\ UNCHANGED <<expired, req, seen, tries, settled, events>>
  BY DEF Restart, Typed, TypesButPast
<1>2. stats' \in [Instances -> [Counters -> Nat]]
  BY DEF Restart, Typed, TypesButPast, NoCounts
<1>3. /\ pc' \in [Calls -> {"idle"} \cup Running \cup Ended]
      /\ \A c \in Calls : pc'[c] = pc[c] \/ (pc'[c] = "lost" /\ pc[c] \in Running)
  BY DEF Restart, Typed, TypesButPast, Ended
<1>4. /\ outcome' \in [Calls -> Reasons \cup {"none", "ok", "error"}]
      /\ \A c \in Calls : outcome'[c] = outcome[c] \/ pc[c] \in Redeeming
      /\ \A c \in Calls : outcome'[c] \in {outcome[c], "error"}
  BY DEF Restart, Typed, TypesButPast
<1>5. admin' \in [Revokers -> Revocation]
  <2>1. \A r \in Revokers :
          admin'[r] = admin[r] \/ admin'[r] = [admin[r] EXCEPT !.pc = "failed"]
    BY DEF Restart
  <2>2. \A r \in Revokers : [admin[r] EXCEPT !.pc = "failed"] \in Revocation
    BY DEF Typed, TypesButPast, Revocation
  <2>3. \A r \in Revokers : admin'[r] \in Revocation
    BY <2>1, <2>2 DEF Typed, TypesButPast
  <2>4. admin' = [r \in Revokers |-> admin'[r]]
    BY DEF Restart
  <2>5. QED
    BY <2>3, <2>4
<1>6. TypesButPast'
  BY <1>1, <1>2, <1>3, <1>4, <1>5 DEF Typed, TypesButPast
<1>7. ASSUME NEW c \in Calls
      PROVE  /\ pc'[c] # "idle" => req'[c] \in Request
             /\ pc'[c] = "idle" => outcome'[c] = "none" /\ seen'[c] = None
             /\ pc'[c] \in Redeeming => req'[c].key \in Calls
             /\ pc'[c] \in {"swap", "serve"} /\ outcome'[c] = "ok" =>
                  seen'[c] # None /\ seen'[c].left # 0
  <2>1. CASE pc'[c] = "lost"
    BY <1>1, <1>3, <2>1 DEF Typed, Shape, Redeeming, Running
  <2>2. CASE pc'[c] = pc[c]
    BY <1>1, <1>4, <2>2 DEF Typed, Shape, Redeeming
  <2>3. QED
    BY <1>3, <2>1, <2>2
<1>8. QED
  BY <1>6, <1>7 DEF Typed, Shape

LEMMA NextTyped ==
  ASSUME Typed, [Next]_vars
  PROVE  Typed'
<1>1. (TypesButPast /\ Shape)'
  <2>1. CASE UNCHANGED vars
    BY <2>1 DEF vars, Typed, TypesButPast, Shape, Redeeming
  <2>2. QED
    BY <2>1, Steps, ArriveTyped, RedeemTyped, ServeTyped, PayTyped, RevokeTyped,
       OthersTyped, RestartTyped
       DEF RedeemStep, ServeStep, PayStep, OperatorStep
<1>2. PastTyped'
  <2>1. past' = past \/ past' = [k \in Calls |-> past[k] \cup {store'[k]}]
    BY DEF Next, Remember, vars
  <2>2. store' \in [Calls -> Record \cup {None}]
    BY <1>1 DEF TypesButPast
  <2>3. \A k \in Calls : past[k] \cup {store'[k]} \in SUBSET (Record \cup {None})
    BY <2>2 DEF Typed, PastTyped
  <2>4. QED
    BY <2>1, <2>3 DEF Typed, PastTyped
<1>3. QED
  BY <1>1, <1>2 DEF Typed

\* The state of AccessKeys keeps its types, whatever the size of the system
\* and whatever the store: no step of the code leaves a record half written or
\* a negative number of calls on a key.
THEOREM TypeCorrect == Spec => []TypeOK
<1>1. Spec => []Typed
  BY InitTyped, NextTyped, PTL DEF Spec
<1>2. Typed => TypeOK
  BY DEF Typed, TypeOK, PastTyped
<1>3. QED
  BY <1>1, <1>2, PTL

-----------------------------------------------------------------------------
(* What a step may change, whichever action it is.                         *)

Kept(c) == pc[c] # "idle" => req'[c] = req[c] /\ pc'[c] # "idle"

\* A request is fixed once it has arrived, and nothing is unsettled or undone.
LEMMA Frame ==
  ASSUME Typed, [Next]_vars
  PROVE  /\ settled \subseteq settled'
         /\ \A c \in Calls : pc[c] = "done" => pc'[c] = "done"
         /\ \A c \in Calls : Kept(c)
         /\ \A c \in Calls : pc[c] = "idle" =>
              \/ Arrive(c)
              \/ pc'[c] = "idle" /\ req'[c] = req[c]
<1> DEFINE Goal == /\ settled \subseteq settled'
                   /\ \A c \in Calls : pc[c] = "done" => pc'[c] = "done"
                   /\ \A c \in Calls : Kept(c)
                   /\ \A c \in Calls : pc[c] = "idle" =>
                        \/ Arrive(c)
                        \/ pc'[c] = "idle" /\ req'[c] = req[c]
<1> USE DEF Typed, TypesButPast, Kept
<1>1. ASSUME NEW c \in Calls, Arrive(c) PROVE Goal
  <2>1. /\ pc[c] = "idle" /\ settled' = settled
        /\ \E l \in {"redeem", "charge", "failed"} : pc' = [pc EXCEPT ![c] = l]
        /\ \E r : req' = [req EXCEPT ![c] = r]
    BY <1>1 DEF Arrive, Goto, PayEntry
  <2> QED
    BY <1>1, <2>1
<1>2. ASSUME NEW c \in Calls, Redeem(c) \/ Serve(c) \/ Pay(c) PROVE Goal
  <2>1. /\ pc[c] \in Running
        /\ \E l \in Running \cup Ended : pc' = [pc EXCEPT ![c] = l]
        /\ req' = req /\ settled \subseteq settled'
    <3>1. CASE Redeem(c)
      BY <3>1 DEF Redeem, RedeemInMemory, RedeemRead, RedeemSwap, RedeemConflict,
         RedeemWrite, RedeemFault, Redeemed, RedeemThrows, Fail, Goto, PayEntry,
         Redeeming, Running, Ended
    <3>2. CASE Serve(c)
      BY <3>2 DEF Serve, ServeReturns, ServeThrows, Fail, Goto, Running, Ended
    <3>3. CASE Pay(c)
      BY <3>3 DEF Pay, ChargeRefused, ChargeThrows, ChargeSettles, WorkReturns,
         WorkThrows, PutRecord, PutDecremented, PutFault, FinishPaid, Fail, Goto,
         Running, Ended
    <3>4. QED
      BY <1>2, <3>1, <3>2, <3>3
  <2>2. QED
    BY <2>1 DEF Redeeming, Running, Ended
<1>3. ASSUME OperatorStep \/ UNCHANGED vars \/ \E k \in Calls : Expire(k) \/ Sweep(k)
      PROVE  Goal
  <2>1. pc' = pc /\ req' = req /\ settled' = settled
    BY <1>3 DEF OperatorStep, Revoke, RevokeLookup, RevokeDelete, RevokeFault, List,
                ListLookup, ListPrune, Expire, Sweep, vars
  <2>2. QED
    BY <2>1
<1>4. ASSUME NEW i \in Instances, Restart(i) PROVE Goal
  BY <1>4 DEF Restart, Redeeming, Running
<1>5. QED
  BY <1>1, <1>2, <1>3, <1>4, Steps DEF RedeemStep, ServeStep, PayStep

Outcomes == Reasons \cup {"none", "ok", "error"}

\* A redemption writes back a record it has read, as its transform left it; a
\* paying call writes its own; everything else only removes records.
Rewritten(k) ==
  \E c \in Calls, rec \in Record \cup {None}, o \in Outcomes :
    /\ Redeem(c) /\ pc[c] \in Redeeming /\ req[c].key = k
    /\ rec = seen[c] \/ rec = store[k]
    /\ o = "ok" => rec # None /\ rec.left # 0
    /\ store'[k] = Transformed(rec, o)

LEMMA RedeemStore ==
  ASSUME Typed, NEW c \in Calls, Redeem(c), NEW k \in Calls
  PROVE  store'[k] \in {store[k], None} \/ Rewritten(k)
<1>1. CASE store' = store
  BY <1>1
<1>2. CASE RedeemInMemory(c)
  <2>1. /\ pc[c] = "redeem" /\ req[c].key \in Calls
        /\ store' = [store EXCEPT ![req[c].key] =
                       Transformed(store[req[c].key], Verdict(store[req[c].key], req[c]))]
    BY <1>2 DEF RedeemInMemory, Typed, Shape, Redeeming
  <2>2. CASE req[c].key = k
    <3>1. /\ store'[k] = Transformed(store[k], Verdict(store[k], req[c]))
          /\ store[k] \in Record \cup {None}
          /\ Verdict(store[k], req[c]) = "ok" => store[k] # None /\ store[k].left # 0
          /\ Verdict(store[k], req[c]) \in Outcomes
      BY <2>1, <2>2, VerdictType DEF Typed, TypesButPast, Outcomes
    <3> DEFINE o == Verdict(store[k], req[c])
    <3> HIDE DEF o
    <3>2. \E rec \in Record \cup {None}, u \in Outcomes :
            /\ rec = store[k]
            /\ u = "ok" => rec # None /\ rec.left # 0
            /\ store'[k] = Transformed(rec, u)
      BY <3>1
    <3>3. QED
      BY <2>1, <2>2, <3>2 DEF Rewritten, Redeeming
  <2>3. CASE req[c].key # k
    BY <2>1, <2>3 DEF Typed, TypesButPast
  <2>4. QED
    BY <2>2, <2>3
<1>3. CASE store' # store /\ ~RedeemInMemory(c)
  <2>1. /\ pc[c] = "swap" /\ req[c].key \in Calls
        /\ store' = [store EXCEPT ![req[c].key] = Transformed(seen[c], outcome[c])]
    BY <1>3 DEF Redeem, RedeemRead, RedeemSwap, RedeemConflict, RedeemWrite,
                RedeemFault, Overwritten, Typed, Shape, Redeeming
  <2>2. CASE req[c].key = k
    <3>1. /\ store'[k] = Transformed(seen[c], outcome[c])
          /\ seen[c] \in Record \cup {None}
          /\ outcome[c] = "ok" => seen[c] # None /\ seen[c].left # 0
          /\ outcome[c] \in Outcomes
      BY <2>1, <2>2 DEF Typed, TypesButPast, Shape, Outcomes
    <3>2. \E rec \in Record \cup {None}, u \in Outcomes :
            /\ rec = seen[c]
            /\ u = "ok" => rec # None /\ rec.left # 0
            /\ store'[k] = Transformed(rec, u)
      BY <3>1
    <3>3. QED
      BY <2>1, <2>2, <3>2 DEF Rewritten, Redeeming
  <2>3. CASE req[c].key # k
    BY <2>1, <2>3 DEF Typed, TypesButPast
  <2>4. QED
    BY <2>2, <2>3
<1>4. QED
  BY <1>1, <1>2, <1>3

LEMMA OthersStore ==
  ASSUME Typed, NEW k \in Calls,
         \/ \E c \in Calls : Arrive(c) \/ Serve(c)
         \/ OperatorStep
         \/ \E j \in Calls : Expire(j) \/ Sweep(j)
         \/ \E i \in Instances : Restart(i)
         \/ UNCHANGED vars
  PROVE  store'[k] \in {store[k], None}
<1>1. \/ store' = store
      \/ store' = [j \in Calls |-> None]
      \/ \E j : store' = [store EXCEPT ![j] = None]
  BY DEF Arrive, Serve, ServeReturns, ServeThrows, OperatorStep, Revoke,
         RevokeLookup, RevokeDelete, RevokeFault, List, ListLookup, ListPrune,
         Expire, Sweep, Restart, vars
<1>2. QED
  BY <1>1 DEF Typed, TypesButPast

LEMMA StoreStep ==
  ASSUME Typed, [Next]_vars, NEW k \in Calls
  PROVE  \/ store'[k] \in {store[k], None}
         \/ Rewritten(k)
         \/ /\ pc[k] \in {"put", "put2"}
            /\ store'[k] \in {FreshRecord(k), Decrement(FreshRecord(k))}
<1>1. ASSUME NEW c \in Calls, Pay(c)
      PROVE  \/ store'[k] = store[k]
             \/ /\ pc[k] \in {"put", "put2"}
                /\ store'[k] \in {FreshRecord(k), Decrement(FreshRecord(k))}
  <2>1. \/ store' = store
        \/ /\ pc[c] \in {"put", "put2"}
           /\ \E rec \in {FreshRecord(c), Decrement(FreshRecord(c))} :
                store' = [store EXCEPT ![c] = rec]
    BY <1>1 DEF Pay, ChargeRefused, ChargeThrows, ChargeSettles, WorkReturns,
                WorkThrows, PutRecord, PutDecremented, PutFault
  <2>2. QED
    BY <2>1 DEF Typed, TypesButPast
<1>2. QED
  BY <1>1, RedeemStore, OthersStore, Steps DEF RedeemStep, ServeStep, PayStep

\* The transform of a redemption decides on the record it reads, and that is
\* what the call remembers.
Decided(c) ==
  /\ pc[c] = "redeem"
  /\ seen'[c] = store[req[c].key] \/ seen'[c] \in Readable(req[c].key)
  /\ outcome'[c] = Verdict(seen'[c], req[c])

LEMMA SeenStep ==
  ASSUME Typed, [Next]_vars, NEW c \in Calls
  PROVE  \/ seen'[c] = seen[c] /\ outcome'[c] = outcome[c]
         \/ seen'[c] = seen[c] /\ outcome'[c] = "error" /\ pc[c] \in Redeeming
         \/ Decided(c)
<1> DEFINE Goal == \/ seen'[c] = seen[c] /\ outcome'[c] = outcome[c]
                   \/ /\ seen'[c] = seen[c] /\ outcome'[c] = "error"
                      /\ pc[c] \in Redeeming
                   \/ Decided(c)
<1> USE DEF Typed, TypesButPast
<1>1. ASSUME NEW d \in Calls, Redeem(d) PROVE Goal
  <2>1. CASE RedeemInMemory(d) \/ RedeemRead(d)
    <3>1. /\ pc[d] = "redeem"
          /\ \E rec : /\ rec = store[req[d].key] \/ rec \in Readable(req[d].key)
                      /\ seen' = [seen EXCEPT ![d] = rec]
                      /\ outcome' = [outcome EXCEPT ![d] = Verdict(rec, req[d])]
      BY <2>1 DEF RedeemInMemory, RedeemRead, Redeemed
    <3>2. QED
      BY <3>1 DEF Decided
  <2>2. CASE ~(RedeemInMemory(d) \/ RedeemRead(d))
    <3>1. /\ pc[d] \in Redeeming
          /\ seen' = seen
          /\ outcome' \in {[outcome EXCEPT ![d] = outcome[d]], outcome,
                           [outcome EXCEPT ![d] = "error"]}
      BY <1>1, <2>2 DEF Redeem, RedeemSwap, RedeemConflict, RedeemWrite,
                        RedeemFault, Redeemed, RedeemThrows, Redeeming
    <3>2. QED
      BY <3>1
  <2>3. QED
    BY <2>1, <2>2
<1>2. ASSUME \/ \E d \in Calls : Arrive(d) \/ Serve(d) \/ Pay(d)
             \/ OperatorStep
             \/ \E k \in Calls : Expire(k) \/ Sweep(k)
             \/ UNCHANGED vars
      PROVE  Goal
  <2>1. seen' = seen /\ outcome' = outcome
    BY <1>2 DEF Arrive, Serve, ServeReturns, ServeThrows, Pay, ChargeRefused,
       ChargeThrows, ChargeSettles, WorkReturns, WorkThrows, PutRecord,
       PutDecremented, PutFault, OperatorStep, Revoke, RevokeLookup, RevokeDelete,
       RevokeFault, List, ListLookup, ListPrune, Expire, Sweep, vars
  <2>2. QED
    BY <2>1
<1>3. ASSUME NEW i \in Instances, Restart(i) PROVE Goal
  BY <1>3 DEF Restart
<1>4. QED
  BY <1>1, <1>2, <1>3, Steps DEF RedeemStep, ServeStep, PayStep

-----------------------------------------------------------------------------
(* Who has paid, and who holds a key.                                      *)

\* A key that is presented has been handed to the call that paid for it, and
\* only a call that has paid is minting one.
Holders ==
  /\ \A c \in Calls : pc[c] # "idle" /\ req[c].key # None => Delivered(req[c].key)
  /\ \A c \in Calls : pc[c] \in {"work", "put", "put2"} => c \in settled
  /\ \A c \in settled : pc[c] \in {"work", "put", "put2", "done", "failed", "lost"}
  /\ \A c \in Calls : outcome[c] # "none" => pc[c] # "idle" /\ req[c].key \in Calls

LEMMA InitHolders == Init => Holders
BY DEF Init, Holders

LEMMA NextHolders ==
  ASSUME Typed, Holders, [Next]_vars
  PROVE  Holders'
<1> USE DEF Holders
<1>1. ASSUME NEW c \in Calls, pc'[c] # "idle", req'[c].key # None
      PROVE  req'[c].key \in settled' /\ pc'[req'[c].key] = "done"
  <2>1. \A k \in Calls : Delivered(k) => Delivered(k)'
    BY Frame DEF Delivered
  <2>2. req'[c].key \in Calls /\ Delivered(req'[c].key)
    <3>1. CASE pc[c] = "idle"
      <4>1. \E r \in Request : req'[c] = r /\ (r.key = None \/ Delivered(r.key))
        BY <1>1, <3>1, Frame DEF Arrive, Typed, TypesButPast
      <4>2. QED
        BY <1>1, <4>1 DEF Request
    <3>2. CASE pc[c] # "idle"
      BY <1>1, <3>2, Frame DEF Kept, Typed, Shape, Request
    <3>3. QED
      BY <3>1, <3>2
  <2>3. QED
    BY <2>1, <2>2 DEF Delivered
<1>2. ASSUME NEW c \in Calls
      PROVE  /\ pc'[c] \in {"work", "put", "put2"} => c \in settled'
             /\ c \in settled' =>
                  pc'[c] \in {"work", "put", "put2", "done", "failed", "lost"}
  <2>1. CASE \E d \in Calls : Pay(d)
    <3>1. PICK d \in Calls : Pay(d)
      BY <2>1
    <3>2. /\ settled' \subseteq settled \cup {d}
          /\ \E l \in {"paywall", "failed", "work", "put", "put2", "done"} :
               /\ pc' = [pc EXCEPT ![d] = l]
               /\ l \in {"work", "put", "put2"} => d \in settled'
               /\ d \in settled' => l # "paywall"
      <4>1. pc[d] = "charge" => d \notin settled
        OBVIOUS
      <4> QED
      BY <3>1, <4>1 DEF Pay, ChargeRefused, ChargeThrows, ChargeSettles, WorkReturns,
         WorkThrows, PutRecord, PutDecremented, PutFault, FinishPaid, Fail, Goto
    <3>3. settled \subseteq settled'
      BY Frame
    <3>4. QED
      BY <3>2, <3>3 DEF Typed, TypesButPast
  <2>2. CASE ~\E d \in Calls : Pay(d)
    <3>1. /\ settled' = settled
          /\ \/ pc'[c] = pc[c]
             \/ pc'[c] = "lost"
             \/ /\ pc[c] \in {"idle", "redeem", "swap", "serve"}
                /\ pc'[c] \notin {"work", "put", "put2"}
      <4>1. CASE \E d \in Calls : Arrive(d)
        BY <4>1 DEF Arrive, Goto, PayEntry, Typed, TypesButPast
      <4>2. CASE \E d \in Calls : Redeem(d)
        BY <4>2 DEF Redeem, RedeemInMemory, RedeemRead, RedeemSwap, RedeemConflict,
           RedeemWrite, RedeemFault, Redeemed, RedeemThrows, Fail, Goto, PayEntry,
           Redeeming, Typed, TypesButPast
      <4>3. CASE \E d \in Calls : Serve(d)
        BY <4>3 DEF Serve, ServeReturns, ServeThrows, Fail, Goto, Typed, TypesButPast
      <4>4. CASE OperatorStep \/ UNCHANGED vars \/ \E k \in Calls : Expire(k) \/ Sweep(k)
        BY <4>4 DEF OperatorStep, Revoke, RevokeLookup, RevokeDelete, RevokeFault,
           List, ListLookup, ListPrune, Expire, Sweep, vars
      <4>5. CASE \E i \in Instances : Restart(i)
        BY <4>5 DEF Restart
      <4>6. QED
        BY <2>2, <4>1, <4>2, <4>3, <4>4, <4>5, Steps DEF RedeemStep, ServeStep, PayStep
    <3>2. QED
      BY <3>1
  <2>3. QED
    BY <2>1, <2>2
<1>3. ASSUME NEW c \in Calls, outcome'[c] # "none"
      PROVE  pc'[c] # "idle" /\ req'[c].key \in Calls
  <2>1. pc[c] # "idle" /\ req[c].key \in Calls
    BY <1>3, SeenStep DEF Decided, Redeeming, Typed, Shape
  <2>2. QED
    BY <2>1, Frame DEF Kept
<1>4. settled' \subseteq Calls
  BY NextTyped DEF Typed, TypesButPast
<1>5. QED
  BY <1>1, <1>2, <1>3, <1>4 DEF Delivered

-----------------------------------------------------------------------------
(* Every record is a receipt of its purchase.                              *)

Matches(rec, k) ==
  /\ k \in settled
  /\ rec.tool = req[k].tool
  /\ rec.boundTo = FreshRecord(k).boundTo
  /\ rec.left = None <=> Cap(k) = None

\* What an accepting transform has checked of the request.
Honoured(c) ==
  /\ seen[c] # None
  /\ seen[c].tool = req[c].tool
  /\ seen[c].boundTo = IF Binding[req[c].inst] = "wallet" THEN req[c].wallet ELSE None

Genuine ==
  /\ \A k \in Calls : store[k] # None => Matches(store[k], k)
  /\ \A k \in Calls : \A rec \in past[k] : rec # None => Matches(rec, k)
  /\ \A c \in Calls : seen[c] # None => req[c].key \in Calls /\ Matches(seen[c], req[c].key)
  /\ \A c \in Calls : outcome[c] = "ok" => Honoured(c)

LEMMA MatchesFresh ==
  ASSUME Typed, NEW k \in settled, req[k] \in Request
  PROVE  Matches(FreshRecord(k), k) /\ Matches(Decrement(FreshRecord(k)), k)
<1>1. FreshRecord(k) \in Record /\ FreshRecord(k).left # 0
  BY FreshRecordType DEF Typed, TypesButPast
<1>2. Decrement(FreshRecord(k)).left = None <=> FreshRecord(k).left = None
  BY <1>1, PricingAssumption DEF Decrement, Record
<1>3. QED
  BY <1>1, <1>2 DEF Matches, FreshRecord, Decrement, Cap, Record

LEMMA MatchesTransformed ==
  ASSUME NEW k \in Calls, NEW rec \in Record, NEW o, Matches(rec, k),
         o = "ok" => rec.left # 0
  PROVE  Matches(Transformed(rec, o), k)
<1>1. rec.left # 0 => (Decrement(rec).left = None <=> rec.left = None)
  BY PricingAssumption DEF Decrement, Record
<1>2. QED
  BY <1>1 DEF Transformed, Decrement, Matches, Record

LEMMA VerdictHonours ==
  ASSUME NEW rec, NEW r, Verdict(rec, r) = "ok"
  PROVE  /\ rec # None
         /\ rec.tool = r.tool
         /\ rec.boundTo = IF Binding[r.inst] = "wallet" THEN r.wallet ELSE None
BY DEF Verdict

\* A purchase is fixed, so what matched it still does.
LEMMA MatchesStays ==
  ASSUME Typed, Holders, [Next]_vars, NEW k \in Calls, NEW rec, Matches(rec, k)
  PROVE  /\ k \in settled' /\ req'[k] = req[k]
         /\ rec.tool = req'[k].tool
         /\ rec.boundTo = FreshRecord(k)'.boundTo
         /\ rec.left = None <=> Cap(k)' = None
<1>1. k \in settled' /\ req'[k] = req[k]
  BY Frame DEF Matches, Kept, Holders
<1>2. QED
  BY <1>1 DEF Matches, FreshRecord, Cap

LEMMA InitGenuine == Init => Genuine
BY DEF Init, Genuine

LEMMA NextGenuine ==
  ASSUME Typed, Holders, Genuine, [Next]_vars
  PROVE  Genuine'
<1>1. ASSUME NEW k \in Calls, store'[k] # None
      PROVE  \E rec : rec = store'[k] /\ Matches(rec, k)
  <2>1. CASE store'[k] \in {store[k], None}
    BY <1>1, <2>1 DEF Genuine
  <2>2. CASE Rewritten(k)
    <3>1. PICK c \in Calls, rec \in Record \cup {None}, o \in Outcomes :
            /\ pc[c] \in Redeeming /\ req[c].key = k
            /\ rec = seen[c] \/ rec = store[k]
            /\ o = "ok" => rec # None /\ rec.left # 0
            /\ store'[k] = Transformed(rec, o)
      BY <2>2 DEF Rewritten
    <3>2. rec # None
      BY <1>1, <3>1 DEF Transformed
    <3>3. Matches(rec, k)
      BY <3>1, <3>2 DEF Genuine
    <3>4. QED
      BY <3>1, <3>2, <3>3, MatchesTransformed
  <2>3. CASE /\ pc[k] \in {"put", "put2"}
             /\ store'[k] \in {FreshRecord(k), Decrement(FreshRecord(k))}
    <3>1. k \in settled /\ req[k] \in Request
      BY <2>3 DEF Holders, Typed, Shape
    <3>2. QED
      BY <2>3, <3>1, MatchesFresh
  <2>4. QED
    BY <2>1, <2>2, <2>3, StoreStep
<1>2. ASSUME NEW c \in Calls, seen'[c] # None
      PROVE  /\ req[c].key \in Calls /\ req'[c] = req[c]
             /\ \E rec : rec = seen'[c] /\ Matches(rec, req[c].key)
  <2>1. req[c].key \in Calls /\ Matches(seen'[c], req[c].key)
    <3>1. CASE seen'[c] = seen[c]
      BY <1>2, <3>1 DEF Genuine
    <3>2. CASE Decided(c)
      <4>1. req[c].key \in Calls
        BY <3>2 DEF Decided, Typed, Shape, Redeeming
      <4>2. seen'[c] = store[req[c].key] \/ seen'[c] \in past[req[c].key]
        BY <3>2 DEF Decided, Readable
      <4>3. QED
        BY <1>2, <4>1, <4>2 DEF Genuine
    <3>3. QED
      BY <3>1, <3>2, SeenStep
  <2>2. pc[c] # "idle"
    BY <1>2, SeenStep DEF Decided, Typed, Shape, Redeeming
  <2>3. QED
    BY <2>1, <2>2, Frame DEF Kept
<1>3. ASSUME NEW c \in Calls, outcome'[c] = "ok"
      PROVE  /\ seen'[c] # None /\ req'[c] = req[c]
             /\ seen'[c].tool = req[c].tool
             /\ seen'[c].boundTo =
                  IF Binding[req[c].inst] = "wallet" THEN req[c].wallet ELSE None
  <2>1. CASE seen'[c] = seen[c] /\ outcome'[c] = outcome[c]
    BY <1>3, <2>1, Frame DEF Genuine, Honoured, Holders, Kept
  <2>2. CASE Decided(c)
    BY <1>3, <2>2, VerdictHonours, Frame DEF Decided, Kept
  <2>3. QED
    BY <1>3, <2>1, <2>2, SeenStep
<1>4. ASSUME NEW k \in Calls, store'[k] # None
      PROVE  Matches(store[k], k)'
  <2>1. PICK rec : rec = store'[k] /\ Matches(rec, k)
    BY <1>1, <1>4
  <2>2. QED
    BY <2>1, MatchesStays DEF Matches
<1>5. ASSUME NEW c \in Calls, seen'[c] # None
      PROVE  req'[c].key \in Calls /\ Matches(seen[c], req[c].key)'
  <2>1. PICK rec : rec = seen'[c] /\ Matches(rec, req[c].key)
    BY <1>2, <1>5
  <2>2. /\ req'[c] = req[c] /\ req[c].key \in Calls
    BY <1>2, <1>5
  <2>3. QED
    BY <2>1, <2>2, MatchesStays DEF Matches, FreshRecord, Cap
<1>6. ASSUME NEW k \in Calls, NEW rec \in past'[k], rec # None
      PROVE  Matches(rec, k)'
  <2>1. rec \in past[k] \/ rec = store'[k]
    BY <1>6 DEF Next, Remember, vars
  <2>2. Matches(rec, k)
    BY <1>1, <1>6, <2>1 DEF Genuine
  <2>3. QED
    BY <2>2, MatchesStays DEF Matches
<1>7. QED
  BY <1>3, <1>4, <1>5, <1>6 DEF Genuine, Honoured

Sound == Typed /\ Holders /\ Genuine

LEMMA AlwaysSound == Spec => []Sound
<1>1. Init => Sound
  BY InitTyped, InitHolders, InitGenuine DEF Sound
<1>2. Sound /\ [Next]_vars => Sound'
  BY NextTyped, NextHolders, NextGenuine DEF Sound
<1>3. QED
  BY <1>1, <1>2, PTL DEF Spec

\* Over every kind of store, however its updates interleave, a call served by a
\* key was paid for, for its own tool and, where keys are bound, by its own
\* wallet: runAccessKey never honours a token that it has not handed to a payer.
THEOREM ServedCallsArePaid == Spec => []GrantsAreEarned
<1>1. ASSUME Sound
      PROVE  GrantsAreEarned
  <2>1. SUFFICES ASSUME NEW c \in Calls, NEW k \in Calls, c \in Grants(k)
                 PROVE  /\ Delivered(k)
                        /\ req[k].tool = req[c].tool
                        /\ Binding[req[k].inst] = Binding[req[c].inst]
                        /\ Binding[req[c].inst] = "wallet" => req[k].wallet = req[c].wallet
    BY DEF GrantsAreEarned
  <2>2. req[c].key = k /\ Honoured(c) /\ Matches(seen[c], k)
    BY <1>1, <2>1 DEF Grants, Sound, Genuine, Honoured
  <2>3. Delivered(k) /\ pc[c] # "idle" /\ pc[k] # "idle"
    BY <1>1, <2>1, <2>2, PricingAssumption DEF Grants, Sound, Holders, Delivered
  <2>4. /\ req[c].inst \in Instances /\ req[c].wallet \in Wallets
        /\ req[k].inst \in Instances /\ req[k].wallet \in Wallets
    BY <1>1, <2>3 DEF Sound, Typed, Shape, Request
  <2>5. req[k].tool = req[c].tool
    BY <2>2 DEF Honoured, Matches
  <2>6. FreshRecord(k).boundTo =
          IF Binding[req[c].inst] = "wallet" THEN req[c].wallet ELSE None
    BY <2>2 DEF Honoured, Matches
  <2>7. FreshRecord(k).boundTo =
          IF Binding[req[k].inst] = "wallet" THEN req[k].wallet ELSE None
    BY DEF FreshRecord
  <2>8. QED
    BY <2>3, <2>4, <2>5, <2>6, <2>7, PricingAssumption, StoreAssumption
<1>2. QED
  BY <1>1, AlwaysSound, PTL

-----------------------------------------------------------------------------
(* The balance of a key over an atomic store.                              *)

\* Before its first put a key has no record; until its buyer has it, it has its
\* whole cap, or the cap less the paying call.
Unspent ==
  /\ \A k \in Calls : pc[k] \in {"work", "put"} => store[k] = None
  /\ \A k \in settled : Cap(k) # None /\ store[k] # None => store[k].left <= Cap(k)
  /\ \A k \in settled :
       Cap(k) # None /\ store[k] # None /\ pc[k] = "put2" => store[k].left = Cap(k)

\* The calls left, the calls served and the call that paid are within the cap.
Balanced ==
  \A k \in settled : Cap(k) # None =>
    /\ Cardinality(Grants(k)) + 1 <= Cap(k)
    /\ Delivered(k) /\ store[k] # None =>
         store[k].left + Cardinality(Grants(k)) + 1 <= Cap(k)

LEMMA NotSettledYet ==
  ASSUME Typed, Holders, NEW k \in Calls, ~Delivered(k)
  PROVE  Grants(k) = {}
BY PricingAssumption DEF Grants, Holders, Typed, TypesButPast

LEMMA InitBalanced == Init => Unspent /\ Balanced
BY DEF Init, Unspent, Balanced

\* The stations of a paying call, with what each leaves in the store.
MintStep(k) ==
  \/ /\ pc[k] = "work" /\ pc'[k] \in {"put", "failed"}
     /\ store'[k] = store[k]
  \/ /\ pc[k] = "put" /\ pc'[k] = "put2"
     /\ store'[k] = FreshRecord(k)
  \/ /\ pc[k] \in {"put", "put2"} /\ pc'[k] = "done"
     /\ store'[k] = Decrement(FreshRecord(k))
  \/ /\ pc[k] = "put" /\ pc'[k] = "failed"
     /\ store'[k] \in {store[k], FreshRecord(k)}
  \/ /\ pc[k] = "put2" /\ pc'[k] = "failed"
     /\ store'[k] \in {store[k], Decrement(FreshRecord(k))}

LEMMA SettledStep ==
  ASSUME Typed, Holders, [Next]_vars, NEW k \in settled
  PROVE  \/ MintStep(k)
         \/ /\ pc'[k] \in {pc[k], "lost"}
            /\ store'[k] \in {store[k], None} \/ Rewritten(k)
<1> DEFINE Goal == \/ MintStep(k)
                   \/ /\ pc'[k] \in {pc[k], "lost"}
                      /\ store'[k] \in {store[k], None} \/ Rewritten(k)
<1>0. k \in Calls /\ pc[k] \in {"work", "put", "put2", "done", "failed", "lost"}
  BY DEF Holders, Typed, TypesButPast
<1>1. ASSUME NEW c \in Calls, Pay(c) PROVE Goal
  <2>1. CASE c = k
    BY <1>0, <1>1, <2>1 DEF MintStep, Pay, ChargeRefused, ChargeThrows, ChargeSettles,
       WorkReturns, WorkThrows, PutRecord, PutDecremented, PutFault, FinishPaid,
       Fail, Goto, Typed, TypesButPast
  <2>2. CASE c # k
    <3>1. \/ store' = store
          \/ \E rec : store' = [store EXCEPT ![c] = rec]
      BY <1>1 DEF Pay, ChargeRefused, ChargeThrows, ChargeSettles,
         WorkReturns, WorkThrows, PutRecord, PutDecremented, PutFault
    <3>2. \E l : pc' = [pc EXCEPT ![c] = l]
      BY <1>1 DEF Pay, ChargeRefused, ChargeThrows, ChargeSettles, WorkReturns,
         WorkThrows, PutRecord, PutDecremented, PutFault, FinishPaid, Fail, Goto
    <3>3. QED
      BY <1>0, <2>2, <3>1, <3>2 DEF Typed, TypesButPast
  <2>3. QED
    BY <2>1, <2>2
<1>2. ASSUME ~\E c \in Calls : Pay(c) PROVE Goal
  <2>1. pc'[k] \in {pc[k], "lost"}
    <3>1. ASSUME NEW c \in Calls, Arrive(c) \/ Redeem(c) \/ Serve(c)
          PROVE  pc'[k] = pc[k]
      <4>1. pc[c] \in {"idle", "redeem", "swap", "serve"}
        BY <3>1 DEF Arrive, Redeem, RedeemInMemory, RedeemRead, RedeemSwap,
           RedeemConflict, RedeemWrite, RedeemFault, Serve, ServeReturns,
           ServeThrows, Redeeming
      <4>2. \E l : pc' = [pc EXCEPT ![c] = l]
        BY <3>1 DEF Arrive, Redeem, RedeemInMemory, RedeemRead, RedeemSwap,
           RedeemConflict, RedeemWrite, RedeemFault, Redeemed, RedeemThrows, Serve,
           ServeReturns, ServeThrows, Fail, Goto
      <4>3. QED
        BY <1>0, <4>1, <4>2 DEF Typed, TypesButPast
    <3>2. CASE OperatorStep \/ UNCHANGED vars \/ \E j \in Calls : Expire(j) \/ Sweep(j)
      BY <3>2 DEF OperatorStep, Revoke, RevokeLookup, RevokeDelete, RevokeFault,
         List, ListLookup, ListPrune, Expire, Sweep, vars
    <3>3. CASE \E i \in Instances : Restart(i)
      BY <1>0, <3>3 DEF Restart
    <3>4. QED
      BY <1>2, <3>1, <3>2, <3>3, Steps DEF RedeemStep, ServeStep, PayStep
  <2>2. store'[k] \in {store[k], None} \/ Rewritten(k)
    BY <1>0, <1>2, RedeemStore, OthersStore, Steps
       DEF RedeemStep, ServeStep, PayStep
  <2>3. QED
    BY <2>1, <2>2
<1>3. QED
  BY <1>1, <1>2

\* Only a key that its buyer holds is redeemed.
LEMMA RewrittenIsDelivered ==
  ASSUME Typed, Holders, NEW k \in Calls, Rewritten(k)
  PROVE  Delivered(k)
BY PricingAssumption DEF Rewritten, Holders, Redeeming

\* Over an atomic store a redemption that accepts takes one call off the record
\* that is there; one that does not leaves it as it is, unless the answer to
\* its write was lost.
Taken(c) ==
  /\ store[req[c].key] # None
  /\ store[req[c].key] \in Record
  /\ store[req[c].key].left # 0
  /\ store' = [store EXCEPT ![req[c].key] = Decrement(store[req[c].key])]

LEMMA RedeemAtomic ==
  ASSUME Typed, NEW c \in Calls, Redeem(c), StoreKind \in {"memory", "upstash"}
  PROVE  /\ req[c].key \in Calls /\ pc[c] \in Redeeming
         /\ \/ Taken(c)
            \/ /\ store' = store
               /\ outcome'[c] = "ok" => pc'[c] \in Redeeming
<1> USE DEF Typed, TypesButPast
<1>1. req[c].key \in Calls /\ pc[c] \in Redeeming
  BY DEF Redeem, RedeemInMemory, RedeemRead, RedeemSwap, RedeemConflict,
         RedeemWrite, RedeemFault, Shape, Redeeming
<1>2. ASSUME NEW rec, NEW o, rec = store[req[c].key],
             o = "ok" => rec # None /\ rec.left # 0,
             store' = [store EXCEPT ![req[c].key] = Transformed(rec, o)]
      PROVE  Taken(c) \/ (o # "ok" /\ store' = store)
  BY <1>1, <1>2 DEF Taken, Transformed
<1>3. CASE RedeemInMemory(c)
  <2> DEFINE o == Verdict(store[req[c].key], req[c])
  <2>1. o = "ok" => store[req[c].key] # None /\ store[req[c].key].left # 0
    BY VerdictType
  <2>2. store' = [store EXCEPT ![req[c].key] = Transformed(store[req[c].key], o)]
    BY <1>3 DEF RedeemInMemory
  <2>3. outcome'[c] = o
    BY <1>3 DEF RedeemInMemory, Redeemed
  <2> HIDE DEF o
  <2>4. QED
    BY <1>1, <1>2, <2>1, <2>2, <2>3
<1>4. CASE RedeemRead(c) \/ RedeemConflict(c)
  BY <1>1, <1>4 DEF RedeemRead, RedeemConflict, RedeemThrows, Fail, Goto, Redeeming
<1>5. CASE RedeemSwap(c) \/ RedeemFault(c)
  <2>1. \/ store' = store
        \/ /\ pc[c] = "swap" /\ seen[c] = store[req[c].key]
           /\ store' = [store EXCEPT ![req[c].key] = Transformed(seen[c], outcome[c])]
    BY <1>5 DEF RedeemSwap, RedeemFault, Overwritten
  <2>2. /\ RedeemSwap(c) => pc[c] = "swap" /\ seen[c] = store[req[c].key]
        /\ RedeemSwap(c) => outcome'[c] = outcome[c]
        /\ RedeemFault(c) => outcome'[c] = "error"
        /\ RedeemSwap(c) =>
             store' = [store EXCEPT ![req[c].key] = Transformed(seen[c], outcome[c])]
    BY DEF RedeemSwap, RedeemFault, Redeemed, RedeemThrows
  <2>3. pc[c] = "swap" /\ outcome[c] = "ok" => seen[c] # None /\ seen[c].left # 0
    BY DEF Shape
  <2>4. CASE RedeemSwap(c)
    BY <1>1, <1>2, <2>2, <2>3, <2>4
  <2>5. CASE RedeemFault(c)
    BY <1>1, <1>2, <2>1, <2>2, <2>3, <2>5
  <2>6. QED
    BY <1>5, <2>4, <2>5
<1>6. QED
  BY <1>3, <1>4, <1>5 DEF Redeem, RedeemWrite

LEMMA RewrittenDecrements ==
  ASSUME Typed, NEW k \in Calls, Rewritten(k), StoreKind \in {"memory", "upstash"}
  PROVE  \/ store'[k] = store[k]
         \/ /\ store[k] # None /\ store[k] \in Record /\ store[k].left # 0
            /\ store'[k] = Decrement(store[k])
BY RedeemAtomic DEF Rewritten, Taken, Typed, TypesButPast

LEMMA DecrementLeft ==
  ASSUME NEW rec \in Record, rec.left # 0
  PROVE  /\ rec.left = None => Decrement(rec).left = None
         /\ rec.left # None => /\ rec.left \in Nat \ {0}
                               /\ Decrement(rec).left = rec.left - 1
BY PricingAssumption DEF Decrement, Record

LEMMA NextUnspent ==
  ASSUME Typed, Holders, Genuine, Unspent, StoreKind \in {"memory", "upstash"}, [Next]_vars
  PROVE  Unspent'
<1>1. ASSUME NEW k \in Calls, pc'[k] \in {"work", "put"}
      PROVE  store'[k] = None
  <2>1. CASE k \in settled
    <3>1. ~Rewritten(k)
      BY <1>1, RewrittenIsDelivered, Frame DEF Delivered
    <3>2. QED
      BY <2>1, <1>1, <3>1, SettledStep DEF MintStep, Unspent, Holders
  <2>2. CASE k \notin settled
    <3>1. store[k] = None /\ pc[k] \notin {"put", "put2"} /\ ~Delivered(k)
      BY <2>2 DEF Genuine, Matches, Holders, Delivered
    <3>2. QED
      BY <3>1, StoreStep, RewrittenIsDelivered
  <2>3. QED
    BY <2>1, <2>2
<1>2. ASSUME NEW k \in settled, Cap(k) # None, store'[k] # None
      PROVE  /\ store'[k].left <= Cap(k)
             /\ pc'[k] = "put2" => store'[k].left = Cap(k)
  <2>1. k \in Calls /\ pc[k] # "idle" /\ req[k] \in Request /\ FreshRecord(k).left = Cap(k)
    BY DEF Holders, Typed, TypesButPast, Shape, FreshRecord, Cap
  <2>2. /\ FreshRecord(k) \in Record /\ FreshRecord(k).left # 0
        /\ Cap(k) \in Nat \ {0}
        /\ Decrement(FreshRecord(k)).left = Cap(k) - 1
    BY <1>2, <2>1, FreshRecordType, DecrementLeft DEF Typed, TypesButPast
  <2>3. store[k] # None => store[k] \in Record /\ store[k].left \in Nat /\ store[k].left <= Cap(k)
    BY <1>2, <2>1 DEF Unspent, Genuine, Matches, Typed, TypesButPast, Record
  <2>4. CASE MintStep(k)
    <3>1. store'[k] \in {store[k], FreshRecord(k), Decrement(FreshRecord(k))}
      BY <2>4 DEF MintStep
    <3>2. store'[k].left \in {store[k].left, Cap(k), Cap(k) - 1}
      BY <2>1, <2>2, <3>1
    <3>3. store'[k] = store[k] => store[k] # None
      BY <1>2
    <3>4. pc'[k] = "put2" => store'[k] = FreshRecord(k)
      BY <2>4 DEF MintStep
    <3>5. store'[k].left <= Cap(k)
      BY <2>1, <2>2, <2>3, <3>1, <3>3
    <3>6. QED
      BY <2>1, <3>4, <3>5
  <2>5. CASE /\ pc'[k] \in {pc[k], "lost"}
             /\ store'[k] \in {store[k], None}
    BY <1>2, <2>3, <2>5 DEF Unspent
  <2>6. CASE /\ pc'[k] \in {pc[k], "lost"}
             /\ Rewritten(k)
    <3>1. pc'[k] = "done"
      BY <2>1, <2>6, RewrittenIsDelivered, Frame DEF Delivered
    <3>2. store[k] # None /\ store'[k].left \in {store[k].left, store[k].left - 1}
      <4>1. store[k] # None
        BY <1>2, <2>1, <2>6, RewrittenDecrements
      <4>2. store[k] \in Record /\ store[k].left # None
        BY <1>2, <2>1, <4>1 DEF Genuine, Matches, Typed, TypesButPast
      <4>3. QED
        BY <2>1, <2>6, <4>1, <4>2, RewrittenDecrements, DecrementLeft
    <3>3. QED
      BY <2>2, <2>3, <3>1, <3>2
  <2>7. QED
    BY <2>4, <2>5, <2>6, SettledStep
<1>3. ASSUME NEW k \in settled', store'[k] # None
      PROVE  k \in settled /\ Cap(k)' = Cap(k)
  <2>1. k \in settled
    <3>1. CASE k \notin settled
      <4>1. k \in Calls /\ store[k] = None /\ pc[k] \notin {"put", "put2"} /\ ~Delivered(k)
        BY <3>1, NextTyped DEF Genuine, Matches, Holders, Delivered, Typed, TypesButPast
      <4>2. QED
        BY <1>3, <4>1, StoreStep, RewrittenIsDelivered
    <3>2. QED
      BY <3>1
  <2>2. QED
    BY <2>1, Frame DEF Kept, Holders, Typed, TypesButPast, Cap
<1>4. QED
  BY <1>1, <1>2, <1>3 DEF Unspent

Granted(d) == req[d] # None /\ outcome[d] = "ok" /\ pc[d] \notin Redeeming

\* No step but a call's own redemption makes it a served call, and none
\* unmakes it.
LEMMA GrantedStep ==
  ASSUME Typed, Holders, [Next]_vars, NEW d \in Calls
  PROVE  /\ Granted(d) => Granted(d)' /\ req'[d] = req[d]
         /\ ~Granted(d) /\ Granted(d)' => Redeem(d) /\ req'[d] = req[d]
<1>1. CASE Redeem(d)
  <2>1. pc[d] \in Redeeming /\ req' = req
    BY <1>1 DEF Redeem, RedeemInMemory, RedeemRead, RedeemSwap,
       RedeemConflict, RedeemWrite, RedeemFault, Redeeming
  <2>2. QED
    BY <1>1, <2>1 DEF Granted
<1>2. CASE ~Redeem(d)
  <2>1. ASSUME NEW c \in Calls, c # d, Arrive(c) \/ Redeem(c) \/ Serve(c) \/ Pay(c)
        PROVE  (Granted(d)' <=> Granted(d)) /\ req'[d] = req[d]
    <3>1. \E l : pc' = [pc EXCEPT ![c] = l]
      BY <2>1 DEF Arrive, Redeem, RedeemInMemory, RedeemRead, RedeemSwap,
         RedeemConflict, RedeemWrite, RedeemFault, Redeemed, RedeemThrows, Serve,
         ServeReturns, ServeThrows, Pay, ChargeRefused, ChargeThrows, ChargeSettles,
         WorkReturns, WorkThrows, PutRecord, PutDecremented, PutFault, FinishPaid,
         Fail, Goto
    <3>2. req' = req \/ \E r : req' = [req EXCEPT ![c] = r]
      BY <2>1 DEF Arrive, Redeem, RedeemInMemory, RedeemRead, RedeemSwap,
         RedeemConflict, RedeemWrite, RedeemFault, Serve, ServeReturns,
         ServeThrows, Pay, ChargeRefused, ChargeThrows, ChargeSettles,
         WorkReturns, WorkThrows, PutRecord, PutDecremented, PutFault
    <3>3. outcome' = outcome \/ \E o : outcome' = [outcome EXCEPT ![c] = o]
      BY <2>1 DEF Arrive, Redeem, RedeemInMemory, RedeemRead, RedeemSwap,
         RedeemConflict, RedeemWrite, RedeemFault, Redeemed, RedeemThrows, Serve,
         ServeReturns, ServeThrows, Pay, ChargeRefused, ChargeThrows, ChargeSettles,
         WorkReturns, WorkThrows, PutRecord, PutDecremented, PutFault
    <3>4. QED
      BY <2>1, <3>1, <3>2, <3>3 DEF Granted, Typed, TypesButPast
  <2>2. CASE Arrive(d)
    <3>1. outcome[d] = "none" /\ outcome' = outcome
      BY <2>2 DEF Arrive, Typed, Shape
    <3>2. QED
      BY <3>1 DEF Granted
  <2>3. CASE Serve(d) \/ Pay(d)
    <3>1. /\ pc[d] \notin Redeeming /\ outcome' = outcome /\ req' = req
          /\ \E l \in Ended \cup {"work", "put", "put2"} : pc' = [pc EXCEPT ![d] = l]
      BY <2>3 DEF Serve, ServeReturns, ServeThrows, Pay, ChargeRefused, ChargeThrows,
         ChargeSettles, WorkReturns, WorkThrows, PutRecord, PutDecremented, PutFault,
         FinishPaid, Fail, Goto, Redeeming, Ended
    <3>2. QED
      BY <3>1 DEF Granted, Typed, TypesButPast, Ended, Redeeming
  <2>4. CASE OperatorStep \/ UNCHANGED vars \/ \E k \in Calls : Expire(k) \/ Sweep(k)
    <3>1. pc' = pc /\ outcome' = outcome /\ req' = req
      BY <2>4 DEF OperatorStep, Revoke, RevokeLookup, RevokeDelete, RevokeFault,
         List, ListLookup, ListPrune, Expire, Sweep, vars
    <3>2. QED
      BY <3>1 DEF Granted
  <2>5. CASE \E i \in Instances : Restart(i)
    BY <2>5 DEF Restart, Granted, Redeeming
  <2>6. QED
    BY <1>2, <2>1, <2>2, <2>3, <2>4, <2>5, Steps DEF RedeemStep, ServeStep, PayStep
<1>3. QED
  BY <1>1, <1>2

LEMMA GrantsAre ==
  ASSUME NEW k \in Calls
  PROVE  Grants(k) = {d \in Calls : Granted(d) /\ req[d].key = k}
BY DEF Grants, Granted

\* One call moves in a step.
LEMMA RedeemOnce ==
  ASSUME Typed, NEW c \in Calls, NEW d \in Calls, d # c, Redeem(c), Redeem(d)
  PROVE  ~Granted(d)'
<1>1. pc[d] \in Redeeming
  BY DEF Redeem, RedeemInMemory, RedeemRead, RedeemSwap, RedeemConflict,
     RedeemWrite, RedeemFault, Redeeming
<1>2. \E l : pc' = [pc EXCEPT ![c] = l]
  BY DEF Redeem, RedeemInMemory, RedeemRead, RedeemSwap, RedeemConflict,
     RedeemWrite, RedeemFault, Redeemed, RedeemThrows, Fail, Goto
<1>3. QED
  BY <1>1, <1>2 DEF Granted, Typed, TypesButPast

LEMMA GrantsStep ==
  ASSUME Typed, Holders, [Next]_vars, NEW k \in Calls
  PROVE  \/ Grants(k)' = Grants(k)
         \/ \E c \in Calls : /\ Redeem(c) /\ req[c].key = k /\ c \notin Grants(k)
                           /\ Granted(c)' /\ Grants(k)' = Grants(k) \cup {c}
<1>1. Grants(k) = {d \in Calls : Granted(d) /\ req[d].key = k}
  BY GrantsAre
<1>2. Grants(k)' = {d \in Calls : Granted(d)' /\ req'[d].key = k}
  BY DEF Grants, Granted
<1>3. CASE \E c \in Calls : Redeem(c) /\ ~Granted(c) /\ Granted(c)' /\ req[c].key = k
  <2>1. PICK c \in Calls : Redeem(c) /\ ~Granted(c) /\ Granted(c)' /\ req[c].key = k
    BY <1>3
  <2>2. ASSUME NEW d \in Calls, d # c, Redeem(d)
        PROVE  ~Granted(d)'
    BY <2>1, <2>2, RedeemOnce
  <2>3. \A d \in Calls : d # c =>
          (Granted(d)' /\ req'[d].key = k <=> Granted(d) /\ req[d].key = k)
    BY <2>2, GrantedStep
  <2>4. req'[c].key = k
    BY <2>1, GrantedStep
  <2>5. QED
    BY <1>1, <1>2, <2>1, <2>3, <2>4
<1>4. CASE ~\E c \in Calls : Redeem(c) /\ ~Granted(c) /\ Granted(c)' /\ req[c].key = k
  <2>1. \A d \in Calls : (Granted(d)' /\ req'[d].key = k <=> Granted(d) /\ req[d].key = k)
    BY <1>4, GrantedStep
  <2>2. QED
    BY <1>1, <1>2, <2>1
<1>5. QED
  BY <1>3, <1>4

LEMMA GrantsCount ==
  ASSUME NEW k \in Calls
  PROVE  /\ IsFiniteSet(Grants(k)) /\ Cardinality(Grants(k)) \in Nat
         /\ \A c \in Calls \ Grants(k) :
              Cardinality(Grants(k) \cup {c}) = Cardinality(Grants(k)) + 1
<1>1. IsFiniteSet(Grants(k))
  BY CallsAssumption, FS_Subset DEF Grants
<1>2. QED
  BY <1>1, FS_CardinalityType, FS_AddElement

\* When the buyer gets the key, the paying call has been taken off it.
LEMMA DeliveryStep ==
  ASSUME Typed, Holders, [Next]_vars, NEW k \in Calls, ~Delivered(k), Delivered(k)'
  PROVE  /\ k \in settled /\ req[k] \in Request
         /\ store'[k] = Decrement(FreshRecord(k))
         /\ Grants(k)' = {}
<1>2. Typed' /\ Holders'
  BY NextTyped, NextHolders
<1>3. k \in settled
  <2>1. CASE k \notin settled
    <3>1. ~MintStep(k) /\ pc[k] \notin {"work", "put", "put2"}
      BY <2>1 DEF MintStep, Holders
    <3>2. CASE \E c \in Calls : Pay(c)
      <4>1. PICK c \in Calls : Pay(c)
        BY <3>2
      <4>2. /\ settled' # settled => /\ pc[c] = "charge" /\ settled' = settled \cup {c}
                                    /\ \E l \in {"failed", "work"} : pc' = [pc EXCEPT ![c] = l]
        BY <4>1 DEF Pay, ChargeRefused, ChargeThrows, ChargeSettles, WorkReturns,
           WorkThrows, PutRecord, PutDecremented, PutFault, Fail, Goto
      <4>3. QED
        BY <2>1, <4>2 DEF Delivered, Typed, TypesButPast
    <3>3. CASE ~\E c \in Calls : Pay(c)
      <4>1. settled' = settled
        BY <3>3, Steps DEF RedeemStep, ServeStep, PayStep, OperatorStep, Arrive,
           Redeem, RedeemInMemory, RedeemRead, RedeemSwap, RedeemConflict,
           RedeemWrite, RedeemFault, Serve, ServeReturns, ServeThrows, Revoke,
           RevokeLookup, RevokeDelete, RevokeFault, List, ListLookup, ListPrune,
           Expire, Sweep, Restart, vars
      <4>2. QED
        BY <2>1, <4>1 DEF Delivered
    <3>4. QED
      BY <3>2, <3>3
  <2>2. QED
    BY <2>1
<1>4. MintStep(k) /\ pc[k] \in {"put", "put2"} /\ store'[k] = Decrement(FreshRecord(k))
  BY <1>3, SettledStep DEF Delivered, MintStep
<1>5. req[k] \in Request
  BY <1>4 DEF Typed, Shape
<1>6. Grants(k)' = {}
  <2>1. Grants(k) = {}
    BY NotSettledYet
  <2>2. ASSUME NEW c \in Calls, Redeem(c), req[c].key = k
        PROVE  FALSE
    <3>1. pc[c] \in Redeeming
      BY <2>2 DEF Redeem, RedeemInMemory, RedeemRead, RedeemSwap, RedeemConflict,
         RedeemWrite, RedeemFault, Redeeming
    <3>2. QED
      BY <2>2, <3>1, PricingAssumption DEF Holders, Redeeming
  <2>3. QED
    BY <2>1, <2>2, GrantsStep
<1>7. QED
  BY <1>3, <1>4, <1>5, <1>6

LEMMA NextBalanced ==
  ASSUME Typed, Holders, Genuine, Unspent, Balanced, StoreKind \in {"memory", "upstash"}, [Next]_vars
  PROVE  Balanced'
<1> SUFFICES ASSUME NEW k \in settled', Cap(k)' # None
             PROVE  /\ Cardinality(Grants(k)') + 1 <= Cap(k)'
                    /\ Delivered(k)' /\ store'[k] # None =>
                         store'[k].left + Cardinality(Grants(k)') + 1 <= Cap(k)'
  BY DEF Balanced
<1>0. k \in Calls /\ Typed' /\ Holders'
  BY NextTyped, NextHolders DEF Typed, TypesButPast
<1>1. CASE Delivered(k)
  <2>1. k \in settled /\ pc[k] = "done" /\ Cap(k)' = Cap(k)
    BY <1>0, <1>1, Frame DEF Delivered, Kept, Cap
  <2>2. Cap(k) \in Nat
    <3>1. req[k] \in Request
      BY <1>0, <2>1 DEF Typed, Shape
    <3>2. QED
      BY <2>1, <3>1, PricingAssumption DEF Cap, Request
  <2>3. /\ Cardinality(Grants(k)) \in Nat /\ Cardinality(Grants(k)) + 1 <= Cap(k)
        /\ store[k] # None =>
             /\ store[k] \in Record /\ store[k].left \in Nat
             /\ store[k].left + Cardinality(Grants(k)) + 1 <= Cap(k)
    BY <1>0, <1>1, <2>1, GrantsCount DEF Balanced, Genuine, Matches, Typed, TypesButPast, Record
  <2>4. CASE \E c \in Calls : Redeem(c) /\ req[c].key = k
    <3>1. PICK c \in Calls : Redeem(c) /\ req[c].key = k
      BY <2>4
    <3>2. CASE Taken(c)
      <4>1. /\ store[k] # None /\ store[k].left \in Nat \ {0}
            /\ store'[k].left = store[k].left - 1
        BY <1>0, <2>3, <3>1, <3>2, DecrementLeft, PricingAssumption
           DEF Taken, Typed, TypesButPast
      <4>2. Cardinality(Grants(k)') \in {Cardinality(Grants(k)), Cardinality(Grants(k)) + 1}
        BY <1>0, GrantsStep, GrantsCount
      <4>3. QED
        BY <2>1, <2>2, <2>3, <4>1, <4>2
    <3>3. CASE store' = store /\ ~Granted(c)'
      <4>1. Grants(k)' = Grants(k)
        BY <1>0, <3>1, <3>3, GrantsStep, RedeemOnce
      <4>2. QED
        BY <1>1, <2>1, <2>3, <3>3, <4>1
    <3>4. QED
      BY <3>1, <3>2, <3>3, RedeemAtomic DEF Granted
  <2>5. CASE ~\E c \in Calls : Redeem(c) /\ req[c].key = k
    <3>1. Grants(k)' = Grants(k)
      BY <1>0, <2>5, GrantsStep
    <3>2. store'[k] \in {store[k], None}
      BY <1>0, <2>1, <2>5, StoreStep DEF Rewritten
    <3>3. QED
      BY <2>1, <2>3, <3>1, <3>2
  <2>6. QED
    BY <2>4, <2>5
<1>2. CASE ~Delivered(k) /\ Delivered(k)'
  <2>1. /\ k \in settled /\ req[k] \in Request
        /\ store'[k] = Decrement(FreshRecord(k)) /\ Grants(k)' = {}
    BY <1>0, <1>2, DeliveryStep
  <2>2. Cap(k)' = Cap(k) /\ FreshRecord(k).left = Cap(k)
    BY <1>0, <2>1, Frame DEF Kept, Holders, Cap, FreshRecord
  <2>3. Cap(k) \in Nat \ {0} /\ Decrement(FreshRecord(k)).left = Cap(k) - 1
    BY <1>0, <2>1, <2>2, FreshRecordType, DecrementLeft DEF Typed, TypesButPast
  <2>4. QED
    BY <2>1, <2>2, <2>3, FS_EmptySet
<1>3. CASE ~Delivered(k)'
  <2>1. Grants(k)' = {}
    <3>1. ASSUME NEW c \in Calls, outcome'[c] = "ok", req'[c].key = k
          PROVE  FALSE
      <4>1. pc'[c] # "idle" /\ k # None
        BY <1>0, <3>1, PricingAssumption DEF Holders
      <4>2. QED
        BY <1>0, <1>3, <3>1, <4>1 DEF Holders, Delivered
    <3>2. QED
      BY <3>1 DEF Grants
  <2>2. Cap(k)' \in Nat \ {0}
    <3>1. req'[k] \in Request
      BY <1>0 DEF Typed, Shape, Holders
    <3>2. QED
      BY <3>1, PricingAssumption DEF Cap, Request
  <2>3. QED
    BY <1>3, <2>1, <2>2, FS_EmptySet
<1>4. QED
  BY <1>1, <1>2, <1>3

AtomicInv == Sound /\ Unspent /\ Balanced

LEMMA AlwaysAtomic ==
  ASSUME StoreKind \in {"memory", "upstash"}
  PROVE  Spec => []AtomicInv
<1>1. Init => AtomicInv
  BY InitTyped, InitHolders, InitGenuine, InitBalanced DEF Sound, AtomicInv
<1>2. AtomicInv /\ [Next]_vars => AtomicInv'
  BY NextTyped, NextHolders, NextGenuine, NextUnspent, NextBalanced
     DEF Sound, AtomicInv
<1>3. QED
  BY <1>1, <1>2, PTL DEF Spec

\* Over a memory or an Upstash store no key ever serves more calls than were
\* sold, for any number of concurrent redemptions, retries, faults, lost
\* answers, sweeps, revocations and crashes: redeem's "exactly remainingCalls
\* of them succeed", as an upper bound.
THEOREM CapsAreKept ==
  ASSUME StoreKind \in {"memory", "upstash"}
  PROVE  Spec => []BudgetRespected
<1>1. AtomicInv => BudgetRespected
  BY DEF AtomicInv, Balanced, BudgetRespected
<1>2. QED
  BY <1>1, AlwaysAtomic, PTL

\* Over such a store a record that is gone is only brought back by the second
\* put of the call that mints it, never by a redemption.
THEOREM RedemptionNeverRevives ==
  ASSUME StoreKind \in {"memory", "upstash"}
  PROVE  Spec => OnlyIssuerRevives
<1>1. ASSUME AtomicInv, [Next]_vars
      PROVE  \A k \in Calls :
               store[k] = None /\ store'[k] # None => pc[k] \in {"put", "put2"}
  BY <1>1, StoreStep, RewrittenDecrements DEF AtomicInv, Sound
<1>2. AtomicInv /\ [Next]_vars =>
        [\A k \in Calls :
           store[k] = None /\ store'[k] # None => pc[k] \in {"put", "put2"}]_vars
  BY <1>1
<1>3. QED
  BY <1>2, AlwaysAtomic, PTL DEF Spec, OnlyIssuerRevives

\* And the calls left on a record never go up while it is there: what is
\* exhausted stays exhausted.
THEOREM ExhaustionIsSticky ==
  ASSUME StoreKind \in {"memory", "upstash"}
  PROVE  Spec => RemainingNeverGrows
<1>1. ASSUME AtomicInv, [Next]_vars,
             NEW k \in Calls, store[k] # None, store'[k] # None, store[k].left # None
      PROVE  store'[k].left # None /\ store'[k].left <= store[k].left
  <2> USE DEF AtomicInv, Sound
  <2>1. /\ k \in settled /\ store[k] \in Record /\ store[k].left \in Nat
        /\ Cap(k) # None /\ req[k] \in Request
    BY <1>1 DEF Genuine, Matches, Typed, TypesButPast, Shape, Record, Holders
  <2>2. CASE store'[k] = store[k]
    BY <2>1, <2>2, PricingAssumption
  <2>3. CASE Rewritten(k)
    BY <1>1, <2>1, <2>3, RewrittenDecrements, DecrementLeft, PricingAssumption
  <2>4. CASE MintStep(k) /\ store'[k] # store[k]
    <3>1. /\ pc[k] = "put2" /\ store'[k] = Decrement(FreshRecord(k))
          /\ store[k].left = Cap(k)
      BY <1>1, <2>1, <2>4 DEF MintStep, Unspent
    <3>2. FreshRecord(k) \in Record /\ FreshRecord(k).left = Cap(k) /\ Cap(k) # 0
      BY <2>1, FreshRecordType DEF FreshRecord, Cap, Typed, TypesButPast
    <3>3. QED
      BY <2>1, <3>1, <3>2, DecrementLeft, PricingAssumption
  <2>5. QED
    BY <1>1, <2>1, <2>2, <2>3, <2>4, SettledStep
<1>2. AtomicInv /\ [Next]_vars =>
        [\A k \in Calls :
           /\ store[k] # None /\ store'[k] # None /\ store[k].left # None
           => store'[k].left # None /\ store'[k].left <= store[k].left]_vars
  BY <1>1
<1>3. QED
  BY <1>2, AlwaysAtomic, PTL DEF Spec, RemainingNeverGrows

-----------------------------------------------------------------------------
(* Listing and revoking over a memory store.                               *)

\* Over a memory store the two puts of a key are one step, so a key that can be listed
\* or handed to an operator is finished: nothing puts it back when it is deleted.
MemoryInv ==
  /\ \A c \in Calls : pc[c] # "put2"
  /\ \A i \in Instances : \A k \in issued[i] \cup pruning[i] : pc[k] = "done"
  /\ \A i \in Instances : \A k \in pruning[i] : store[k] = None
  /\ \A r \in Revokers : admin[r].pc \in {"found", "revoked"} =>
       admin[r].key \in Calls /\ pc[admin[r].key] = "done"
  /\ RevokedIsUnknown
  /\ ListingIsComplete

LEMMA InitMemory == Init => MemoryInv
BY DEF Init, MemoryInv, RevokedIsUnknown, ListingIsComplete, Delivered

\* A finished key stays finished, and gone if it is gone.
LEMMA FinishedStays ==
  ASSUME StoreKind = "memory", AtomicInv, MemoryInv, [Next]_vars, NEW k \in Calls, pc[k] = "done"
  PROVE  /\ pc'[k] = "done" /\ req'[k] = req[k]
         /\ store[k] = None => store'[k] = None
<1>1. pc'[k] = "done" /\ req'[k] = req[k]
  BY Frame DEF AtomicInv, Sound, Kept
<1>2. store[k] = None => store'[k] = None
  BY StoreStep, RewrittenDecrements DEF AtomicInv, Sound
<1> QED
  BY <1>1, <1>2

\* A key is handed over by the step that lists it.
LEMMA DeliveryLists ==
  ASSUME StoreKind = "memory", AtomicInv, MemoryInv, [Next]_vars, NEW k \in Calls,
         Delivered(k)', ~Delivered(k)
  PROVE  PutRecord(k)
<1> USE DEF AtomicInv, Sound, Typed, TypesButPast
<1>1. pc'[k] = "done" /\ k \in settled'
  BY DEF Delivered
<1>2. CASE k \in settled
  <2>1. pc[k] # "done" /\ MintStep(k)
    BY <1>1, <1>2, SettledStep DEF Delivered
  <2>2. pc[k] = "put"
    BY <1>1, <2>1 DEF MintStep, MemoryInv
  <2>3. ASSUME NEW c \in Calls, Arrive(c) \/ Redeem(c) \/ Serve(c)
        PROVE  FALSE
    <3>1. pc[c] \in {"idle", "redeem", "swap", "serve"}
      BY <2>3 DEF Arrive, Redeem, RedeemInMemory, RedeemRead, RedeemSwap,
         RedeemConflict, RedeemWrite, RedeemFault, Serve, ServeReturns, ServeThrows, Redeeming
    <3>2. \E l : pc' = [pc EXCEPT ![c] = l]
      BY <2>3 DEF Arrive, Redeem, RedeemInMemory, RedeemRead, RedeemSwap,
         RedeemConflict, RedeemWrite, RedeemFault, Redeemed, RedeemThrows, Serve,
         ServeReturns, ServeThrows, Fail, Goto
    <3> QED
      BY <1>1, <2>2, <3>1, <3>2
  <2>4. ASSUME NEW c \in Calls, Pay(c)
        PROVE  PutRecord(k)
    <3>1. \E l : pc' = [pc EXCEPT ![c] = l]
      BY <2>4 DEF Pay, ChargeRefused, ChargeThrows, ChargeSettles, WorkReturns,
         WorkThrows, PutRecord, PutDecremented, PutFault, FinishPaid, Fail, Goto
    <3>2. c = k
      BY <1>1, <2>1, <3>1
    <3> QED
      BY <1>1, <2>2, <2>4, <3>2, StoreAssumption
      DEF Pay, ChargeRefused, ChargeThrows, ChargeSettles, WorkReturns, WorkThrows, PutDecremented,
          PutFault
  <2>5. OperatorStep \/ UNCHANGED vars \/ (\E j \in Calls : Expire(j) \/ Sweep(j)) => pc' = pc
    BY DEF OperatorStep, Revoke, RevokeLookup, RevokeDelete, RevokeFault, List, ListLookup,
           ListPrune, Expire, Sweep, vars
  <2>6. (\E i \in Instances : Restart(i)) => pc'[k] \in {pc[k], "lost"}
    BY DEF Restart
  <2> QED
    BY <1>1, <2>1, <2>3, <2>4, <2>5, <2>6, Steps DEF RedeemStep, ServeStep, PayStep
<1>3. CASE k \notin settled
  <2>1. \A c \in Calls : ChargeSettles(c) => pc[c] = "charge" /\ pc'[c] \in {"work", "failed"}
    BY DEF ChargeSettles, Fail, Goto
  <2>2. settled' = settled \/ \E c \in Calls : ChargeSettles(c) /\ settled' = settled \cup {c}
    BY Steps
    DEF Arrive, RedeemStep, Redeem, RedeemInMemory, RedeemRead, RedeemSwap, RedeemConflict,
        RedeemWrite, RedeemFault, ServeStep, Serve, ServeReturns, ServeThrows, PayStep, Pay,
        ChargeRefused, ChargeThrows, ChargeSettles, WorkReturns, WorkThrows, PutRecord, PutDecremented,
        PutFault, OperatorStep, Revoke, RevokeLookup, RevokeDelete, RevokeFault, List, ListLookup,
        ListPrune, Expire, Sweep, Restart, vars
  <2> QED
    BY <1>1, <1>3, <2>1, <2>2
<1> QED
  BY <1>2, <1>3

LEMMA NextMemory ==
  ASSUME StoreKind = "memory", AtomicInv, MemoryInv, AtomicInv', [Next]_vars
  PROVE  MemoryInv'
<1> USE DEF AtomicInv, Sound, Typed, TypesButPast
<1>1. \A k \in Calls : pc[k] = "done" =>
        /\ pc'[k] = "done" /\ req'[k] = req[k]
        /\ store[k] = None => store'[k] = None
  BY FinishedStays
<1>2. \A k \in Calls : Delivered(k)' => Delivered(k) \/ PutRecord(k)
  BY DeliveryLists
<1>3. /\ issued \in [Instances -> SUBSET Calls] /\ pruning \in [Instances -> SUBSET Calls]
      /\ admin \in [Revokers -> Revocation]
      /\ \A c \in Calls : pc[c] # "idle" => req[c].inst \in Instances
      /\ \A i, j \in Instances : i = j
      /\ ~Faults /\ ~Ttl
  BY StoreAssumption DEF Shape, Request
<1>4. \A k \in Calls : PutRecord(k) => pc[k] = "put" /\ pc'[k] = "done"
  BY DEF PutRecord, FinishPaid, Goto
<1>5. \A c \in Calls : pc'[c] # "put2"
  <2>1. ASSUME NEW c \in Calls, Arrive(c) \/ Redeem(c) \/ Serve(c) \/ Pay(c)
        PROVE  \E l : l # "put2" /\ pc' = [pc EXCEPT ![c] = l]
    BY <2>1 DEF Arrive, Redeem, RedeemInMemory, RedeemRead, RedeemSwap,
         RedeemConflict, RedeemWrite, RedeemFault, Redeemed, RedeemThrows, PayEntry, Serve,
         ServeReturns, ServeThrows, Pay, ChargeRefused, ChargeThrows, ChargeSettles, WorkReturns,
         WorkThrows, PutRecord, PutDecremented, PutFault, FinishPaid, Fail, Goto
  <2>2. OperatorStep \/ UNCHANGED vars \/ (\E j \in Calls : Expire(j) \/ Sweep(j)) => pc' = pc
    BY DEF OperatorStep, Revoke, RevokeLookup, RevokeDelete, RevokeFault, List, ListLookup,
           ListPrune, Expire, Sweep, vars
  <2>3. (\E i \in Instances : Restart(i)) => \A c \in Calls : pc'[c] \in {pc[c], "lost"}
    BY DEF Restart
  <2> QED
    BY <2>1, <2>2, <2>3, Steps DEF RedeemStep, ServeStep, PayStep, MemoryInv
<1>6. \* The part about what operators do, from what changed of it.
      ASSUME \A i \in Instances : \A k \in issued'[i] \cup pruning'[i] :
               k \in Calls /\ (pc[k] = "done" \/ PutRecord(k)),
             \A i \in Instances : \A k \in pruning'[i] : pc[k] = "done" /\ store[k] = None,
             \A r \in Revokers : admin'[r].pc \in {"found", "revoked"} =>
               /\ admin'[r].key \in Calls /\ pc[admin'[r].key] = "done"
               /\ admin'[r].pc = "revoked" => store'[admin'[r].key] = None,
             ListingIsComplete'
      PROVE  MemoryInv'
  BY <1>1, <1>4, <1>5, <1>6 DEF MemoryInv, RevokedIsUnknown
<1>7. \* Listing stays complete where the index grows and no revocation ends.
      ASSUME \A k \in Calls : PutRecord(k) => k \in issued'[req[k].inst] /\ req'[k] = req[k],
             \A i \in Instances : issued[i] \subseteq issued'[i],
             admin' = admin
      PROVE  ListingIsComplete'
  <2> SUFFICES ASSUME NEW k \in Calls, Delivered(k)', store'[k] # None,
                      \A r \in Revokers : ~(admin'[r].pc = "found" /\ admin'[r].key = k)
               PROVE  k \in issued'[req'[k].inst]
    BY DEF ListingIsComplete
  <2>1. CASE PutRecord(k)
    BY <1>7, <2>1
  <2>2. CASE Delivered(k)
    <3>1. pc[k] = "done" /\ store[k] # None /\ req'[k] = req[k] /\ req[k].inst \in Instances
      BY <1>1, <1>3, <2>2 DEF Delivered
    <3>2. k \in issued[req[k].inst]
      BY <1>7, <2>2, <3>1 DEF MemoryInv, ListingIsComplete
    <3> QED
      BY <1>7, <3>1, <3>2
  <2> QED
    BY <1>2, <2>1, <2>2
<1>8. CASE RedeemStep \/ ServeStep \/ (\E c \in Calls : Arrive(c)) \/ UNCHANGED vars
           \/ (\E k \in Calls : Expire(k) \/ Sweep(k))
  <2>1. UNCHANGED <<issued, pruning, admin>>
    BY <1>8 DEF RedeemStep, ServeStep, Arrive, Redeem, RedeemInMemory, RedeemRead, RedeemSwap,
         RedeemConflict, RedeemWrite, RedeemFault, Serve, ServeReturns, ServeThrows, Expire, Sweep, vars
  <2>2. \A k \in Calls : ~PutRecord(k)
    <3>1. \A k \in Calls : PutRecord(k) => issued'[req[k].inst] = issued[req[k].inst] \cup {k}
      BY <1>3 DEF PutRecord
    <3>2. \A k \in Calls : PutRecord(k) =>
            k \in issued[req[k].inst] /\ pc[k] = "put" /\ req[k].inst \in Instances
      BY <1>3, <1>4, <2>1, <3>1
    <3> QED
      BY <3>2 DEF MemoryInv
  <2>3. ListingIsComplete'
    BY <1>7, <2>1, <2>2
  <2> QED
    BY <1>1, <1>3, <1>6, <2>1, <2>3 DEF MemoryInv, RevokedIsUnknown
<1>9. ASSUME NEW c \in Calls, Pay(c) PROVE MemoryInv'
  <2>1. /\ UNCHANGED <<pruning, admin, req>>
        /\ \/ issued' = issued /\ ~PutRecord(c)
           \/ PutRecord(c) /\ issued' = [issued EXCEPT ![req[c].inst] = @ \cup {c}]
    BY <1>4, <1>9 DEF Pay, ChargeRefused, ChargeThrows, ChargeSettles, WorkReturns,
         WorkThrows, PutRecord, PutDecremented, PutFault, MemoryInv
  <2>2. \A k \in Calls : PutRecord(k) => k = c
    <3>1. \E l : pc' = [pc EXCEPT ![c] = l]
      BY <1>9 DEF Pay, ChargeRefused, ChargeThrows, ChargeSettles, WorkReturns,
         WorkThrows, PutRecord, PutDecremented, PutFault, FinishPaid, Fail, Goto
    <3> QED
      BY <1>4, <3>1
  <2>3. PutRecord(c) => req[c].inst \in Instances
    BY <1>3, <1>4
  <2>4. \A k \in Calls : PutRecord(k) => k \in issued'[req[k].inst] /\ req'[k] = req[k]
    BY <1>3, <2>1, <2>2, <2>3
  <2>5. \A i \in Instances :
          /\ issued[i] \subseteq issued'[i]
          /\ \A k \in issued'[i] : k \in issued[i] \/ (k = c /\ PutRecord(c))
    BY <1>3, <2>1
  <2>6. ListingIsComplete'
    BY <1>7, <2>1, <2>4, <2>5
  <2> QED
    BY <1>1, <1>3, <1>6, <2>1, <2>5, <2>6 DEF MemoryInv, RevokedIsUnknown
<1>10. CASE OperatorStep
  <2>1. UNCHANGED <<pc, req, settled>>
    BY <1>10 DEF OperatorStep, Revoke, RevokeLookup, RevokeDelete, RevokeFault, List, ListLookup,
                 ListPrune
  <2>2. \A k \in Calls : Delivered(k)' => Delivered(k)
    BY <2>1 DEF Delivered
  <2>3. \A k \in Calls : Readable(k) = {store[k]}
    BY DEF Readable
  <2>4. ASSUME NEW r \in Revokers, RevokeLookup(r) PROVE MemoryInv'
    <3>0. PICK i \in Instances, k \in Calls :
            /\ Delivered(k) \/ \E j \in Instances : k \in issued[j]
            /\ issued' = [issued EXCEPT ![i] = @ \ {k}]
            /\ \E rec \in Readable(k) :
                 admin' = [admin EXCEPT ![r] =
                   [pc |-> IF rec = None THEN "absent" ELSE "found", inst |-> i, key |-> k]]
      BY <2>4 DEF RevokeLookup
    <3>1. /\ Delivered(k) \/ \E j \in Instances : k \in issued[j]
          /\ issued' = [issued EXCEPT ![i] = @ \ {k}]
          /\ admin' = [admin EXCEPT ![r] =
               [pc |-> IF store[k] = None THEN "absent" ELSE "found", inst |-> i, key |-> k]]
      <4>1. Readable(k) = {store[k]}
        BY <2>3
      <4> QED
        BY <3>0, <4>1
    <3>2. admin[r].pc = "idle" /\ UNCHANGED <<store, pruning>>
      BY <2>4 DEF RevokeLookup
    <3>3. pc[k] = "done"
      BY <3>1 DEF Delivered, MemoryInv
    <3>4. \A j \in Instances : issued'[j] \subseteq issued[j]
                               /\ (\A h \in issued[j] : h = k \/ h \in issued'[j])
      BY <1>3, <3>1
    <3>5. \A q \in Revokers : q # r => admin'[q] = admin[q]
      BY <1>3, <3>1
    <3>6. /\ admin'[r].key = k
          /\ store[k] = None => admin'[r].pc = "absent"
          /\ store[k] # None => admin'[r].pc = "found"
      BY <1>3, <3>1
    <3>7. ListingIsComplete'
      <4> SUFFICES ASSUME NEW h \in Calls, Delivered(h)', store'[h] # None,
                          \A q \in Revokers : ~(admin'[q].pc = "found" /\ admin'[q].key = h)
                   PROVE  h \in issued'[req'[h].inst]
        BY DEF ListingIsComplete
      <4>1. h # k
        BY <3>2, <3>6
      <4>2. \A q \in Revokers : ~(admin[q].pc = "found" /\ admin[q].key = h)
        BY <3>2, <3>5
      <4>3. h \in issued[req[h].inst] /\ req[h].inst \in Instances
        BY <1>3, <2>2, <3>2, <4>2 DEF MemoryInv, ListingIsComplete, Delivered
      <4> QED
        BY <2>1, <3>4, <4>1, <4>3
    <3>8. \A q \in Revokers : admin'[q].pc \in {"found", "revoked"} =>
               /\ admin'[q].key \in Calls /\ pc[admin'[q].key] = "done"
               /\ admin'[q].pc = "revoked" => store'[admin'[q].key] = None
      <4> TAKE q \in Revokers
      <4> HAVE admin'[q].pc \in {"found", "revoked"}
      <4>1. CASE q = r
        BY <3>2, <3>3, <3>6, <4>1
      <4>2. CASE q # r
        <5>1. admin'[q] = admin[q]
          BY <3>5, <4>2
        <5>2. admin[q].key \in Calls /\ pc[admin[q].key] = "done"
          BY <5>1 DEF MemoryInv
        <5>3. admin[q].pc = "revoked" => store[admin[q].key] = None
          BY DEF MemoryInv, RevokedIsUnknown
        <5> QED
          BY <3>2, <5>1, <5>2, <5>3
      <4> QED
        BY <4>1, <4>2
    <3> QED
      BY <1>3, <1>6, <3>2, <3>4, <3>7, <3>8 DEF MemoryInv
  <2>5. ASSUME NEW r \in Revokers, RevokeDelete(r) PROVE MemoryInv'
    <3> DEFINE k == admin[r].key
    <3>1. /\ admin[r].pc = "found" /\ UNCHANGED <<issued, pruning>>
          /\ store' = [store EXCEPT ![k] = None] /\ admin' = [admin EXCEPT ![r].pc = "revoked"]
      BY <2>5 DEF RevokeDelete
    <3>2. k \in Calls /\ pc[k] = "done" /\ store'[k] = None
      BY <3>1 DEF MemoryInv
    <3>3. /\ \A q \in Revokers : q # r => admin'[q] = admin[q]
          /\ admin'[r].pc = "revoked" /\ admin'[r].key = k
      BY <1>3, <3>1 DEF Revocation
    <3>4. ListingIsComplete'
      <4> SUFFICES ASSUME NEW h \in Calls, Delivered(h)', store'[h] # None,
                          \A q \in Revokers : ~(admin'[q].pc = "found" /\ admin'[q].key = h)
                   PROVE  h \in issued'[req'[h].inst]
        BY DEF ListingIsComplete
      <4>1. h # k /\ store[h] # None
        BY <3>1, <3>2
      <4>2. \A q \in Revokers : ~(admin[q].pc = "found" /\ admin[q].key = h)
        BY <3>3, <4>1
      <4> QED
        BY <2>1, <2>2, <3>1, <4>1, <4>2, <1>3 DEF MemoryInv, ListingIsComplete, Delivered
    <3>5. \A q \in Revokers : admin'[q].pc \in {"found", "revoked"} =>
               /\ admin'[q].key \in Calls /\ pc[admin'[q].key] = "done"
               /\ admin'[q].pc = "revoked" => store'[admin'[q].key] = None
      <4> TAKE q \in Revokers
      <4> HAVE admin'[q].pc \in {"found", "revoked"}
      <4>1. CASE q = r
        BY <3>2, <3>3, <4>1
      <4>2. CASE q # r
        <5>1. admin'[q] = admin[q]
          BY <3>3, <4>2
        <5>2. admin[q].key \in Calls /\ pc[admin[q].key] = "done"
          BY <5>1 DEF MemoryInv
        <5>3. admin[q].pc = "revoked" => store[admin[q].key] = None
          BY DEF MemoryInv, RevokedIsUnknown
        <5> QED
          BY <1>1, <5>1, <5>2, <5>3
      <4> QED
        BY <4>1, <4>2
    <3> QED
      BY <1>3, <1>6, <3>1, <3>4, <3>5 DEF MemoryInv
  <2>6. \A r \in Revokers : ~RevokeFault(r)
    BY <1>3 DEF RevokeFault
  <2>7. ASSUME NEW i \in Instances, NEW k \in Calls, List(i, k) PROVE MemoryInv'
    <3>1. /\ UNCHANGED <<store, admin>>
          /\ k \in issued[i] \/ k \in pruning[i]
          /\ store[k] = None
          /\ pruning' \in {[pruning EXCEPT ![i] = @ \cup {k}], [pruning EXCEPT ![i] = @ \ {k}]}
          /\ issued' \in {issued, [issued EXCEPT ![i] = @ \ {k}]}
      BY <2>3, <2>7 DEF List, ListLookup, ListPrune, MemoryInv
    <3>2. \A j \in Instances : /\ \A h \in pruning'[j] : h \in pruning[j] \/ h = k
                               /\ issued'[j] \subseteq issued[j]
                               /\ \A h \in issued[j] : h = k \/ h \in issued'[j]
      BY <1>3, <3>1
    <3>3. pc[k] = "done"
      BY <3>1 DEF MemoryInv
    <3>4. ListingIsComplete'
      <4> SUFFICES ASSUME NEW h \in Calls, Delivered(h)', store'[h] # None,
                          \A q \in Revokers : ~(admin'[q].pc = "found" /\ admin'[q].key = h)
                   PROVE  h \in issued'[req'[h].inst]
        BY DEF ListingIsComplete
      <4>1. h # k /\ h \in issued[req[h].inst] /\ req[h].inst \in Instances
        BY <1>3, <2>2, <3>1 DEF MemoryInv, ListingIsComplete, Delivered
      <4> QED
        BY <2>1, <3>2, <4>1
    <3> QED
      BY <1>3, <1>6, <3>1, <3>2, <3>3, <3>4 DEF MemoryInv, RevokedIsUnknown
  <2> QED
    BY <1>10, <2>4, <2>5, <2>6, <2>7 DEF OperatorStep, Revoke
<1>11. ASSUME NEW i \in Instances, Restart(i) PROVE MemoryInv'
  <2>1. /\ store' = [k \in Calls |-> None]
        /\ issued' = [issued EXCEPT ![i] = {}] /\ pruning' = [pruning EXCEPT ![i] = {}]
        /\ \A r \in Revokers : admin'[r].key = admin[r].key /\ admin'[r].pc \in {admin[r].pc, "failed"}
    BY <1>3, <1>11 DEF Restart, Revocation
  <2>2. ListingIsComplete'
    BY <2>1 DEF ListingIsComplete
  <2>3. \A j \in Instances : issued'[j] = {} /\ pruning'[j] = {}
    BY <1>3, <2>1
  <2> QED
    BY <1>6, <2>1, <2>2, <2>3 DEF MemoryInv
<1> QED
  BY <1>8, <1>9, <1>10, <1>11, Steps DEF PayStep

\* Over a memory store a revocation that was answered is for good.
THEOREM RevocationIsFinal ==
  ASSUME StoreKind = "memory"
  PROVE  Spec => []RevokedIsUnknown
<1>1. AtomicInv /\ MemoryInv /\ AtomicInv' /\ [Next]_vars => MemoryInv'
  BY NextMemory
<1>0. Spec => []AtomicInv
  BY AlwaysAtomic
<1>2. Spec => []MemoryInv
  BY <1>0, <1>1, InitMemory, PTL DEF Spec
<1>3. MemoryInv => RevokedIsUnknown
  BY DEF MemoryInv
<1> QED
  BY <1>2, <1>3, PTL

\* And a listing misses no key that is there, but one being revoked.
THEOREM ListingsAreComplete ==
  ASSUME StoreKind = "memory"
  PROVE  Spec => []ListingIsComplete
<1>1. AtomicInv /\ MemoryInv /\ AtomicInv' /\ [Next]_vars => MemoryInv'
  BY NextMemory
<1>0. Spec => []AtomicInv
  BY AlwaysAtomic
<1>2. Spec => []MemoryInv
  BY <1>0, <1>1, InitMemory, PTL DEF Spec
<1>3. MemoryInv => ListingIsComplete
  BY DEF MemoryInv
<1> QED
  BY <1>2, <1>3, PTL

-----------------------------------------------------------------------------
(* The books.                                                              *)

\* The paying calls of an instance that were answered, those whose record is put a
\* second time, and the calls served by a key that were answered.
Paid(i) == {c \in settled : pc[c] = "done" /\ req[c].inst = i}
Minting(i) == {c \in settled : pc[c] = "put2" /\ req[c].inst = i}
Served(i) == {c \in Calls \ settled : pc[c] = "done" /\ req[c].inst = i}

Answered == {c \in settled : pc[c] = "done"}

\* An issued key is counted at its first put, so those whose second put is under way
\* are in its count already.
Books ==
  /\ \A c \in Calls : pc[c] = "charge" \/ c \in settled => ~Unattributable(req[c])
  /\ events["payment.received"] = Cardinality(Answered)
  /\ events["access-key.issued"] = events["payment.received"]
  /\ \A i \in Instances \ Mortal :
       /\ stats[i]["paidCalls"] = Cardinality(Paid(i))
       /\ stats[i]["accessKeyCalls"] = Cardinality(Served(i))
       /\ stats[i]["totalCalls"] = Cardinality(Paid(i)) + Cardinality(Served(i))
       /\ stats[i]["accessKeysIssued"] >= Cardinality(Paid(i) \cup Minting(i))

Booked == {"totalCalls", "paidCalls", "accessKeyCalls", "accessKeysIssued"}
Announced == {"payment.received", "access-key.issued"}

\* The counters and events of the books after a step that adds to them or to none.
Credited(i, names) ==
  \A j \in Instances \ Mortal, n \in Booked :
    stats'[j][n] = stats[j][n] + IF j = i /\ n \in names THEN 1 ELSE 0

Silent == \A e \in Announced : events'[e] = events[e]

Heard == \A e \in Announced : events'[e] = events[e] + 1

\* A step that answers no call and begins no second put.
Quiet ==
  /\ Credited(None, {})
  /\ Silent
  /\ \A c \in Calls : /\ pc'[c] = "done" <=> pc[c] = "done"
                      /\ pc'[c] = "put2" => pc[c] = "put2"
  /\ \A c \in settled' \ settled : pc'[c] \notin {"done", "put2"}

LEMMA CountEffect ==
  ASSUME Typed, NEW i \in Instances, NEW names, Count(i, names)
  PROVE  Credited(i, names)
BY DEF Count, Credited, Booked, Counters, Typed, TypesButPast

LEMMA EmitEffect ==
  ASSUME Typed, NEW types, Emit(types)
  PROVE  /\ Announced \cap types = {} => Silent
         /\ Announced \subseteq types => Heard
BY DEF Emit, Silent, Heard, Announced, EventTypes, Typed, TypesButPast

LEMMA NothingCounted ==
  ASSUME Typed
  PROVE  /\ stats' = stats => Credited(None, {})
         /\ events' = events => Silent
BY DEF Credited, Silent, Booked, Counters, Announced, EventTypes, Typed, TypesButPast

\* A failure is no event of the books.
LEMMA FailIsSilent ==
  ASSUME Typed, NEW c \in Calls, Fail(c)
  PROVE  Silent /\ pc' = [pc EXCEPT ![c] = "failed"]
<1>1. Emit({"call.failed"}) /\ pc' = [pc EXCEPT ![c] = "failed"]
  BY DEF Fail, Goto
<1>2. Announced \cap {"call.failed"} = {}
  BY DEF Announced
<1>3. QED
  BY <1>1, <1>2, EmitEffect

\* Nor is a rejected key.
LEMMA RedeemedIsQuiet ==
  ASSUME Typed, NEW c \in Calls, req[c] \in Request, NEW o, Redeemed(c, o)
  PROVE  /\ Silent /\ Credited(None, {})
         /\ \E l \in {"serve", "charge", "failed"} :
              pc' = [pc EXCEPT ![c] = l] /\ (l = "charge" => ~Unattributable(req[c]))
<1>1. Silent
  <2> DEFINE types == (IF o \in {"expired", "exhausted"} THEN {"access-key.expired"} ELSE {})
                      \cup (IF o # "ok" /\ Unattributable(req[c]) THEN {"call.failed"} ELSE {})
  <2>1. Announced \cap types = {}
    BY DEF Announced
  <2>2. Emit(types)
    BY DEF Redeemed
  <2> QED
    BY <2>1, <2>2, EmitEffect
<1>2. Credited(None, {})
  <2>1. CASE stats' = stats
    BY <2>1, NothingCounted
  <2>2. CASE Count(req[c].inst, {"accessKeysExpired"})
    <3>1. Credited(req[c].inst, {"accessKeysExpired"})
      BY <2>2, CountEffect DEF Request
    <3> QED
      BY <3>1 DEF Credited, Booked
  <2> QED
    BY <2>1, <2>2 DEF Redeemed
<1>3. \E l \in {"serve", "charge", "failed"} :
        pc' = [pc EXCEPT ![c] = l] /\ (l = "charge" => ~Unattributable(req[c]))
  BY DEF Redeemed, Goto, PayEntry
<1>4. QED
  BY <1>1, <1>2, <1>3

LEMMA RedeemIsQuiet ==
  ASSUME Typed, NEW c \in Calls, Redeem(c)
  PROVE  /\ Quiet /\ UNCHANGED <<settled, req>>
         /\ \A k \in Calls : pc'[k] = "charge" => pc[k] = "charge" \/ ~Unattributable(req[k])
<1>1. /\ pc[c] \in {"redeem", "swap"} /\ UNCHANGED <<settled, req>>
      /\ \/ \E o : Redeemed(c, o)
         \/ Goto(c, "swap") /\ UNCHANGED <<stats, events>>
         \/ Goto(c, "redeem") /\ UNCHANGED <<stats, events>>
         \/ RedeemThrows(c)
  BY DEF Redeem, RedeemInMemory, RedeemRead, RedeemSwap, RedeemConflict, RedeemWrite,
         RedeemFault, Redeeming
<1>2. req[c] \in Request
  BY <1>1 DEF Typed, Shape
<1>3. /\ Silent /\ Credited(None, {})
      /\ \E l \in {"serve", "charge", "failed", "swap", "redeem"} :
           pc' = [pc EXCEPT ![c] = l] /\ (l = "charge" => ~Unattributable(req[c]))
  <2>1. CASE \E o : Redeemed(c, o)
    BY <1>2, <2>1, RedeemedIsQuiet
  <2>2. CASE (Goto(c, "swap") \/ Goto(c, "redeem")) /\ UNCHANGED <<stats, events>>
    BY <2>2, NothingCounted DEF Goto
  <2>3. CASE RedeemThrows(c)
    BY <2>3, NothingCounted, FailIsSilent DEF RedeemThrows
  <2> QED
    BY <1>1, <2>1, <2>2, <2>3
<1>4. QED
  BY <1>1, <1>3 DEF Quiet, Typed, TypesButPast

LEMMA ArriveIsQuiet ==
  ASSUME Typed, Holders, NEW c \in Calls, Arrive(c)
  PROVE  /\ Quiet /\ UNCHANGED settled
         /\ c \notin settled
         /\ \A k \in Calls : k # c => req'[k] = req[k]
         /\ \A k \in Calls : pc'[k] = "charge" =>
              (pc[k] = "charge" /\ k # c) \/ ~Unattributable(req'[k])
<1>1. PICK r \in Request :
        /\ req' = [req EXCEPT ![c] = r]
        /\ IF r.key # None
             THEN Goto(c, "redeem") /\ UNCHANGED events
             ELSE /\ Goto(c, PayEntry(r))
                  /\ Emit(IF Unattributable(r) THEN {"call.failed"} ELSE {})
  BY DEF Arrive
<1>2. pc[c] = "idle" /\ UNCHANGED <<settled, stats>>
  BY DEF Arrive
<1>3. Silent
  <2>1. \A types : types \in {{"call.failed"}, {}} => Announced \cap types = {}
    BY DEF Announced
  <2> QED
    BY <1>1, <2>1, NothingCounted, EmitEffect
<1>4. \E l \in {"redeem", "charge", "failed"} :
        pc' = [pc EXCEPT ![c] = l] /\ (l = "charge" => ~Unattributable(r))
  BY <1>1 DEF Goto, PayEntry
<1>5. req'[c] = r /\ c \notin settled
  BY <1>1, <1>2 DEF Holders, Typed, TypesButPast
<1>6. QED
  BY <1>1, <1>2, <1>3, <1>4, <1>5, NothingCounted DEF Quiet, Typed, TypesButPast

LEMMA OthersAreQuiet ==
  ASSUME Typed,
         \/ OperatorStep
         \/ \E k \in Calls : Expire(k) \/ Sweep(k)
         \/ UNCHANGED vars
  PROVE  Quiet /\ UNCHANGED <<pc, req, settled>>
<1>1. UNCHANGED <<pc, req, settled, stats>>
  BY DEF OperatorStep, Revoke, RevokeLookup, RevokeDelete, RevokeFault, List, ListLookup,
         ListPrune, Expire, Sweep, vars
<1>2. events' = events \/ Emit({"access-key.expired"})
  BY DEF OperatorStep, Revoke, RevokeLookup, RevokeDelete, RevokeFault, List, ListLookup,
         ListPrune, Expire, Sweep, vars
<1>3. Announced \cap {"access-key.expired"} = {}
  BY DEF Announced
<1>4. QED
  BY <1>1, <1>2, <1>3, NothingCounted, EmitEffect DEF Quiet

LEMMA RestartIsQuiet ==
  ASSUME Typed, NEW i \in Instances, Restart(i)
  PROVE  /\ Quiet /\ UNCHANGED <<req, settled>>
         /\ \A k \in Calls : pc'[k] = "charge" => pc[k] = "charge"
<1>1. /\ i \in Mortal /\ UNCHANGED <<req, settled, events>>
      /\ stats' = [stats EXCEPT ![i] = NoCounts]
      /\ \A c \in Calls : pc'[c] = pc[c] \/ (pc'[c] = "lost" /\ pc[c] \in Running)
  BY DEF Restart
<1>2. Credited(None, {})
  BY <1>1 DEF Credited, Booked, Counters, Typed, TypesButPast
<1>3. "done" \notin Running
  BY DEF Running, Redeeming
<1>4. QED
  BY <1>1, <1>2, <1>3, NothingCounted DEF Quiet

\* The steps of a paying call but its puts, and those of a call that throws.
LEMMA PayIsQuiet ==
  ASSUME Typed, Holders, NEW c \in Calls, Pay(c), ~PutRecord(c), ~PutDecremented(c)
  PROVE  /\ Quiet /\ UNCHANGED req
         /\ settled' \in {settled, settled \cup {c}} /\ (c \in settled' \ settled => pc[c] = "charge")
         /\ \A k \in Calls : pc'[k] = "charge" => pc[k] = "charge"
<1>1. /\ pc[c] \in {"charge", "work", "put", "put2"} /\ UNCHANGED <<req, stats>>
      /\ settled' \in {settled, settled \cup {c}} /\ (c \in settled' \ settled => pc[c] = "charge")
  BY DEF Pay, ChargeRefused, ChargeThrows, ChargeSettles, WorkReturns, WorkThrows, PutFault
<1>2. /\ Silent
      /\ \E l \in {"paywall", "failed", "work", "put"} : pc' = [pc EXCEPT ![c] = l]
  <2>1. CASE Fail(c)
    BY <2>1, FailIsSilent
  <2>2. CASE ~Fail(c)
    <3>1. /\ events' = events
          /\ \E l \in {"paywall", "work", "put"} : pc' = [pc EXCEPT ![c] = l]
      BY <2>2 DEF Pay, ChargeRefused, ChargeThrows, ChargeSettles, WorkReturns, WorkThrows,
                  PutFault, Goto
    <3> QED
      BY <3>1, NothingCounted
  <2> QED
    BY <2>1, <2>2
<1>3. QED
  BY <1>1, <1>2, NothingCounted DEF Quiet, Typed, TypesButPast

\* Every quiet step keeps the books, where no call is charged that has no readable payer.
LEMMA QuietKeepsBooks ==
  ASSUME Typed, Holders, Typed', Holders', Books, Quiet, [Next]_vars,
         \A k \in Calls : pc'[k] = "charge" \/ k \in settled' => ~Unattributable(req'[k])
  PROVE  Books'
<1> USE DEF Typed, TypesButPast
<1>1. \A c \in Calls : pc[c] # "idle" => req'[c] = req[c]
  BY Frame DEF Kept
<1>2. settled \subseteq settled'
  BY Frame
<1>3. Answered' = Answered
  BY <1>2 DEF Answered, Quiet
<1>4. \A i : Paid(i)' = Paid(i)
  BY <1>1, <1>2 DEF Paid, Quiet
<1>5. \A i : Served(i)' = Served(i)
  BY <1>1, <1>2 DEF Served, Quiet
<1>6. \A i : Minting(i)' \subseteq Minting(i)
  BY <1>1, <1>2 DEF Minting, Quiet
<1>7. \A i : IsFiniteSet(Paid(i) \cup Minting(i))
  <2>1. \A i : Paid(i) \cup Minting(i) \subseteq Calls
    BY DEF Paid, Minting
  <2> QED
    BY <2>1, CallsAssumption, FS_Subset
<1>8. \A i : /\ Cardinality(Paid(i)' \cup Minting(i)') \in Nat
             /\ Cardinality(Paid(i)' \cup Minting(i)') <= Cardinality(Paid(i) \cup Minting(i))
             /\ Cardinality(Paid(i) \cup Minting(i)) \in Nat
  <2> TAKE i
  <2>1. Paid(i)' \cup Minting(i)' \subseteq Paid(i) \cup Minting(i)
    BY <1>4, <1>6
  <2> QED
    BY <1>7, <2>1, FS_Subset, FS_CardinalityType
<1>9. \A j \in Instances \ Mortal, n \in Booked : stats[j][n] \in Nat /\ stats'[j][n] = stats[j][n]
  BY DEF Quiet, Credited, Booked, Counters
<1>10. events'["payment.received"] = events["payment.received"]
       /\ events'["access-key.issued"] = events["access-key.issued"]
  BY DEF Quiet, Silent, Announced
<1>11. \A i \in Instances \ Mortal :
         /\ stats'[i]["paidCalls"] = Cardinality(Paid(i)')
         /\ stats'[i]["accessKeyCalls"] = Cardinality(Served(i)')
         /\ stats'[i]["totalCalls"] = Cardinality(Paid(i)') + Cardinality(Served(i)')
         /\ stats'[i]["accessKeysIssued"] >= Cardinality(Paid(i)' \cup Minting(i)')
  <2> TAKE i \in Instances \ Mortal
  <2>1. /\ stats'[i]["paidCalls"] = stats[i]["paidCalls"]
        /\ stats'[i]["accessKeyCalls"] = stats[i]["accessKeyCalls"]
        /\ stats'[i]["totalCalls"] = stats[i]["totalCalls"]
        /\ stats'[i]["accessKeysIssued"] = stats[i]["accessKeysIssued"]
        /\ stats[i]["accessKeysIssued"] \in Nat
    BY <1>9 DEF Booked
  <2>2. Cardinality(Paid(i)') = Cardinality(Paid(i)) /\ Cardinality(Served(i)') = Cardinality(Served(i))
    BY <1>4, <1>5
  <2>3. stats'[i]["accessKeysIssued"] >= Cardinality(Paid(i)' \cup Minting(i)')
    <3>1. stats[i]["accessKeysIssued"] >= Cardinality(Paid(i) \cup Minting(i))
      BY DEF Books
    <3> HIDE DEF Typed, TypesButPast
    <3> DEFINE now == Cardinality(Paid(i)' \cup Minting(i)')
               then == Cardinality(Paid(i) \cup Minting(i))
    <3>2. now \in Nat /\ then \in Nat /\ now <= then
      BY <1>8
    <3> HIDE DEF now, then
    <3>3. stats'[i]["accessKeysIssued"] >= now
      BY <2>1, <3>1, <3>2 DEF then
    <3> QED
      BY <3>3 DEF now
  <2> QED
    BY <2>1, <2>2, <2>3 DEF Books
<1>12. QED
  BY <1>3, <1>10, <1>11 DEF Books

\* An answered call joins the calls of its kind of its instance, and of no other.
LEMMA ServedJoins ==
  ASSUME Typed, Holders, Typed', Books, [Next]_vars, NEW c \in Calls, ServeReturns(c)
  PROVE  Books'
<1> USE DEF Typed, TypesButPast
<1> DEFINE inst == req[c].inst
<1>1. /\ pc[c] = "serve" /\ pc' = [pc EXCEPT ![c] = "done"]
      /\ UNCHANGED <<settled, req, events>>
      /\ Count(inst, {"totalCalls", "accessKeyCalls"})
  BY DEF ServeReturns, Goto
<1>2. req[c] \in Request /\ inst \in Instances /\ c \notin settled
  BY <1>1 DEF Shape, Request, Holders
<1>3. Answered' = Answered /\ (\A i : Paid(i)' = Paid(i) /\ Minting(i)' = Minting(i))
  BY <1>1, <1>2 DEF Answered, Paid, Minting
<1>4. \A i : Served(i)' = IF i = inst THEN Served(i) \cup {c} ELSE Served(i)
  BY <1>1, <1>2 DEF Served
<1>5. c \notin Served(inst) /\ IsFiniteSet(Served(inst))
  <2>1. Served(inst) \subseteq Calls
    BY DEF Served
  <2> QED
    BY <1>1, <2>1, CallsAssumption, FS_Subset DEF Served
<1>6. Cardinality(Served(inst) \cup {c}) = Cardinality(Served(inst)) + 1
  BY <1>5, FS_AddElement
<1>7. Credited(inst, {"totalCalls", "accessKeyCalls"})
  BY <1>1, <1>2, CountEffect
<1>8. \A i \in Instances \ Mortal :
        /\ stats'[i]["paidCalls"] = Cardinality(Paid(i)')
        /\ stats'[i]["accessKeyCalls"] = Cardinality(Served(i)')
        /\ stats'[i]["totalCalls"] = Cardinality(Paid(i)') + Cardinality(Served(i)')
        /\ stats'[i]["accessKeysIssued"] >= Cardinality(Paid(i)' \cup Minting(i)')
  <2> TAKE i \in Instances \ Mortal
  <2>1. /\ stats'[i]["paidCalls"] = stats[i]["paidCalls"]
        /\ stats'[i]["accessKeysIssued"] = stats[i]["accessKeysIssued"]
        /\ stats'[i]["accessKeyCalls"] = stats[i]["accessKeyCalls"] + (IF i = inst THEN 1 ELSE 0)
        /\ stats'[i]["totalCalls"] = stats[i]["totalCalls"] + (IF i = inst THEN 1 ELSE 0)
        /\ \A n \in Booked : stats[i][n] \in Nat
    BY <1>7 DEF Credited, Booked, Counters
  <2>2. Cardinality(Served(i)') = stats[i]["accessKeyCalls"] + (IF i = inst THEN 1 ELSE 0)
    <3>1. stats[i]["accessKeyCalls"] = Cardinality(Served(i))
      BY DEF Books
    <3>2. CASE i = inst
      <4>1. Served(i)' = Served(inst) \cup {c}
        BY <1>4, <3>2
      <4> QED
        BY <1>6, <3>1, <3>2, <4>1
    <3>3. CASE i # inst
      <4>1. Served(i)' = Served(i)
        BY <1>4, <3>3
      <4>2. stats[i]["accessKeyCalls"] \in Nat
        BY <2>1 DEF Booked
      <4> QED
        BY <3>1, <3>3, <4>1, <4>2
    <3> QED
      BY <3>2, <3>3
  <2>3. /\ stats[i]["paidCalls"] = Cardinality(Paid(i))
        /\ stats[i]["totalCalls"] = stats[i]["paidCalls"] + stats[i]["accessKeyCalls"]
        /\ stats[i]["accessKeysIssued"] >= Cardinality(Paid(i) \cup Minting(i))
    BY DEF Books
  <2>4. Cardinality(Paid(i)') = stats[i]["paidCalls"]
        /\ stats[i]["accessKeysIssued"] >= Cardinality(Paid(i)' \cup Minting(i)')
    BY <1>3, <2>3
  <2>5. stats[i]["paidCalls"] \in Nat /\ stats[i]["accessKeyCalls"] \in Nat
    BY <2>1 DEF Booked
  <2> HIDE DEF Typed, TypesButPast
  <2> QED
    BY <2>1, <2>2, <2>3, <2>4, <2>5
<1>9. \A k \in Calls : pc'[k] = "charge" \/ k \in settled' => ~Unattributable(req'[k])
  BY <1>1 DEF Books
<1>10. QED
  BY <1>1, <1>3, <1>8, <1>9 DEF Books

\* The first put of a capped record at a remote store: its issue is counted.
LEMMA MintingJoins ==
  ASSUME Typed, Holders, Typed', Books, [Next]_vars, NEW c \in Calls, PutRecord(c), pc'[c] = "put2"
  PROVE  Books'
<1> USE DEF Typed, TypesButPast
<1> DEFINE inst == req[c].inst
<1>1. /\ pc[c] = "put" /\ UNCHANGED <<settled, req>>
      /\ \/ Goto(c, "put2") /\ Count(inst, {"accessKeysIssued"}) /\ UNCHANGED events
         \/ Goto(c, "done")
  BY DEF PutRecord, FinishPaid
<1>2. /\ pc' = [pc EXCEPT ![c] = "put2"] /\ UNCHANGED <<settled, req, events>>
      /\ Count(inst, {"accessKeysIssued"})
  BY <1>1 DEF Goto
<1>3. req[c] \in Request /\ inst \in Instances /\ c \in settled
  BY <1>1 DEF Shape, Request, Holders
<1>4. Answered' = Answered /\ (\A i : Paid(i)' = Paid(i) /\ Served(i)' = Served(i))
  BY <1>1, <1>2 DEF Answered, Paid, Served
<1>5. \A i : Minting(i)' = IF i = inst THEN Minting(i) \cup {c} ELSE Minting(i)
  BY <1>1, <1>2, <1>3 DEF Minting
<1>6. IsFiniteSet(Paid(inst) \cup Minting(inst)) /\ c \notin Paid(inst) \cup Minting(inst)
  <2>1. Paid(inst) \cup Minting(inst) \subseteq Calls
    BY DEF Paid, Minting
  <2> QED
    BY <1>1, <2>1, CallsAssumption, FS_Subset DEF Paid, Minting
<1>7. /\ Cardinality((Paid(inst) \cup Minting(inst)) \cup {c})
           = Cardinality(Paid(inst) \cup Minting(inst)) + 1
      /\ Cardinality(Paid(inst) \cup Minting(inst)) \in Nat
  BY <1>6, FS_AddElement, FS_CardinalityType
<1>8. Credited(inst, {"accessKeysIssued"})
  BY <1>2, <1>3, CountEffect
<1>9. \A i \in Instances \ Mortal :
        /\ stats'[i]["paidCalls"] = Cardinality(Paid(i)')
        /\ stats'[i]["accessKeyCalls"] = Cardinality(Served(i)')
        /\ stats'[i]["totalCalls"] = Cardinality(Paid(i)') + Cardinality(Served(i)')
        /\ stats'[i]["accessKeysIssued"] >= Cardinality(Paid(i)' \cup Minting(i)')
  <2> TAKE i \in Instances \ Mortal
  <2>1. /\ stats'[i]["paidCalls"] = stats[i]["paidCalls"]
        /\ stats'[i]["accessKeysIssued"] = stats[i]["accessKeysIssued"] + (IF i = inst THEN 1 ELSE 0)
        /\ stats'[i]["accessKeyCalls"] = stats[i]["accessKeyCalls"]
        /\ stats'[i]["totalCalls"] = stats[i]["totalCalls"]
        /\ stats[i]["accessKeysIssued"] \in Nat
    BY <1>8 DEF Credited, Booked, Counters
  <2>2. stats[i]["accessKeysIssued"] >= Cardinality(Paid(i) \cup Minting(i))
    BY DEF Books
  <2>3. stats'[i]["accessKeysIssued"] >= Cardinality(Paid(i)' \cup Minting(i)')
    <3>1. CASE i = inst
      <4>1. Paid(i)' \cup Minting(i)' = (Paid(inst) \cup Minting(inst)) \cup {c}
        BY <1>4, <1>5, <3>1
      <4> DEFINE then == Cardinality(Paid(inst) \cup Minting(inst))
      <4>2. Cardinality(Paid(i)' \cup Minting(i)') = then + 1 /\ then \in Nat
        BY <1>7, <4>1
      <4>3. stats[i]["accessKeysIssued"] >= then
        BY <2>2, <3>1
      <4>4. stats'[i]["accessKeysIssued"] = stats[i]["accessKeysIssued"] + 1
            /\ stats[i]["accessKeysIssued"] \in Nat
        BY <2>1, <3>1
      <4> HIDE DEF then
      <4> QED
        BY <4>2, <4>3, <4>4
    <3>2. CASE i # inst
      <4>1. Paid(i)' \cup Minting(i)' = Paid(i) \cup Minting(i)
        BY <1>4, <1>5, <3>2
      <4>2. stats'[i]["accessKeysIssued"] = stats[i]["accessKeysIssued"]
        BY <2>1, <3>2
      <4> QED
        BY <2>2, <4>1, <4>2
    <3> QED
      BY <3>1, <3>2
  <2> QED
    BY <1>4, <2>1, <2>3 DEF Books
<1>10. \A k \in Calls : pc'[k] = "charge" \/ k \in settled' => ~Unattributable(req'[k])
  BY <1>2 DEF Books
<1>11. QED
  BY <1>2, <1>4, <1>9, <1>10 DEF Books

\* An answered paying call is counted and announced; its key's issue is counted now
\* or was at its first put.
LEMMA PaidJoins ==
  ASSUME Typed, Holders, Typed', Books, [Next]_vars, NEW c \in Calls,
         PutRecord(c) \/ PutDecremented(c), pc'[c] = "done"
  PROVE  Books'
<1> USE DEF Typed, TypesButPast
<1> DEFINE inst == req[c].inst
           first == IF pc[c] = "put" THEN {"accessKeysIssued"} ELSE {}
<1>1. /\ pc[c] \in {"put", "put2"} /\ UNCHANGED <<settled, req>>
      /\ FinishPaid(c, first)
  BY DEF PutRecord, PutDecremented, Goto
<1>2. /\ pc' = [pc EXCEPT ![c] = "done"]
      /\ Count(inst, first \cup {"totalCalls", "paidCalls"})
      /\ Emit({"access-key.issued", "payment.received"})
  BY <1>1 DEF FinishPaid, Goto
<1>3. req[c] \in Request /\ inst \in Instances /\ c \in settled /\ ~Unattributable(req[c])
  BY <1>1 DEF Shape, Request, Holders, Books
<1>4. Answered' = Answered \cup {c} /\ (\A i : Served(i)' = Served(i))
  BY <1>1, <1>2, <1>3 DEF Answered, Served
<1>5. \A i : Paid(i)' = IF i = inst THEN Paid(i) \cup {c} ELSE Paid(i)
  BY <1>1, <1>2, <1>3 DEF Paid
<1>6. \A i : Minting(i)' = Minting(i) \ {c}
  BY <1>1, <1>2 DEF Minting
<1>7. c \notin Answered /\ c \notin Paid(inst) /\ (pc[c] = "put" => c \notin Minting(inst))
      /\ (pc[c] = "put2" => c \in Minting(inst)) /\ (\A i : i # inst => c \notin Minting(i))
  BY <1>1, <1>3 DEF Answered, Paid, Minting
<1>8. IsFiniteSet(Answered) /\ IsFiniteSet(Paid(inst)) /\ IsFiniteSet(Paid(inst) \cup Minting(inst))
  <2>1. /\ Answered \subseteq Calls /\ Paid(inst) \subseteq Calls
        /\ Paid(inst) \cup Minting(inst) \subseteq Calls
    BY DEF Answered, Paid, Minting
  <2> QED
    BY <2>1, CallsAssumption, FS_Subset
<1>9. /\ Cardinality(Answered \cup {c}) = Cardinality(Answered) + 1
      /\ Cardinality(Paid(inst) \cup {c}) = Cardinality(Paid(inst)) + 1
  BY <1>7, <1>8, FS_AddElement
<1>10. Credited(inst, first \cup {"totalCalls", "paidCalls"})
  BY <1>2, <1>3, CountEffect
<1>11. /\ events'["payment.received"] = events["payment.received"] + 1
       /\ events'["access-key.issued"] = events["access-key.issued"] + 1
  <2> DEFINE types == {"access-key.issued", "payment.received"}
  <2>1. Emit(types) /\ Announced \subseteq types
    BY <1>2 DEF Announced
  <2> HIDE DEF types
  <2>2. Heard
    BY <2>1, EmitEffect
  <2> QED
    BY <2>2 DEF Heard, Announced
<1>12. /\ events'["payment.received"] = Cardinality(Answered')
       /\ events'["access-key.issued"] = events'["payment.received"]
  BY <1>4, <1>9, <1>11 DEF Books
<1>13. \A i \in Instances \ Mortal :
        /\ stats'[i]["paidCalls"] = Cardinality(Paid(i)')
        /\ stats'[i]["accessKeyCalls"] = Cardinality(Served(i)')
        /\ stats'[i]["totalCalls"] = Cardinality(Paid(i)') + Cardinality(Served(i)')
        /\ stats'[i]["accessKeysIssued"] >= Cardinality(Paid(i)' \cup Minting(i)')
  <2> TAKE i \in Instances \ Mortal
  <2>1. /\ stats[i]["paidCalls"] = Cardinality(Paid(i))
        /\ stats[i]["accessKeyCalls"] = Cardinality(Served(i))
        /\ stats[i]["totalCalls"] = Cardinality(Paid(i)) + Cardinality(Served(i))
        /\ stats[i]["accessKeysIssued"] >= Cardinality(Paid(i) \cup Minting(i))
    BY DEF Books
  <2>2. /\ stats[i]["paidCalls"] \in Nat /\ stats[i]["accessKeyCalls"] \in Nat
        /\ stats[i]["totalCalls"] \in Nat /\ stats[i]["accessKeysIssued"] \in Nat
    BY DEF Counters
  <2>3. Cardinality(Served(i)') = Cardinality(Served(i))
    BY <1>4
  <2>4. CASE i # inst
    <3>1. /\ stats'[i]["paidCalls"] = stats[i]["paidCalls"]
          /\ stats'[i]["accessKeyCalls"] = stats[i]["accessKeyCalls"]
          /\ stats'[i]["totalCalls"] = stats[i]["totalCalls"]
          /\ stats'[i]["accessKeysIssued"] = stats[i]["accessKeysIssued"]
      BY <1>10, <2>2, <2>4 DEF Credited, Booked
    <3>2. Paid(i)' = Paid(i)
      BY <1>5, <2>4
    <3>3. Minting(i)' = Minting(i)
      <4>1. c \notin Minting(i) /\ Minting(i)' = Minting(i) \ {c}
        BY <1>6, <1>7, <2>4
      <4> HIDE DEF Typed, TypesButPast
      <4> QED
        BY <4>1
    <3> HIDE DEF Typed, TypesButPast
    <3> QED
      BY <2>1, <2>3, <3>1, <3>2, <3>3
  <2>5. CASE i = inst
    <3> DEFINE issuance == IF pc[c] = "put" THEN 1 ELSE 0
    <3>1. /\ stats'[i]["paidCalls"] = stats[i]["paidCalls"] + 1
          /\ stats'[i]["accessKeyCalls"] = stats[i]["accessKeyCalls"]
          /\ stats'[i]["totalCalls"] = stats[i]["totalCalls"] + 1
          /\ stats'[i]["accessKeysIssued"] = stats[i]["accessKeysIssued"] + issuance
      BY <1>10, <2>2, <2>5 DEF Credited, Booked
    <3>2. Cardinality(Paid(i)') = Cardinality(Paid(i)) + 1
      <4>1. Paid(i)' = Paid(inst) \cup {c}
        BY <1>5, <2>5
      <4> QED
        BY <1>9, <2>5, <4>1
    <3>3. stats'[i]["accessKeysIssued"] >= Cardinality(Paid(i)' \cup Minting(i)')
      <4> DEFINE then == Cardinality(Paid(inst) \cup Minting(inst))
      <4>1. then \in Nat
        BY <1>8, FS_CardinalityType
      <4>2. stats[i]["accessKeysIssued"] >= then
        BY <2>1, <2>5
      <4>3. Cardinality(Paid(i)' \cup Minting(i)') = then + issuance
        <5>1. Paid(i)' \cup Minting(i)' = (Paid(inst) \cup Minting(inst)) \cup {c}
          BY <1>5, <1>6, <2>5
        <5>2. CASE pc[c] = "put"
          <6>1. c \notin Paid(inst) \cup Minting(inst)
            BY <1>7, <5>2
          <6>2. Cardinality((Paid(inst) \cup Minting(inst)) \cup {c}) = then + 1
            BY <1>8, <6>1, FS_AddElement
          <6> QED
            BY <5>1, <5>2, <6>2
        <5>3. CASE pc[c] = "put2"
          <6>1. Paid(i)' \cup Minting(i)' = Paid(inst) \cup Minting(inst)
            BY <1>7, <5>1, <5>3
          <6>2. issuance = 0
            BY <5>3
          <6>3. Cardinality(Paid(i)' \cup Minting(i)') = then
            BY <6>1
          <6> HIDE DEF then, issuance
          <6> QED
            BY <4>1, <6>2, <6>3
        <5> QED
          BY <1>1, <5>2, <5>3
      <4>4. issuance \in Nat
        OBVIOUS
      <4> HIDE DEF Typed, TypesButPast, then, issuance
      <4> QED
        BY <2>2, <3>1, <4>1, <4>2, <4>3, <4>4
    <3>4. stats[i]["totalCalls"] = stats[i]["paidCalls"] + stats[i]["accessKeyCalls"]
      BY <2>1
    <3>5. /\ Cardinality(Paid(i)') = stats[i]["paidCalls"] + 1
          /\ Cardinality(Served(i)') = stats[i]["accessKeyCalls"]
      BY <2>1, <2>3, <3>2
    <3>6. stats'[i]["totalCalls"] = Cardinality(Paid(i)') + Cardinality(Served(i)')
      BY <2>2, <3>1, <3>4, <3>5
    <3> QED
      BY <3>1, <3>3, <3>5, <3>6
  <2> QED
    BY <2>4, <2>5
<1>14. \A k \in Calls : pc'[k] = "charge" \/ k \in settled' => ~Unattributable(req'[k])
  BY <1>1, <1>2 DEF Books
<1>15. QED
  BY <1>12, <1>13, <1>14 DEF Books

LEMMA InitBooks == Init => Books
<1> SUFFICES ASSUME Init PROVE Books
  OBVIOUS
<1>1. Answered = {} /\ (\A i : Paid(i) = {} /\ Served(i) = {} /\ Minting(i) = {})
  BY DEF Init, Answered, Paid, Served, Minting
<1>2. Cardinality({}) = 0
  BY FS_EmptySet
<1>3. /\ events["payment.received"] = 0 /\ events["access-key.issued"] = 0
      /\ \A i \in Instances : \A n \in Booked : stats[i][n] = 0
  BY DEF Init, NoCounts, Counters, Booked, EventTypes
<1>4. \A c \in Calls : pc[c] # "charge" /\ c \notin settled
  BY DEF Init
<1>5. Cardinality(Answered) = 0
  BY <1>1, <1>2
<1>6. \A i : /\ Cardinality(Paid(i)) = 0 /\ Cardinality(Served(i)) = 0
             /\ Cardinality(Paid(i) \cup Minting(i)) = 0
  <2> TAKE i
  <2>1. Paid(i) = {} /\ Served(i) = {} /\ Paid(i) \cup Minting(i) = {}
    BY <1>1
  <2> QED
    BY <1>2, <2>1
<1>7. settled = {}
  BY DEF Init
<1>8. \A i \in Instances \ Mortal :
        /\ stats[i]["paidCalls"] = 0 /\ stats[i]["accessKeyCalls"] = 0
        /\ stats[i]["totalCalls"] = 0 /\ stats[i]["accessKeysIssued"] = 0
  BY <1>3 DEF Booked
<1>9. QED
  BY <1>3, <1>4, <1>5, <1>6, <1>7, <1>8 DEF Books

LEMMA NextBooks ==
  ASSUME Sound, Sound', Books, [Next]_vars
  PROVE  Books'
<1> USE DEF Sound
<1>1. ASSUME NEW c \in Calls, Arrive(c) PROVE Books'
  BY <1>1, ArriveIsQuiet, QuietKeepsBooks DEF Books
<1>2. CASE RedeemStep
  BY <1>2, RedeemIsQuiet, QuietKeepsBooks DEF RedeemStep, Books
<1>3. ASSUME NEW c \in Calls, Serve(c) PROVE Books'
  <2>1. CASE ServeReturns(c)
    BY <2>1, ServedJoins
  <2>2. CASE ServeThrows(c)
    <3>1. Silent /\ pc' = [pc EXCEPT ![c] = "failed"]
      BY <2>2, FailIsSilent DEF ServeThrows
    <3>2. pc[c] = "serve" /\ UNCHANGED <<settled, req, stats>>
      BY <2>2 DEF ServeThrows
    <3>3. Quiet
      BY <3>1, <3>2, NothingCounted DEF Quiet, Typed, TypesButPast
    <3> QED
      BY <3>1, <3>2, <3>3, QuietKeepsBooks DEF Books, Typed, TypesButPast
  <2> QED
    BY <1>3, <2>1, <2>2 DEF Serve
<1>4. ASSUME NEW c \in Calls, Pay(c) PROVE Books'
  <2>1. CASE PutRecord(c) \/ PutDecremented(c)
    <3>1. pc[c] \in {"put", "put2"} /\ pc'[c] \in {"put2", "done"}
          /\ (PutDecremented(c) => pc'[c] = "done")
      BY <2>1 DEF PutRecord, PutDecremented, FinishPaid, Goto, Typed, TypesButPast
    <3> QED
      BY <2>1, <3>1, MintingJoins, PaidJoins
  <2>2. CASE ~PutRecord(c) /\ ~PutDecremented(c)
    <3>1. Quiet /\ UNCHANGED req /\ settled' \in {settled, settled \cup {c}}
          /\ (c \in settled' \ settled => pc[c] = "charge")
          /\ (\A k \in Calls : pc'[k] = "charge" => pc[k] = "charge")
      BY <1>4, <2>2, PayIsQuiet
    <3>2. \A k \in Calls : pc'[k] = "charge" \/ k \in settled' => ~Unattributable(req'[k])
      BY <3>1 DEF Books
    <3> QED
      BY <3>1, <3>2, QuietKeepsBooks
  <2> QED
    BY <2>1, <2>2
<1>5. CASE OperatorStep \/ (\E k \in Calls : Expire(k) \/ Sweep(k)) \/ UNCHANGED vars
  BY <1>5, OthersAreQuiet, QuietKeepsBooks DEF Books
<1>6. ASSUME NEW i \in Instances, Restart(i) PROVE Books'
  BY <1>6, RestartIsQuiet, QuietKeepsBooks DEF Books
<1>7. QED
  BY <1>1, <1>2, <1>3, <1>4, <1>5, <1>6, Steps DEF ServeStep, PayStep

\* Over every kind of store the counters and the events agree with what was settled
\* and answered, and no payment is taken that no wallet could be bound to.
THEOREM BooksAreBalanced == Spec => []BooksBalance
<1>1. Sound /\ Sound' /\ Books /\ [Next]_vars => Books'
  BY NextBooks
<1>2. Spec => []Books
  BY <1>1, InitBooks, AlwaysSound, PTL DEF Spec
<1>3. ASSUME Sound, Books
      PROVE  BooksBalance
  <2>1. ASSUME NEW i \in Instances \ Mortal
        PROVE  /\ Cardinality(Paid(i) \cup Served(i)) = Cardinality(Paid(i)) + Cardinality(Served(i))
               /\ stats[i]["accessKeysIssued"] >= Cardinality(Paid(i))
    <3>1. /\ IsFiniteSet(Paid(i)) /\ IsFiniteSet(Served(i)) /\ Paid(i) \cap Served(i) = {}
          /\ IsFiniteSet(Paid(i) \cup Minting(i))
      <4>1. Paid(i) \subseteq Calls /\ Served(i) \subseteq Calls /\ Paid(i) \cup Minting(i) \subseteq Calls
            /\ Paid(i) \cap Served(i) = {}
        BY <1>3 DEF Paid, Served, Minting, Sound, Typed, TypesButPast
      <4> QED
        BY <4>1, CallsAssumption, FS_Subset
    <3>2. Cardinality(Paid(i) \cup Served(i))
            = Cardinality(Paid(i)) + Cardinality(Served(i)) - Cardinality(Paid(i) \cap Served(i))
      BY <3>1, FS_Union
    <3>3. Cardinality(Paid(i) \cap Served(i)) = 0
      BY <3>1, FS_EmptySet
    <3>4. /\ Cardinality(Paid(i)) <= Cardinality(Paid(i) \cup Minting(i))
          /\ Cardinality(Paid(i)) \in Nat /\ Cardinality(Served(i)) \in Nat
          /\ Cardinality(Paid(i) \cup Minting(i)) \in Nat
      BY <3>1, FS_Subset, FS_CardinalityType
    <3>5. stats[i]["accessKeysIssued"] \in Nat
          /\ stats[i]["accessKeysIssued"] >= Cardinality(Paid(i) \cup Minting(i))
      BY <1>3 DEF Books, Counters, Sound, Typed, TypesButPast
    <3> QED
      BY <3>2, <3>3, <3>4, <3>5
  <2>2. \A c \in settled : ~Unattributable(req[c])
    BY <1>3 DEF Books, Sound, Typed, TypesButPast
  <2> QED
    BY <1>3, <2>1, <2>2 DEF Books, BooksBalance, Answered, Paid, Served
<1>4. QED
  BY <1>2, <1>3, AlwaysSound, PTL

-----------------------------------------------------------------------------
(* The refinement of KeyLedger: seen from the buyers, every step of the      *)
(* gateway over an atomic store sells a key, serves a call, wastes one, ends *)
(* some keys, or is nothing at all.                                          *)

\* The refinement mapping of Ledger.
LState == [k \in Calls |-> IF ~Delivered(k) THEN "unsold"
                           ELSE IF store[k] = None THEN "gone" ELSE "live"]
LCap == [k \in Calls |-> IF Delivered(k) THEN Cap(k) ELSE None]
LLeft == [k \in Calls |-> IF Delivered(k) /\ store[k] # None
                          THEN store[k].left ELSE None]
LUsed == [k \in Calls |-> Cardinality(Grants(k))]

LEMMA InitLedger == Init => Ledger!LedgerInit
<1> SUFFICES ASSUME Init PROVE Ledger!LedgerInit
  OBVIOUS
<1>1. \A k \in Calls : ~Delivered(k) /\ Grants(k) = {}
  BY DEF Init, Delivered, Grants
<1>2. QED
  BY <1>1, FS_EmptySet DEF Ledger!LedgerInit

\* A call that is delivered was at its last put, and moves alone.
LEMMA DeliveryIsPay ==
  ASSUME Typed, Holders, [Next]_vars, NEW k \in Calls, ~Delivered(k), Delivered(k)'
  PROVE  Pay(k) /\ \A c \in Calls : ~Redeem(c)
<1>1. pc[k] \in {"put", "put2"} /\ pc'[k] = "done"
  BY DeliveryStep, SettledStep, Frame DEF Delivered, MintStep, Holders
<1>2. ASSUME NEW c \in Calls, Arrive(c) \/ Redeem(c) \/ Serve(c)
      PROVE  FALSE
  <2>1. pc[c] \in {"idle", "redeem", "swap", "serve"}
    BY <1>2 DEF Arrive, Redeem, RedeemInMemory, RedeemRead, RedeemSwap,
       RedeemConflict, RedeemWrite, RedeemFault, Serve, ServeReturns,
       ServeThrows, Redeeming
  <2>2. \E l : pc' = [pc EXCEPT ![c] = l]
    BY <1>2 DEF Arrive, Redeem, RedeemInMemory, RedeemRead, RedeemSwap,
       RedeemConflict, RedeemWrite, RedeemFault, Redeemed, RedeemThrows, Serve,
       ServeReturns, ServeThrows, Fail, Goto
  <2>3. QED
    BY <1>1, <2>1, <2>2 DEF Typed, TypesButPast
<1>3. ASSUME NEW c \in Calls, Pay(c), c # k
      PROVE  FALSE
  <2>1. \E l : pc' = [pc EXCEPT ![c] = l]
    BY <1>3 DEF Pay, ChargeRefused, ChargeThrows, ChargeSettles, WorkReturns,
       WorkThrows, PutRecord, PutDecremented, PutFault, FinishPaid, Fail, Goto
  <2>2. QED
    BY <1>1, <1>3, <2>1 DEF Typed, TypesButPast
<1>4. CASE OperatorStep \/ UNCHANGED vars \/ \E j \in Calls : Expire(j) \/ Sweep(j)
  BY <1>1, <1>4 DEF OperatorStep, Revoke, RevokeLookup, RevokeDelete, RevokeFault,
     List, ListLookup, ListPrune, Expire, Sweep, vars
<1>5. CASE \E i \in Instances : Restart(i)
  BY <1>1, <1>5 DEF Restart, Typed, TypesButPast
<1>6. QED
  BY <1>2, <1>3, <1>4, <1>5, Steps DEF RedeemStep, ServeStep, PayStep

LEMMA PayFrame ==
  ASSUME Typed, NEW k \in Calls, Pay(k), NEW j \in Calls, j # k
  PROVE  store'[j] = store[j] /\ pc'[j] = pc[j]
<1>1. \/ store' = store
      \/ \E rec : store' = [store EXCEPT ![k] = rec]
  BY DEF Pay, ChargeRefused, ChargeThrows, ChargeSettles,
     WorkReturns, WorkThrows, PutRecord, PutDecremented, PutFault
<1>2. \E l : pc' = [pc EXCEPT ![k] = l]
  BY DEF Pay, ChargeRefused, ChargeThrows, ChargeSettles, WorkReturns,
     WorkThrows, PutRecord, PutDecremented, PutFault, FinishPaid, Fail, Goto
<1>3. QED
  BY <1>1, <1>2 DEF Typed, TypesButPast

\* What is sold stays sold, for the same cap.
LEMMA SoldStays ==
  ASSUME Typed, Holders, [Next]_vars, NEW k \in Calls, Delivered(k)
  PROVE  Delivered(k)' /\ Cap(k)' = Cap(k) /\ req'[k] = req[k]
BY Frame DEF Delivered, Kept, Cap

LEMMA DecrementPresent ==
  ASSUME NEW rec \in Record, rec.left # 0
  PROVE  Decrement(rec) # None
BY DecrementType, AbsenceAssumption

\* The step sells the key of the call k.
LEMMA StepSells ==
  ASSUME Typed, Holders, [Next]_vars, NEW k \in Calls, ~Delivered(k), Delivered(k)',
         NEW p, p = Cap(k)
  PROVE  p \in {MaxCalls[t] : t \in Tools} /\ Ledger!Sell(k, p)
<1>1. /\ k \in settled /\ req[k] \in Request
      /\ store'[k] = Decrement(FreshRecord(k)) /\ Grants(k)' = {} /\ Grants(k) = {}
  BY DeliveryStep, NotSettledYet
<1>2. Cap(k)' = Cap(k) /\ FreshRecord(k).left = Cap(k) /\ p \in {MaxCalls[t] : t \in Tools}
  BY <1>1, Frame DEF Kept, Holders, Cap, FreshRecord, Request
<1>3. store'[k] # None /\ store'[k].left = Ledger!OneLess(p)
  <2>1. FreshRecord(k) \in Record /\ FreshRecord(k).left # 0
    BY <1>1, FreshRecordType DEF Typed, TypesButPast
  <2>2. QED
    BY <1>1, <1>2, <2>1, DecrementPresent, DecrementLeft DEF Ledger!OneLess
<1>4. ASSUME NEW j \in Calls, j # k
      PROVE  /\ Delivered(j)' <=> Delivered(j)
             /\ Delivered(j) => Cap(j)' = Cap(j)
             /\ store'[j] = store[j]
  <2>1. store'[j] = store[j] /\ pc'[j] = pc[j]
    BY <1>4, DeliveryIsPay, PayFrame
  <2>2. Delivered(j)' => Delivered(j)
    BY <1>4, <2>1, DeliveryStep, SettledStep DEF MintStep, Delivered
  <2>3. QED
    BY <2>1, <2>2, SoldStays
<1>5. ASSUME NEW j \in Calls
      PROVE  Grants(j)' = Grants(j)
  BY DeliveryIsPay, GrantsStep
<1>6. LState' = [LState EXCEPT ![k] = "live"]
  BY <1>3, <1>4 DEF LState
<1>7. LCap' = [LCap EXCEPT ![k] = p]
  BY <1>2, <1>4 DEF LCap
<1>8. LLeft' = [LLeft EXCEPT ![k] = Ledger!OneLess(p)]
  BY <1>3, <1>4 DEF LLeft
<1>9. LUsed' = LUsed
  BY <1>5 DEF LUsed
<1>10. QED
  BY <1>2, <1>6, <1>7, <1>8, <1>9 DEF Ledger!Sell, LState, LCap, LLeft, LUsed

\* The step takes a call off the key of the call c: served if c is told so,
\* wasted if the answer to the write was lost.
LEMMA StepTakes ==
  ASSUME Typed, Holders, [Next]_vars, NEW c \in Calls, Redeem(c), Taken(c),
         NEW k \in Calls, k = req[c].key
  PROVE  Ledger!Use(k) \/ Ledger!Waste(k)
<1>1. pc[c] \in Redeeming /\ Delivered(k) /\ ~Granted(c)
  <2>1. pc[c] \in Redeeming
    BY DEF Redeem, RedeemInMemory, RedeemRead, RedeemSwap, RedeemConflict,
       RedeemWrite, RedeemFault, Redeeming
  <2>2. QED
    BY <2>1, PricingAssumption DEF Holders, Redeeming, Granted
<1>2. /\ store[k] # None /\ store[k] \in Record /\ store[k].left # 0
      /\ store' = [store EXCEPT ![k] = Decrement(store[k])]
      /\ Decrement(store[k]) # None
      /\ Decrement(store[k]).left = Ledger!OneLess(store[k].left)
  BY DecrementPresent, DecrementLeft DEF Taken, Ledger!OneLess
<1>3. \A j \in Calls : /\ Delivered(j)' <=> Delivered(j)
                       /\ Delivered(j) => Cap(j)' = Cap(j)
                       /\ j # k => store'[j] = store[j]
  <2>1. \A j \in Calls : Delivered(j)' => Delivered(j)
    BY DeliveryIsPay
  <2>2. QED
    BY <1>2, <2>1, SoldStays DEF Typed, TypesButPast
<1>4. ASSUME NEW j \in Calls
      PROVE  Grants(j)' = IF j = k /\ Granted(c)' THEN Grants(j) \cup {c} ELSE Grants(j)
  <2>1. \A d \in Calls : Redeem(d) /\ Granted(d)' => d = c
    BY RedeemOnce
  <2>2. CASE j = k /\ Granted(c)'
    <3>1. req'[c] = req[c]
      BY <1>1, GrantedStep, <2>2
    <3>2. c \in Grants(j)'
      BY <2>2, <3>1 DEF Grants, Granted
    <3>3. c \notin Grants(j)
      BY <1>1 DEF Grants, Granted
    <3>4. QED
      BY <2>1, <2>2, <3>2, <3>3, GrantsStep
  <2>3. CASE ~(j = k /\ Granted(c)')
    BY <2>1, <2>3, GrantsStep
  <2>4. QED
    BY <2>2, <2>3
<1>5. LState' = LState /\ LState[k] = "live"
  BY <1>1, <1>2, <1>3 DEF LState, Typed, TypesButPast
<1>6. LCap' = LCap
  BY <1>3 DEF LCap
<1>7. LLeft' = [LLeft EXCEPT ![k] = Ledger!OneLess(LLeft[k])] /\ LLeft[k] # 0
  BY <1>1, <1>2, <1>3 DEF LLeft, Typed, TypesButPast
<1>8. CASE Granted(c)'
  <2>1. c \notin Grants(k)
    BY <1>1 DEF Grants, Granted
  <2>2. Cardinality(Grants(k) \cup {c}) = Cardinality(Grants(k)) + 1
    BY <2>1, GrantsCount
  <2>3. LUsed' = [LUsed EXCEPT ![k] = LUsed[k] + 1]
    BY <1>4, <1>8, <2>2 DEF LUsed
  <2>4. QED
    BY <1>5, <1>6, <1>7, <2>3 DEF Ledger!Use, LState, LCap, LLeft, LUsed
<1>9. CASE ~Granted(c)'
  <2>1. LUsed' = LUsed
    BY <1>4, <1>9 DEF LUsed
  <2>2. QED
    BY <1>5, <1>6, <1>7, <2>1 DEF Ledger!Waste, LState, LCap, LLeft, LUsed
<1>10. QED
  BY <1>8, <1>9

\* Any other step ends the keys whose records it removes, if any.
LEMMA StepEnds ==
  ASSUME Typed, Holders, [Next]_vars, StoreKind \in {"memory", "upstash"},
         \A c \in Calls : Redeem(c) => ~Taken(c),
         \A k \in Calls : Delivered(k)' => Delivered(k)
  PROVE  \E S \in SUBSET Calls : Ledger!End(S)
<1>0. PICK S \in SUBSET Calls :
        S = {k \in Calls : Delivered(k) /\ store[k] # None /\ store'[k] = None}
  OBVIOUS
<1>1. ASSUME NEW k \in Calls
      PROVE  /\ Delivered(k)' <=> Delivered(k)
             /\ Delivered(k) => Cap(k)' = Cap(k) /\ store'[k] \in {store[k], None}
             /\ Grants(k)' = Grants(k)
  <2>1. \A c \in Calls : Redeem(c) => store' = store /\ ~Granted(c)'
    BY RedeemAtomic DEF Granted
  <2>2. Delivered(k) => store'[k] \in {store[k], None}
    BY <2>1, StoreStep DEF Rewritten, Delivered
  <2>3. QED
    BY <2>1, <2>2, SoldStays, GrantsStep
<1>2. \A k \in S : LState[k] = "live"
  BY <1>0 DEF LState
<1>3. LState' = [k \in Calls |-> IF k \in S THEN "gone" ELSE LState[k]]
  BY <1>0, <1>1 DEF LState
<1>4. LLeft' = [k \in Calls |-> IF k \in S THEN None ELSE LLeft[k]]
  BY <1>0, <1>1 DEF LLeft
<1>5. LCap' = LCap /\ LUsed' = LUsed
  BY <1>1 DEF LCap, LUsed
<1>6. Ledger!End(S)
  BY <1>2, <1>3, <1>4, <1>5 DEF Ledger!End, LState, LCap, LLeft, LUsed
<1>7. QED
  BY <1>6

LEMMA StepImplements ==
  ASSUME Typed, Holders, [Next]_vars, StoreKind \in {"memory", "upstash"}
  PROVE  Ledger!LedgerNext
<1>1. CASE \E k \in Calls : ~Delivered(k) /\ Delivered(k)'
  <2>1. PICK k \in Calls : ~Delivered(k) /\ Delivered(k)'
    BY <1>1
  <2>2. PICK p : p = Cap(k)
    OBVIOUS
  <2>3. p \in {MaxCalls[t] : t \in Tools} /\ Ledger!Sell(k, p)
    BY <2>1, <2>2, StepSells
  <2>4. QED
    BY <2>3 DEF Ledger!LedgerNext
<1>2. CASE \E c \in Calls : Redeem(c) /\ Taken(c)
  <2>1. PICK c \in Calls : Redeem(c) /\ Taken(c)
    BY <1>2
  <2>2. PICK k \in Calls : k = req[c].key
    BY <2>1, RedeemAtomic
  <2>3. Ledger!Use(k) \/ Ledger!Waste(k)
    BY <2>1, <2>2, StepTakes
  <2>4. QED
    BY <2>3 DEF Ledger!LedgerNext
<1>3. CASE /\ ~\E k \in Calls : ~Delivered(k) /\ Delivered(k)'
           /\ ~\E c \in Calls : Redeem(c) /\ Taken(c)
  BY <1>3, StepEnds DEF Ledger!LedgerNext
<1>4. QED
  BY <1>1, <1>2, <1>3

\* Over a memory or an Upstash store the gateway implements KeyLedger: a key is
\* sold once, a call it serves takes one call off it, a call whose answer is
\* lost is wasted and never given back, and a key that is gone stays gone.
THEOREM GatewayIsLedger ==
  ASSUME StoreKind \in {"memory", "upstash"}
  PROVE  Spec => ImplementsLedger
<1>1. AtomicInv /\ [Next]_vars => [Ledger!LedgerNext]_(Ledger!ledgerVars)
  BY StepImplements DEF AtomicInv, Sound
<1>2. QED
  BY <1>1, InitLedger, AlwaysAtomic, PTL
     DEF Spec, ImplementsLedger, Ledger!LedgerSpec
=============================================================================
