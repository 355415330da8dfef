----------------------------- MODULE KeyLedger ------------------------------
(***************************************************************************)
(* What a purchase of an access key buys, with no store, no retries and no *)
(* crash in it: a key is sold once with a cap, each call it serves takes   *)
(* one call off it, a call may be wasted, and once it is gone it stays     *)
(* gone.  This is what redeem promises in src/access-keys.ts: "exactly     *)
(* remainingCalls of them succeed", and revokeAccessKey in src/server.ts:  *)
(* "future redemptions fail with unknown".                                 *)
(***************************************************************************)
EXTENDS Integers

CONSTANTS
  Keys,   \* the tokens
  Caps,   \* the caps on sale, None for no cap
  None

\* As validateAccessKeyPricing has it: a cap is a positive count.
CapsAssumption == None \notin Nat /\ Caps \subseteq (Nat \ {0}) \cup {None}

VARIABLES
  state,  \* [Keys -> "unsold", "live" or "gone"]
  cap,    \* [Keys -> the cap it was sold with]
  left,   \* [Keys -> calls left on a live key, None for no cap]
  used    \* [Keys -> calls served]

ledgerVars == <<state, cap, left, used>>

LedgerTypeOK ==
  /\ state \in [Keys -> {"unsold", "live", "gone"}]
  /\ cap \in [Keys -> Caps \cup {None}]
  /\ left \in [Keys -> Nat \cup {None}]
  /\ used \in [Keys -> Nat]

LedgerInit ==
  /\ state = [k \in Keys |-> "unsold"]
  /\ cap = [k \in Keys |-> None]
  /\ left = [k \in Keys |-> None]
  /\ used = [k \in Keys |-> 0]

OneLess(n) == IF n = None THEN None ELSE n - 1

\* The call that paid takes the first call of the key.
Sell(k, p) ==
  /\ state[k] = "unsold"
  /\ p \in Caps
  /\ state' = [state EXCEPT ![k] = "live"]
  /\ cap' = [cap EXCEPT ![k] = p]
  /\ left' = [left EXCEPT ![k] = OneLess(p)]
  /\ UNCHANGED used

\* A redemption that succeeds.
Use(k) ==
  /\ state[k] = "live"
  /\ left[k] # 0
  /\ left' = [left EXCEPT ![k] = OneLess(@)]
  /\ used' = [used EXCEPT ![k] = @ + 1]
  /\ UNCHANGED <<state, cap>>

\* A redemption that takes its call and never says so.
Waste(k) ==
  /\ state[k] = "live"
  /\ left[k] # 0
  /\ left' = [left EXCEPT ![k] = OneLess(@)]
  /\ UNCHANGED <<state, cap, used>>

\* Revoked, swept, or lost with the process that held it.
End(S) ==
  /\ \A k \in S : state[k] = "live"
  /\ state' = [k \in Keys |-> IF k \in S THEN "gone" ELSE state[k]]
  /\ left' = [k \in Keys |-> IF k \in S THEN None ELSE left[k]]
  /\ UNCHANGED <<cap, used>>

LedgerNext ==
  \/ \E k \in Keys, p \in Caps : Sell(k, p)
  \/ \E k \in Keys : Use(k) \/ Waste(k)
  \/ \E S \in SUBSET Keys : End(S)

LedgerSpec == LedgerInit /\ [][LedgerNext]_ledgerVars

\* A capped key never serves more calls than were sold: the paying call, the
\* calls served since and the calls left add up to no more than the cap.
LedgerBudget ==
  \A k \in Keys :
    cap[k] # None =>
      /\ used[k] + 1 <= cap[k]
      /\ state[k] = "live" => left[k] # None /\ used[k] + left[k] + 1 <= cap[k]
=============================================================================
