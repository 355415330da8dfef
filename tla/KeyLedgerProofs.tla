--------------------------- MODULE KeyLedgerProofs ---------------------------
(***************************************************************************)
(* KeyLedger keeps its promise, for any keys and any caps.                 *)
(***************************************************************************)
EXTENDS KeyLedger, TLAPS

\* A key that is not sold has served nothing.
LedgerInv ==
  /\ LedgerTypeOK
  /\ LedgerBudget
  /\ \A k \in Keys : state[k] = "unsold" => used[k] = 0

LEMMA LedgerInitInv == LedgerInit => LedgerInv
BY DEF LedgerInit, LedgerInv, LedgerTypeOK, LedgerBudget

LEMMA LedgerNextInv == CapsAssumption /\ LedgerInv /\ [LedgerNext]_ledgerVars => LedgerInv'
<1> SUFFICES ASSUME CapsAssumption, LedgerInv, [LedgerNext]_ledgerVars PROVE LedgerInv'
  OBVIOUS
<1> USE DEF CapsAssumption, LedgerInv, LedgerTypeOK, LedgerBudget
<1>1. ASSUME NEW k \in Keys, NEW p \in Caps, Sell(k, p)
      PROVE  LedgerInv'
  <2>1. OneLess(p) \in Nat \cup {None} /\ (p # None => OneLess(p) = p - 1 /\ p \in Nat \ {0})
    BY DEF OneLess
  <2>2. QED
    BY <1>1, <2>1 DEF Sell
<1>2. ASSUME NEW k \in Keys, Use(k) \/ Waste(k)
      PROVE  LedgerInv'
  <2>1. PICK l \in Nat \cup {None}, u \in Nat :
          /\ left' = [left EXCEPT ![k] = l]
          /\ used' = [used EXCEPT ![k] = u]
          /\ u \in {used[k], used[k] + 1}
          /\ left[k] # None => l = left[k] - 1 /\ left[k] \in Nat \ {0}
          /\ left[k] = None => l = None
    <3>1. /\ OneLess(left[k]) \in Nat \cup {None}
          /\ left[k] # None => OneLess(left[k]) = left[k] - 1 /\ left[k] \in Nat \ {0}
          /\ left[k] = None => OneLess(left[k]) = None
      BY <1>2 DEF OneLess, Use, Waste
    <3>2. /\ left' = [left EXCEPT ![k] = OneLess(left[k])]
          /\ used' \in {[used EXCEPT ![k] = used[k]], [used EXCEPT ![k] = used[k] + 1]}
      BY <1>2 DEF Use, Waste
    <3>3. used[k] \in Nat /\ used[k] + 1 \in Nat
      OBVIOUS
    <3> HIDE DEF LedgerInv
    <3>4. CASE used' = [used EXCEPT ![k] = used[k]]
      BY <3>1, <3>2, <3>3, <3>4
    <3>5. CASE used' = [used EXCEPT ![k] = used[k] + 1]
      BY <3>1, <3>2, <3>3, <3>5
    <3>6. QED
      BY <3>2, <3>4, <3>5
  <2>2. state[k] = "live" /\ UNCHANGED <<state, cap>>
    BY <1>2 DEF Use, Waste
  <2>3. LedgerTypeOK'
    BY <2>1, <2>2
  <2>4. LedgerBudget'
    <3>1. ASSUME NEW j \in Keys, j # k
          PROVE  left'[j] = left[j] /\ used'[j] = used[j]
      BY <2>1, <3>1
    <3>2. left'[k] = l /\ used'[k] = u
      BY <2>1
    <3>3. cap[k] # None => /\ u + 1 <= cap[k]
                           /\ l # None /\ u + l + 1 <= cap[k]
      <4>1. ASSUME cap[k] # None
            PROVE  /\ cap[k] \in Nat /\ used[k] \in Nat /\ left[k] # None
                   /\ used[k] + left[k] + 1 <= cap[k]
        BY <4>1, <2>2
      <4>2. QED
        BY <2>1, <4>1
    <3>4. QED
      BY <2>2, <3>1, <3>2, <3>3
  <2>5. QED
    BY <2>1, <2>2, <2>3, <2>4
<1>3. ASSUME NEW S \in SUBSET Keys, End(S)
      PROVE  LedgerInv'
  BY <1>3 DEF End
<1>4. CASE UNCHANGED ledgerVars
  BY <1>4 DEF ledgerVars
<1>5. QED
  BY <1>1, <1>2, <1>3, <1>4 DEF LedgerNext

\* A ledger never serves more calls of a key than were sold, the paying call
\* included, however many were wasted: what redeem's doc promises.
THEOREM LedgerKeepsBudget ==
  ASSUME CapsAssumption
  PROVE  LedgerSpec => []LedgerBudget
<1>1. LedgerInv => LedgerBudget
  BY DEF LedgerInv
<1>2. LedgerInv /\ [LedgerNext]_ledgerVars => LedgerInv'
  BY LedgerNextInv
<1>3. QED
  BY <1>1, <1>2, LedgerInitInv, PTL DEF LedgerSpec
=============================================================================
