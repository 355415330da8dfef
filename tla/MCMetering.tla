----------------------------- MODULE MCMetering -----------------------------
(***************************************************************************)
(* Instances of Metering for TLC.                                          *)
(***************************************************************************)
EXTENDS Metering, TLC

CONSTANTS tf, tt, ts, tk

\* A free, a tiered, a session and an access-key tool.
Models == [t \in Tools |-> CASE t = tf -> "free" [] t = tt -> "tiered"
                             [] t = ts -> "session" [] t = tk -> "access-key"
                             [] OTHER -> "per-call"]

\* 0.5
Half == [digits |-> 5, scale |-> 1]

Flat == [t \in Tools |-> Half]

\* One call at 1, the next one at 0.25, and then 0.125, a decimal too many.
ThreeTiers == << [upTo |-> 1, amount |-> [digits |-> 1, scale |-> 0]],
                 [upTo |-> 2, amount |-> [digits |-> 25, scale |-> 2]],
                 [upTo |-> None, amount |-> [digits |-> 125, scale |-> 3]] >>

\* The access-key tool names two currencies.
Currencies2 == [t \in Tools |-> IF t # tk THEN {} ELSE
                  {[currency |-> k, amount |-> Half] : k \in Currencies}]

Symmetry == Permutations(Calls)
=============================================================================
