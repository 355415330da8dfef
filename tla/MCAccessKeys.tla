---------------------------- MODULE MCAccessKeys ----------------------------
(***************************************************************************)
(* Instances of AccessKeys for TLC: the values of its function constants,  *)
(* chosen in the configurations by name.                                   *)
(***************************************************************************)
EXTENDS AccessKeys, TLC

CONSTANTS t1, t2, i1, i2

CapTwo == [t \in Tools |-> 2]
CapThree == [t \in Tools |-> 3]
CapThreeAndNoCap == [t \in Tools |-> IF t = t1 THEN 3 ELSE None]

AllBearer == [i \in Instances |-> "none"]
OneBound == [i \in Instances |-> IF i = i1 THEN "wallet" ELSE "none"]

\* Calls and revocations are interchangeable, and so are the wallets.
Symmetry == Permutations(Calls) \cup Permutations(Revokers) \cup Permutations(Wallets)

\* So are the tools, where they have the same cap and no bound on time.
SymmetryOfTools == Symmetry \cup Permutations(Tools)
=============================================================================
