---------------------------- MODULE MCPaidClient ----------------------------
(***************************************************************************)
(* Instances of PaidClient for TLC.                                        *)
(***************************************************************************)
EXTENDS PaidClient, TLC

CONSTANTS tk, ts, tf

Modes == [t \in Tools |-> CASE t = tk -> "key" [] t = ts -> "session"
                            [] t = tf -> "free"
                            [] OTHER -> "charge"]

Symmetry == Permutations(Calls) \cup Permutations(Channels)
=============================================================================
