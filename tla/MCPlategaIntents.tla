--------------------------- MODULE MCPlategaIntents ---------------------------
(* PlategaIntents on small instances.                                        *)
EXTENDS PlategaIntents

CONSTANTS r1, r2, w1, w2, t1, t2, s1

OneSlot == [r \in Requests |-> s1]

===============================================================================
