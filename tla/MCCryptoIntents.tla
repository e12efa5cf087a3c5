---------------------------- MODULE MCCryptoIntents ----------------------------
(* CryptoIntents on small instances.                                         *)
EXTENDS CryptoIntents

CONSTANTS r1, r2, w1, m1, t1, t2, s1

OneSlot == [r \in Requests |-> s1]

===============================================================================
