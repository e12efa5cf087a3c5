----------------------------- MODULE MCAppleLedger -----------------------------
(* AppleLedger on small instances.                                           *)
EXTENDS AppleLedger, TLC

CONSTANTS u1, u2, s1, h1, h2, h3, g1, q1, q2, d1, d2

BothInvitedByFirst == [u \in Users |-> IF u = u1 THEN Nobody ELSE u1]
AllPaidByFirst == [c \in Charges |-> u1]
Price99 == [c \in Charges |-> 9900]
AllPagesOfFirst == [d \in Devices |-> u1]
Alike == Permutations({h1, h2, h3}) \union Permutations(Quotes)
Trials == <<3, 2, 1>>

\* Every ticket draws one prize, and so many of the hundred draw each.
ASSUME PrizesFollowTheWeights ==
  \A i \in DOMAIN PRIZE_WEIGHTS :
    Cardinality({t \in 0..99 : prize_for_ticket(t) = PRIZE_WEIGHTS[i][1]}) = PRIZE_WEIGHTS[i][2]

===============================================================================
